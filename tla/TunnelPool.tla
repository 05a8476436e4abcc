----------------------------- MODULE TunnelPool -----------------------------
(***************************************************************************)
(* The client's pinned tunnel pool (transport/multiplex.rs, pool.rs): data *)
(* channels are opened as streams of the least-loaded tunnel, a            *)
(* maintenance task reaps and re-dials dead tunnels and hands one tunnel   *)
(* at a time over to the other carrier.  An open is a task of its own; it  *)
(* holds the state lock only inside `reserve`, and awaits in between.      *)
(*                                                                         *)
(* Tunnel ids are never reused (next_tunnel_id), so a tunnel's counters    *)
(* are indexed by id and outlive its entry, as the Arc they live in does.  *)
(***************************************************************************)
EXTENDS Naturals, Sequences, FiniteSets

CONSTANTS
  Openers,    \* tasks that open data channels
  Count,      \* PoolState::count, [client.data].tunnels
  TunnelCeiling,    \* tunnel_ceiling(stream_cap)
  OpenBudget, \* OPEN_BUDGET
  Spares      \* bound: tunnels that may fail or be handed over

Carriers == {"kcp", "tcp"}
Other(c) == IF c = "kcp" THEN "tcp" ELSE "kcp"
PoolCarrier == "kcp"                 \* PoolShared::carrier, set at creation
Ids == 1..(Count + Spares)
Task == Openers \cup {"maintenance"}

ASSUME PoolAssumption ==
  /\ IsFiniteSet(Openers) /\ "maintenance" \notin Openers /\ "nobody" \notin Openers
  /\ Count \in Nat \ {0} /\ TunnelCeiling \in Nat \ {0} /\ OpenBudget \in Nat \ {0}
  /\ Spares \in Nat

VARIABLES
  entries,  \* PoolState::entries
  handover, \* PoolState::handover; phase "none" when there is none
  up,       \* per id: the tunnel's connection works
  alive,    \* per id: ClientTunnel::alive
  streams,  \* per id: TunnelCounters::streams
  pending,  \* per id: TunnelCounters::pending
  dial,     \* the growth in flight (resizing): who dials, on which carrier
  hold,     \* grow_failed_at is set and its cooldown runs
  maint,    \* where the maintenance task is in `maintain`
  op,       \* per opener: where it is in open_avoiding and complete
  born,     \* tunnels established so far (next_tunnel_id)
  spares    \* what is left of the bound on failures

poolVars == <<entries, handover, up, alive, streams, pending, dial, hold, maint, op,
          born, spares>>
slotVars == <<up, alive, streams, pending>>

Entry(id, c) == [id |-> id, carrier |-> c, phase |-> "serving"]
NoHandover == [phase |-> "none", id |-> 0, target |-> "tcp", late |-> FALSE]
NoDial == [by |-> "nobody", wanted |-> "tcp"]
Idle == [pc |-> "idle", tun |-> 0, idx |-> 0, tried |-> {}, avoid |-> {}]

(* The establishment pass at service start brought every tunnel up.        *)
PoolInit ==
  /\ entries = [i \in 1..Count |-> Entry(i, PoolCarrier)]
  /\ handover = NoHandover
  /\ up = [t \in Ids |-> t <= Count] /\ alive = [t \in Ids |-> t <= Count]
  /\ streams = [t \in Ids |-> 0] /\ pending = [t \in Ids |-> 0]
  /\ dial = NoDial /\ hold = FALSE /\ maint = "idle"
  /\ op = [o \in Openers |-> Idle]
  /\ born = Count /\ spares = Spares

-----------------------------------------------------------------------------
(* Placement.                                                              *)

Indices == 1..Len(entries)
Id(i) == entries[i].id
Serving(i) == entries[i].phase = "serving"
Load(t) == streams[t] + pending[t]                 \* TunnelLoad::total

(* `charge` updates two atomics without the lock and `load` reads the two: *)
(* a load that straddles the charge of an open sees the tunnel one short.  *)
Charging(t) == Cardinality({o \in Openers : op[o].pc = "charge" /\ op[o].tun = t})
SeenLoads == {f \in [Indices -> 0..(TunnelCeiling + Cardinality(Openers))] :
                \A i \in Indices : f[i] + Charging(Id(i)) >= Load(Id(i)) /\ f[i] <= Load(Id(i))}

(* order_candidates_for: never the tunnels already tried; not the ones the *)
(* stripe group occupies, while there is another.                          *)
Candidates(tried, avoid) ==
  LET open == {i \in Indices : Serving(i) /\ i \notin tried}
  IN  IF open \ avoid = {} THEN open ELSE open \ avoid

(* order_candidates: the least-loaded come first, the cursor decides       *)
(* between equals.  While the carrier rule probes, the first serving       *)
(* tunnel of the probed carrier comes before them.                         *)
ProbeIndex ==
  LET on == {i \in Indices : Serving(i) /\ entries[i].carrier = Other(PoolCarrier)}
  IN  {i \in on : \A j \in on : i <= j}
First(S, seen) == {i \in S : i \in ProbeIndex \/ \A j \in S : seen[i] <= seen[j]}

(* reserve: the indices it may take; the ceiling has no fallback, the      *)
(* pending budget does.                                                    *)
Reservable(tried, avoid, seen) ==
  LET room == {i \in Candidates(tried, avoid) : seen[i] < TunnelCeiling}
      budget == {i \in room : pending[Id(i)] < OpenBudget}
  IN  First(IF budget # {} THEN budget ELSE room, seen)

Reserve(o, i) ==
  /\ pending' = [pending EXCEPT ![Id(i)] = @ + 1]
  /\ op' = [op EXCEPT ![o].pc = "open", ![o].tun = Id(i), ![o].idx = i]

OpenerAt(o, where) == op[o].pc = where
GoTo(o, where) == op' = [op EXCEPT ![o].pc = where]
Answer(o) == op' = [op EXCEPT ![o] = Idle]

-----------------------------------------------------------------------------
(* Growing: one dial at a time, whoever wants it (grow, grow_locked).      *)

Wanted == IF handover.phase = "dialing" THEN {handover.target} ELSE Carriers

(* The dial begins, or grow_locked finds the pool complete and that error  *)
(* is stamped like any other.                                              *)
BeginGrow(who) ==
  /\ dial = NoDial
  /\ IF Len(entries) >= Count
     THEN hold' = TRUE /\ UNCHANGED dial
     ELSE /\ \E c \in Wanted : dial' = [by |-> who, wanted |-> c]
          /\ UNCHANGED hold

(* The dialing task goes on, an open to its first look and maintenance to  *)
(* its next tick.                                                          *)
DialerSilent ==
  /\ maint' = IF dial.by = "maintenance" THEN "idle" ELSE maint
  /\ UNCHANGED op
DialerResumes ==
  /\ maint' = IF dial.by = "maintenance" THEN "idle" ELSE maint
  /\ op' = [o \in Openers |-> IF o = dial.by THEN [op[o] EXCEPT !.pc = "look"] ELSE op[o]]

(* The dial succeeds: the tunnel joins the pool, and a handover whose      *)
(* target the pool now rides is over.                                      *)
DialOk ==
  /\ dial.by # "nobody" /\ dial' = NoDial /\ DialerResumes
  /\ IF Len(entries) >= Count
     THEN hold' = TRUE /\ UNCHANGED <<entries, handover, up, alive, born>>
     ELSE LET id == born + 1
              new == Append(entries, Entry(id, dial.wanted))
          IN  /\ entries' = new /\ born' = id /\ hold' = FALSE
              /\ up' = [up EXCEPT ![id] = TRUE] /\ alive' = [alive EXCEPT ![id] = TRUE]
              /\ handover' = IF /\ handover.phase = "dialing"
                                /\ \E i \in DOMAIN new : new[i].carrier = handover.target
                             THEN NoHandover ELSE handover
  /\ UNCHANGED <<streams, pending, spares>>

(* The dial fails, or the server's max_tunnels valve refuses it: no repair *)
(* until the cooldown ran or a tunnel dies.                                *)
DialFailsStillResizing ==
  /\ dial.by # "nobody" /\ dial' = [by |-> "nobody", wanted |-> "kcp"]
  /\ hold' = TRUE /\ DialerResumes
  /\ UNCHANGED <<entries, handover, slotVars, born, spares>>
DialFails ==
  /\ dial.by # "nobody" /\ dial' = NoDial /\ hold' = TRUE /\ DialerResumes
  /\ UNCHANGED <<entries, handover, slotVars, born, spares>>

HoldExpires ==                                        \* GROW_FAILURE_COOLDOWN
  /\ hold /\ hold' = FALSE
  /\ UNCHANGED <<entries, handover, slotVars, dial, maint, op, born, spares>>

-----------------------------------------------------------------------------
(* One open (open_avoiding, complete).                                     *)

openerVars == <<entries, handover, maint, born, spares>>

StartOpen(o) ==
  /\ OpenerAt(o, "idle") /\ GoTo(o, IF entries = <<>> THEN "cold" ELSE "look")
  /\ UNCHANGED <<openerVars, slotVars, dial, hold>>

(* An empty pool is repaired by the open itself, unless someone already    *)
(* dials: then await_growth waits for the outcome, at most COLD_GROW_WAIT, *)
(* and the look that follows may come at any time.                         *)
ColdGrow(o) ==
  /\ OpenerAt(o, "cold")
  /\ \/ dial # NoDial /\ GoTo(o, "look") /\ UNCHANGED <<dial, hold>>
     \/ BeginGrow(o) /\ GoTo(o, IF dial' = NoDial THEN "look" ELSE "grow")
  /\ UNCHANGED <<openerVars, slotVars>>

(* The first look.  A stripe avoids the tunnels its siblings hold; the     *)
(* indices are taken now and not looked up again.                          *)
SiblingIndices(o) ==
  {i \in Indices : \E p \in Openers \ {o} : OpenerAt(p, "lease") /\ op[p].tun = Id(i)}

FirstLook(o) ==
  /\ OpenerAt(o, "look")
  /\ \E avoid \in {{}, SiblingIndices(o)}, seen \in SeenLoads :
       LET may == Reservable({}, avoid, seen)
       IN  \/ \E i \in may :
                /\ pending' = [pending EXCEPT ![Id(i)] = @ + 1]
                /\ op' = [op EXCEPT ![o] = [Idle EXCEPT !.pc = "open", !.tun = Id(i),
                                                        !.idx = i, !.avoid = avoid]]
           \/ /\ may = {} /\ UNCHANGED pending
              /\ op' = [op EXCEPT ![o] = IF entries = <<>> THEN Idle     \* NoTunnel
                                         ELSE [Idle EXCEPT !.pc = "look2", !.avoid = avoid]]
  /\ UNCHANGED <<openerVars, up, alive, streams, dial, hold>>

(* The second look, after registering for capacity_freed.  A reservation   *)
(* it obtains is tested with is_none() and discarded, still charged.       *)
SecondLook(o) ==
  /\ OpenerAt(o, "look2")
  /\ \E seen \in SeenLoads :
       LET may == Reservable({}, op[o].avoid, seen)
       IN  \/ \E i \in may :
                pending' = [pending EXCEPT ![Id(i)] = @ + 1]
           \/ may = {} /\ UNCHANGED pending
  /\ GoTo(o, "wait")
  /\ UNCHANGED <<openerVars, up, alive, streams, dial, hold>>

(* A stream retired, or CAPACITY_WAIT ran out: the last look, AtCapacity   *)
(* when it fails too.                                                      *)
LastLook(o) ==
  /\ OpenerAt(o, "wait")
  /\ \E seen \in SeenLoads :
       LET may == Reservable({}, op[o].avoid, seen)
       IN  (\E i \in may : Reserve(o, i)) \/ (may = {} /\ Answer(o) /\ UNCHANGED pending)
  /\ UNCHANGED <<openerVars, up, alive, streams, dial, hold>>

(* ClientTunnel::open_stream answers with a stream ...                     *)
OpenOk(o) ==
  /\ OpenerAt(o, "open") /\ up[op[o].tun] /\ GoTo(o, "charge")
  /\ UNCHANGED <<openerVars, slotVars, dial, hold>>

(* Mutant: the stream is not counted on its tunnel.                        *)
ChargeOnlyReleasing(o) ==
  /\ OpenerAt(o, "charge") /\ GoTo(o, "lease")
  /\ pending' = [pending EXCEPT ![op[o].tun] = @ - 1]
  /\ UNCHANGED <<openerVars, up, alive, streams, dial, hold>>
ChargeTunnel(o) ==
  /\ OpenerAt(o, "charge") /\ GoTo(o, "lease")
  /\ streams' = [streams EXCEPT ![op[o].tun] = @ + 1]
  /\ pending' = [pending EXCEPT ![op[o].tun] = @ - 1]
  /\ UNCHANGED <<openerVars, up, alive, dial, hold>>

(* ... or fails.  The index joins the tried ones for the fall-through.     *)
FallThrough(o) ==
  op' = [op EXCEPT ![o].pc = "retry", ![o].tun = 0, ![o].idx = 0,
                   ![o].tried = @ \cup {op[o].idx}]

(* Mutant: the reservation is released on both error paths.                *)
OpenClosedReleasingTwice(o) ==
  /\ OpenerAt(o, "open") /\ ~up[op[o].tun] /\ FallThrough(o)
  /\ pending' = [pending EXCEPT ![op[o].tun] = @ - 2]
  /\ UNCHANGED <<openerVars, up, alive, streams, dial, hold>>
OpenClosed(o) ==
  /\ OpenerAt(o, "open") /\ ~up[op[o].tun] /\ FallThrough(o)
  /\ pending' = [pending EXCEPT ![op[o].tun] = @ - 1]
  /\ alive' = [alive EXCEPT ![op[o].tun] = FALSE]          \* mark_dead
  /\ hold' = FALSE                                         \* release_growth_hold
  /\ UNCHANGED <<openerVars, up, streams, dial>>

(* The engine's cap: the connection goes down with it (MuxConnection,      *)
(* OpenAtCap); the first attempt reports it, a later one falls through.    *)
OpenTooMany(o) ==
  /\ OpenerAt(o, "open") /\ up[op[o].tun] /\ spares > 0 /\ spares' = spares - 1
  /\ pending' = [pending EXCEPT ![op[o].tun] = @ - 1]
  /\ up' = [up EXCEPT ![op[o].tun] = FALSE]
  /\ IF op[o].tried = {} THEN Answer(o) ELSE FallThrough(o)
  /\ UNCHANGED <<entries, handover, alive, streams, dial, hold, maint, born>>

Retry(o) ==
  /\ OpenerAt(o, "retry")
  /\ \E seen \in SeenLoads :
       LET may == Reservable(op[o].tried, op[o].avoid, seen)
       IN  (\E i \in may : Reserve(o, i)) \/ (may = {} /\ Answer(o) /\ UNCHANGED pending)
  /\ UNCHANGED <<openerVars, up, alive, streams, dial, hold>>

DropLease(o) ==
  /\ OpenerAt(o, "lease") /\ Answer(o)
  /\ streams' = [streams EXCEPT ![op[o].tun] = @ - 1]
  /\ UNCHANGED <<openerVars, up, alive, pending, dial, hold>>

-----------------------------------------------------------------------------
(* The maintenance task: one `maintain` per tick, in this order.           *)

(* begin_handover_on: any serving tunnel of `from`; which one depends on   *)
(* the loads, on UDP pins and on the tunnel the evidence convicted.        *)
BeginHandover(from, target) ==
  /\ handover = NoHandover /\ spares > 0
  /\ Cardinality({i \in Indices : Serving(i)}) > 1
  /\ \E i \in Indices :
       /\ Serving(i) /\ entries[i].carrier = from
       /\ entries' = [entries EXCEPT ![i].phase = "draining"]
       /\ handover' = [phase |-> "draining", id |-> Id(i), target |-> target, late |-> FALSE]
  /\ spares' = spares - 1

(* diagnostic_handover and carrier_rule_step: nothing, or a handover to    *)
(* the other carrier (which of the two asks for it is CarrierRule's).      *)
Tick ==
  /\ maint = "idle" /\ maint' = "reap"
  /\ \/ UNCHANGED <<entries, handover, spares>>
     \/ \E c \in Carriers : BeginHandover(c, Other(c))
  /\ UNCHANGED <<slotVars, dial, hold, op, born>>

(* Dropping an entry drops the sender that keeps its driver running; the   *)
(* entries that stay keep their order.                                     *)
Nth(S, k) == CHOOSE i \in S : Cardinality({j \in S : j <= i}) = k
Kept(ids) == {i \in Indices : Id(i) \notin ids}
Drop(ids) ==
  /\ entries' = [k \in 1..Cardinality(Kept(ids)) |-> entries[Nth(Kept(ids), k)]]
  /\ up' = [t \in Ids |-> up[t] /\ t \notin ids]

ReapDead ==
  /\ maint = "reap" /\ maint' = "handover"
  /\ LET dead == {Id(i) : i \in {j \in Indices : ~alive[Id(j)]}}
     IN  Drop(dead) /\ hold' = (hold /\ dead = {})
  /\ UNCHANGED <<handover, alive, streams, pending, dial, op, born, spares>>

(* A phase of the handover outlives its budget (SWITCH_COOLDOWN while      *)
(* draining, COLD_GROW_WAIT while dialing).                                *)
HandoverLate ==
  /\ handover.phase # "none" /\ ~handover.late
  /\ handover' = [handover EXCEPT !.late = TRUE]
  /\ UNCHANGED <<entries, slotVars, dial, hold, maint, op, born, spares>>

(* Mutant: a drain has no budget.                                          *)
OverBudgetDialingOnly == handover.late /\ handover.phase = "dialing"
OverBudget == handover.late

(* Mutant: a drain that is called off leaves its tunnel draining.          *)
CallOffForgettingEntry ==
  /\ handover' = NoHandover
  /\ UNCHANGED <<entries, up, hold>>
CallOff ==
  /\ handover' = NoHandover
  /\ entries' = [i \in Indices |->
       IF handover.phase = "draining" /\ Id(i) = handover.id
       THEN [entries[i] EXCEPT !.phase = "serving"] ELSE entries[i]]
  /\ UNCHANGED <<up, hold>>

(* The load it reads can be torn the same way: a stream whose charge       *)
(* straddles the two reads is not seen.                                    *)
LooksDrained(t) == streams[t] = 0 /\ pending[t] <= Charging(t)

HandoverStep ==
  /\ maint = "handover" /\ maint' = "repair"
  /\ LET t == handover.id
         held == \E i \in Indices : Id(i) = t
     IN  IF handover.phase = "none" THEN UNCHANGED <<entries, handover, up, hold>>
         ELSE IF OverBudget THEN CallOff
         ELSE IF handover.phase = "dialing" THEN UNCHANGED <<entries, handover, up, hold>>
         ELSE IF ~held THEN handover' = NoHandover /\ UNCHANGED <<entries, up, hold>>
         ELSE IF ~alive[t] THEN handover' = NoHandover /\ Drop({t}) /\ hold' = FALSE
         ELSE \/ /\ LooksDrained(t)
                 /\ handover' = [handover EXCEPT !.phase = "dialing", !.late = FALSE]
                 /\ Drop({t}) /\ hold' = FALSE
              \/ UNCHANGED <<entries, handover, up, hold>>   \* streams, or pinned UDP peers
  /\ UNCHANGED <<alive, streams, pending, dial, op, born, spares>>

Repair ==
  /\ maint = "repair"
  /\ IF Len(entries) < Count /\ ~hold /\ dial = NoDial
     THEN BeginGrow("maintenance") /\ maint' = "dial"
     ELSE maint' = "idle" /\ UNCHANGED <<dial, hold>>
  /\ UNCHANGED <<entries, handover, slotVars, op, born, spares>>

-----------------------------------------------------------------------------
(* The network and the drivers.                                            *)

ConnectionFails(t) ==
  /\ up[t] /\ spares > 0 /\ spares' = spares - 1
  /\ up' = [up EXCEPT ![t] = FALSE]
  /\ UNCHANGED <<entries, handover, alive, streams, pending, dial, hold, maint, op, born>>

DriverExits(t) ==                                            \* AliveGuard::drop
  /\ ~up[t] /\ alive[t] /\ alive' = [alive EXCEPT ![t] = FALSE]
  /\ UNCHANGED <<entries, handover, up, streams, pending, dial, hold, maint, op, born, spares>>

Step(o) ==
  \/ ColdGrow(o) \/ FirstLook(o) \/ SecondLook(o) \/ LastLook(o)
  \/ OpenOk(o) \/ ChargeTunnel(o) \/ OpenClosed(o) \/ Retry(o)
Maintain == Tick \/ ReapDead \/ HandoverStep \/ Repair

PoolNext ==
  \/ \E o \in Openers : StartOpen(o) \/ Step(o) \/ OpenTooMany(o) \/ DropLease(o)
  \/ Maintain \/ DialOk \/ DialFails \/ HoldExpires \/ HandoverLate
  \/ \E t \in Ids : ConnectionFails(t) \/ DriverExits(t)

PoolSpec == PoolInit /\ [][PoolNext]_poolVars

(* Tasks are scheduled, timers expire, and a dial that is tried again and  *)
(* again succeeds in the end; visitors may keep their streams for ever.    *)
PoolTasks ==
  {<<"maintenance">>, <<"hold">>, <<"late">>, <<"dial">>}
    \cup {<<"open", o>> : o \in Openers} \cup {<<"driver", t>> : t \in Ids}
PoolTask(k) ==
  \/ k[1] = "maintenance" /\ Maintain
  \/ k[1] = "hold" /\ HoldExpires
  \/ k[1] = "late" /\ HandoverLate
  \/ k[1] = "dial" /\ (DialOk \/ DialFails)
  \/ k[1] = "open" /\ Step(k[2])
  \/ k[1] = "driver" /\ DriverExits(k[2])
PoolLive ==
  PoolSpec /\ (\A k \in PoolTasks : WF_poolVars(PoolTask(k))) /\ SF_poolVars(DialOk)

-----------------------------------------------------------------------------
(* Type invariant: entries name tunnels, and charges never go below zero.  *)
PoolTypeOK ==
  /\ entries \in Seq([id : Ids, carrier : Carriers, phase : {"serving", "draining"}])
  /\ handover \in [phase : {"none", "draining", "dialing"}, id : Ids \cup {0},
                   target : Carriers, late : BOOLEAN]
  /\ up \in [Ids -> BOOLEAN] /\ alive \in [Ids -> BOOLEAN]
  /\ streams \in [Ids -> Nat] /\ pending \in [Ids -> Nat]
  /\ dial \in [by : Task \cup {"nobody"}, wanted : Carriers]
  /\ hold \in BOOLEAN /\ maint \in {"idle", "reap", "handover", "repair", "dial"}
  /\ \A o \in Openers :
       /\ op[o].pc \in {"idle", "cold", "grow", "look", "look2", "wait", "open",
                        "charge", "lease", "retry"}
       /\ op[o].tun \in Ids \cup {0}
  /\ born \in Ids /\ spares \in 0..Spares

On(t, where) == Cardinality({o \in Openers : op[o].pc \in where /\ op[o].tun = t})

(* "A tunnel's stream count can never leak past the stream's life": a      *)
(* tunnel is charged for each stream it carries and for at least the opens *)
(* on their way to it, across every await, refusal and fall-through.       *)
Charged ==
  \A t \in Ids : /\ streams[t] = On(t, {"lease"})
                 /\ pending[t] >= On(t, {"open", "charge"})

(* A tunnel is out of service exactly while a handover drains it: neither  *)
(* a death, a repair nor the budget running out leaves one excluded from   *)
(* placement for good, and two are never drained at once.                  *)
DrainedByHandover ==
  \A i \in Indices :
    entries[i].phase = "draining" <=> handover.phase = "draining" /\ handover.id = Id(i)

(* The pool keeps its count: once failures stop, the repair tick brings    *)
(* every missing tunnel back, whatever handover, hold-off and concurrent   *)
(* opens were under way.                                                   *)
Repaired == <>[](Len(entries) = Count)

(* Every open is answered with a stream or an error.                       *)
OpenAnswered == \A o \in Openers : []<>(OpenerAt(o, "lease") \/ OpenerAt(o, "idle"))

(* Every phase of a handover is bounded, even when a stream never ends or  *)
(* its reservation never came back (handover_step).                        *)
HandoverEnds == []<>(handover.phase = "none")

(* The safety of the pool: types, counters that cover what is carried, and *)
(* no tunnel out of service except by a handover.                          *)
PoolSafe == PoolTypeOK /\ Charged /\ DrainedByHandover

(* Whatever fails, the pool comes back to its count, every open is answered*)
(* and every handover ends.                                                *)
PoolRecovers == Repaired /\ OpenAnswered /\ HandoverEnds
=============================================================================
