----------------------------- MODULE CarrierRule -----------------------------
(***************************************************************************)
(* Which carrier, TCP or KCP, an endpoint's tunnels ride: the remembered   *)
(* choice (transport/carrier.rs), the rule and the probe that move a       *)
(* pool's tunnels between the carriers (transport/multiplex.rs), and the   *)
(* dials that teach the choice what the path carries (core/client.rs).     *)
(*                                                                         *)
(* The pool's maintenance task, the opens that reserve a tunnel and the    *)
(* endpoint's other channels run on different threads. The pool's two      *)
(* mutexes are variables: `stateBy` and `probeBy` name who holds them      *)
(* between two steps. A std mutex is not reentrant, so a task that locks   *)
(* one it already holds waits for ever ("relock"). Clocks are countdowns;  *)
(* the counters of one window are a record per tunnel. The methods of      *)
(* CarrierChoice are single steps, except reached_kcp, whose check and     *)
(* whose swap are two.                                                     *)
(***************************************************************************)
EXTENDS Integers, FiniteSets, FiniteSetsExt, Functions

CONSTANTS
    Tunnels,      \* the places of the pool's `count` tunnels
    Openers,      \* tasks that open streams
    Confirm,      \* CARRIER_RULE_CONFIRM_TICKS
    Retry,        \* KCP_RETRY_COOLDOWN
    Cool,         \* SWITCH_COOLDOWN
    ProbeMax,     \* CARRIER_RULE_PROBE_MAX
    Backoff,      \* CARRIER_RULE_PROBE_BACKOFF
    Born,         \* the carrier the pool was established on
    Forced,       \* forced_carrier(), or "none"
    RuleOn,       \* MOLEHILL_TUNNEL_CARRIER_RULE
    UdpFaults     \* what may become of the UDP path: "refused", "black"

ASSUME CarrierAssumption ==
    /\ {Confirm, Retry, Cool, ProbeMax, Backoff} \subseteq Nat \ {0}
    /\ Forced \in {"none", "Tcp", "Kcp"} /\ Born \in {"Tcp", "Kcp"}
    /\ UdpFaults \subseteq {"refused", "black"}
    /\ Openers \cap {"", "m"} = {}

VARIABLES
    chosen, retryIn, heldFor,   \* CarrierChoice
    reaching,                   \* a reached_kcp between its check and its swap
    slots,                      \* PoolState.entries
    move,                       \* PoolState.handover
    baseline,                   \* whether there is a last sample
    probe,                      \* ProbeState: active, its budget, its backoff
    streak,                     \* rule_streak
    mpc, win,                   \* where the maintenance task is; its window
    stateBy, probeBy,           \* who holds the pool's mutexes
    udp,                        \* what the path does with UDP
    broken                      \* history: a quiet window came into the streak

choice == <<chosen, retryIn, heldFor>>
pool == <<slots, move>>
locks == <<stateBy, probeBy>>
carrierVars == <<choice, reaching, pool, baseline, probe, streak, mpc, win,
                 locks, udp, broken>>

Carriers == {"Tcp", "Kcp"}
None == "none"
Other(c) == IF c = "Tcp" THEN "Kcp" ELSE "Tcp"
Absent == [carrier |-> None, phase |-> None]
Fresh(c) == [carrier |-> c, phase |-> "serving"]
Moving(t, c, ph) == [tunnel |-> t, target |-> c, phase |-> ph]
NoMove == Moving(None, None, None)
NoProbe == [active |-> None, left |-> 0, backoff |-> 0]
NoWindow == [guilty |-> None, share |-> FALSE, probed |-> "hold"]

Held == {t \in Tunnels : slots[t] # Absent}
Serves == {t \in Held : slots[t].phase = "serving"}
Smaller(n, m) == IF n < m THEN n ELSE m
-----------------------------------------------------------------------------
(* CarrierChoice.                                                          *)

(* Mutant: a choice that fell back never dials KCP again.                  *)
TryKcpNeverAgain == IF Forced # None THEN Forced = "Kcp" ELSE chosen = "Kcp"

TryKcp == IF Forced # None THEN Forced = "Kcp"
          ELSE chosen = "Kcp" \/ retryIn = 0

(* Mutant: a failed dial tells the choice nothing.                         *)
OnKcpFailureQuiet == UNCHANGED choice

OnKcpFailure ==
    IF Forced = "Kcp" THEN UNCHANGED choice
    ELSE chosen' = "Tcp" /\ retryIn' = Retry /\ UNCHANGED heldFor

Prefers(c) == Forced = None /\ chosen # c /\ heldFor = 0

Prefer(c) ==
    IF Prefers(c)
    THEN /\ chosen' = c
         /\ retryIn' = IF c = "Kcp" THEN 0 ELSE Cool
         /\ heldFor' = Cool
    ELSE UNCHANGED choice

(* Mutant: a dial that reached KCP ignores the hold.                       *)
ReachedKcpUnheld ==
    /\ chosen' = "Kcp"
    /\ retryIn' = 0
    /\ UNCHANGED <<heldFor, reaching>>

(* reached_kcp up to its swap: a held switch ends it.                      *)
ReachedKcp ==
    IF heldFor > 0 THEN retryIn' = 0 /\ UNCHANGED <<chosen, heldFor, reaching>>
    ELSE reaching' = TRUE /\ UNCHANGED choice

ReachSwap ==
    /\ reaching
    /\ reaching' = FALSE
    /\ chosen' = "Kcp"
    /\ retryIn' = IF chosen = "Tcp" THEN 0 ELSE retryIn
    /\ UNCHANGED <<heldFor, pool, baseline, probe, streak, mpc, win, locks,
                   udp, broken>>

(* Another channel of the endpoint dials: connect_direct_channel, or       *)
(* establish_tunnels for another pool. Both report every failure.          *)
OtherChannel ==
    /\ TryKcp /\ ~reaching
    /\ IF udp = "up" THEN ReachedKcp ELSE OnKcpFailure /\ UNCHANGED reaching
    /\ UNCHANGED <<pool, baseline, probe, streak, mpc, win, locks, udp,
                   broken>>

(* The lane policy of the transparent proxy moves the endpoint.            *)
LanePolicy(c) ==
    /\ Prefers(c)
    /\ Prefer(c)
    /\ UNCHANGED <<reaching, pool, baseline, probe, streak, mpc, win, locks,
                   udp, broken>>
-----------------------------------------------------------------------------
(* One window of counters per tunnel. A TCP tunnel has no ARQ counters and *)
(* its peer reports nothing handed. The constants stand for datagrams and  *)
(* for units of CARRIER_RULE_MIN_HANDED_BYTES.                             *)

MinHanded == 1
MinDeliveryPct == 60
SuspicionPct == 4
MinProbe == 1

QuietWindow == [out |-> 0, resent |-> 0, delivered |-> 0, handed |-> 0]
Healthy == [out |-> 20, resent |-> 0, delivered |-> 6, handed |-> 6]
Lossy == [out |-> 20, resent |-> 2, delivered |-> 6, handed |-> 6]
Starved == [out |-> 20, resent |-> 4, delivered |-> 2, handed |-> 6]
Windows == {QuietWindow, Healthy, Lossy, Starved}

Counted(t, w) ==
    IF slots[t].carrier = "Kcp" THEN w
    ELSE [w EXCEPT !.out = 0, !.resent = 0, !.handed = 0]

DeliveryPct(w) ==
    IF w.handed = 0 THEN 100
    ELSE (100 * Smaller(w.delivered, w.handed)) \div w.handed

SharePct(w) == (100 * w.resent) \div w.out

(* A tunnel that joined since the last sample has no window here: it is    *)
(* not in w. Which tunnels are that young is left open.                    *)
Judged(w) == {t \in DOMAIN w : w[t].handed >= MinHanded}

CarrierRuleVerdict(w) ==
    LET guilty == {t \in Judged(w) : DeliveryPct(w[t]) < MinDeliveryPct}
    IN  IF guilty = {} THEN None
        ELSE CHOOSE t \in guilty :
                \A u \in guilty : DeliveryPct(w[t]) <= DeliveryPct(w[u])

CarrierRuleSuspicion(w) ==
    \E t \in Judged(w) : w[t].out > 0 /\ SharePct(w[t]) >= SuspicionPct

(* Bytes of the probe's tunnel against the average of the others; here a   *)
(* tunnel that joined since the last sample counts with all it carried.    *)
ProbeTunnelOf(c) == {t \in Serves : slots[t].carrier = c}

ProbeCarriedBytes(w, p) ==
    LET rest == Held \ {p}
    IN  << IF rest = {} THEN 0
           ELSE MapThenSumSet(LAMBDA t : w[t].delivered, rest)
                \div Cardinality(rest),
           w[p].delivered >>

ProbeVerdict(chosenBytes, probeBytes) ==
    CASE 2 * probeBytes > 3 * chosenBytes -> "move"
      [] 2 * chosenBytes > 3 * probeBytes -> "revert"
      [] OTHER -> "hold"

(* What probe_judge makes of a window: nothing unless exactly one tunnel   *)
(* serves on the probed carrier and it carried enough.                     *)
Outcome(w) ==
    IF Cardinality(ProbeTunnelOf(probe.active)) # 1 THEN "hold"
    ELSE LET b == ProbeCarriedBytes(w, CHOOSE t \in ProbeTunnelOf(probe.active) : TRUE)
         IN  IF b[2] < MinProbe THEN "hold" ELSE ProbeVerdict(b[1], b[2])
-----------------------------------------------------------------------------
(* Handovers. Which tunnels are pinned, and which is least loaded, is      *)
(* settled elsewhere (TunnelPool): any choice is possible here.            *)

Eligible(from, pinned) ==
    {t \in Serves : slots[t].carrier = from} \ pinned

MayHandOver(from, target, pinned) ==
    /\ from # target
    /\ move = NoMove
    /\ Cardinality(Serves) > 1
    /\ Eligible(from, pinned) # {}

BeginHandoverOn(from, target, preferred, pinned) ==
    IF MayHandOver(from, target, pinned)
    THEN \E t \in IF preferred \in Eligible(from, pinned) THEN {preferred}
                  ELSE Eligible(from, pinned) :
            /\ slots' = [slots EXCEPT ![t].phase = "draining"]
            /\ move' = Moving(t, target, "draining")
    ELSE UNCHANGED pool
-----------------------------------------------------------------------------
(* The maintenance task: the rule, the reaping, the handover, the repair.  *)

(* carrier_rule_step takes its sample; the first one is only a baseline.   *)
RuleSamples ==
    /\ mpc = "rule" /\ RuleOn /\ Forced = None
    /\ stateBy = ""
    /\ baseline' = TRUE
    /\ mpc' = IF baseline THEN "judge" ELSE "reap"
    /\ UNCHANGED <<choice, reaching, pool, probe, streak, locks, udp>>
    /\ \E raw \in [Held -> Windows] : \E old \in SUBSET Held :
         LET w == [t \in Held |-> Counted(t, raw[t])]
             seen == [guilty  |-> CarrierRuleVerdict(Restrict(w, old)),
                      share   |-> CarrierRuleSuspicion(Restrict(w, old)),
                      probed  |-> Outcome(w)]
         IN  /\ win' = IF baseline THEN seen ELSE NoWindow
             /\ broken' = (broken \/ (baseline /\ streak > 0 /\ ~seen.share
                                       /\ seen.guilty = None))

(* probe_judge. A probe whose budget is spent is found under the probe     *)
(* mutex and the branch locks the mutex again (1438): the task never comes *)
(* back, so nothing after the second lock is an action.                    *)
ProbeSpent == probe.active # None /\ probe.left = 0

JudgeSpent ==
    /\ mpc = "judge" /\ probeBy = ""
    /\ ProbeSpent
    /\ mpc' = "relock"
    /\ probeBy' = "m"
    /\ UNCHANGED <<choice, reaching, pool, baseline, probe, streak, win,
                   stateBy, udp, broken>>

(* Mutant: the verdict leaves the probe mutex locked.                      *)
JudgeKeepingLock ==
    /\ mpc = "judge" /\ probeBy = "" /\ stateBy = ""
    /\ ~ProbeSpent
    /\ mpc' = "decide"
    /\ probeBy' = "m"
    /\ UNCHANGED <<choice, reaching, pool, baseline, probe, streak, win,
                   stateBy, udp, broken>>

Judge ==
    /\ mpc = "judge" /\ probeBy = "" /\ stateBy = ""
    /\ ~ProbeSpent
    /\ mpc' = "decide"
    /\ win' = [win EXCEPT !.probed = "hold"]
    /\ CASE win.probed = "hold" ->
                UNCHANGED <<choice, pool, probe>>
         [] win.probed = "move" ->
                /\ probe' = [probe EXCEPT !.active = None, !.left = 0]
                /\ Prefer(probe.active)
                /\ IF Prefers(probe.active)
                   THEN \E pinned \in SUBSET Held :
                          BeginHandoverOn(Born, probe.active, None, pinned)
                   ELSE UNCHANGED pool
         [] win.probed = "revert" ->
                /\ probe' = [NoProbe EXCEPT !.backoff = Backoff]
                /\ UNCHANGED choice
                /\ \E pinned \in SUBSET Held :
                       BeginHandoverOn(probe.active, Born, None, pinned)
    /\ UNCHANGED <<reaching, baseline, streak, locks, udp, broken>>

(* The rule acts on its window: without a verdict a suspicion may start a  *)
(* probe; a verdict counts, and the one that fills the streak asks for a   *)
(* probe first.                                                            *)
Convicts == win.guilty # None
StreakFull == Convicts /\ streak + 1 >= Confirm
AsksProbe == IF Convicts THEN StreakFull ELSE win.share

Streak == IF Convicts /\ ~StreakFull THEN streak + 1 ELSE 0

(* Mutant: a quiet window keeps the streak.                                *)
DecideNeverResetting ==
    /\ mpc = "decide" /\ ~AsksProbe
    /\ mpc' = "reap"
    /\ streak' = IF Convicts THEN streak + 1 ELSE streak
    /\ win' = NoWindow
    /\ broken' = (broken /\ streak' > 0)
    /\ UNCHANGED <<choice, reaching, pool, baseline, probe, locks, udp>>

(* No probe is asked for.                                                  *)
Decide ==
    /\ mpc = "decide" /\ ~AsksProbe
    /\ mpc' = "reap"
    /\ streak' = Streak
    /\ win' = NoWindow
    /\ broken' = (broken /\ streak' > 0)
    /\ UNCHANGED <<choice, reaching, pool, baseline, probe, locks, udp>>

(* probe_step answers true: one is running. A streak short of a verdict    *)
(* survives this window.                                                   *)
StepRunning ==
    /\ mpc = "decide" /\ AsksProbe /\ probeBy = ""
    /\ probe.active # None
    /\ mpc' = "reap"
    /\ streak' = IF Convicts THEN 0 ELSE streak
    /\ win' = NoWindow
    /\ broken' = (broken /\ streak' > 0)
    /\ UNCHANGED <<choice, reaching, pool, baseline, probe, locks, udp>>

(* probe_step answers false for its backoff.                               *)
StepBacksOff ==
    /\ mpc = "decide" /\ AsksProbe /\ probeBy = ""
    /\ probe.active = None /\ probe.backoff > 0
    /\ mpc' = IF Convicts THEN "convict" ELSE "reap"
    /\ streak' = 0
    /\ win' = IF Convicts THEN win ELSE NoWindow
    /\ broken' = (broken /\ streak' > 0)
    /\ UNCHANGED <<choice, reaching, pool, baseline, probe, locks, udp>>

(* probe_step keeps the probe mutex and goes for the pool's.               *)
StepLocks ==
    /\ mpc = "decide" /\ AsksProbe /\ probeBy = ""
    /\ probe.active = None /\ probe.backoff = 0
    /\ mpc' = "want_state"
    /\ probeBy' = "m"
    /\ UNCHANGED <<choice, reaching, pool, baseline, probe, streak, win,
                   stateBy, udp, broken>>

StepBegins ==
    /\ mpc = "want_state" /\ stateBy = ""
    /\ probeBy' = ""
    /\ \E pinned \in SUBSET Held :
         /\ BeginHandoverOn(Born, Other(Born), None, pinned)
         /\ IF MayHandOver(Born, Other(Born), pinned)
            THEN /\ probe' = [active |-> Other(Born), left |-> ProbeMax,
                              backoff |-> 0]
                 /\ mpc' = "reap"
                 /\ streak' = IF Convicts THEN 0 ELSE streak
                 /\ win' = NoWindow
            ELSE /\ mpc' = IF Convicts THEN "convict" ELSE "reap"
                 /\ streak' = 0
                 /\ win' = IF Convicts THEN win ELSE NoWindow
                 /\ UNCHANGED probe
    /\ broken' = (broken /\ streak' > 0)
    /\ UNCHANGED <<choice, reaching, baseline, stateBy, udp>>

(* The move itself: the endpoint prefers TCP and the convicted tunnel, or  *)
(* the least loaded one, is handed over. A held switch defers it.          *)
Convict ==
    /\ mpc = "convict" /\ stateBy = ""
    /\ mpc' = "reap"
    /\ Prefer("Tcp")
    /\ IF Prefers("Tcp")
       THEN \E pinned \in SUBSET Held :
              BeginHandoverOn("Kcp", "Tcp", win.guilty, pinned)
       ELSE UNCHANGED pool
    /\ win' = NoWindow
    /\ UNCHANGED <<reaching, baseline, probe, streak, locks, udp, broken>>

(* The rest of the tick: reap_dead, handover_step and the start of repair. *)
(* Which tunnels died (nothing above tells a dead entry from a live one),  *)
(* whether the draining one has drained, and whether a phase's time is up, *)
(* are the environment's.                                                  *)
Reaped(dead) == [t \in Tunnels |-> IF t \in dead THEN Absent ELSE slots[t]]

(* Mutant: a drained tunnel is never closed.                               *)
HandoverResultsForgetting(es) == {<<es, move>>, <<es, NoMove>>}

HandoverResults(es) ==
    LET with(e) == [es EXCEPT ![move.tunnel] = e]
    IN  CASE move = NoMove -> {<<es, NoMove>>}
          [] move.phase = "dialing" -> {<<es, move>>, <<es, NoMove>>}
          [] move.phase = "draining" ->
               IF es[move.tunnel] = Absent THEN {<<es, NoMove>>}
               ELSE { <<es, move>>,
                      <<with(Fresh(es[move.tunnel].carrier)), NoMove>>,
                      <<with(Absent), NoMove>>,
                      <<with(Absent), [move EXCEPT !.phase = "dialing"]>> }

(* The carrier a repair asks for: the handover's, else the choice's.       *)
WantedCarrier(mv) == IF mv.phase = "dialing" THEN mv.target ELSE chosen

AllHeld == Held = Tunnels

RestOfTick ==
    /\ mpc \in {"rule", "reap"} /\ stateBy = ""
    /\ \E dead \in SUBSET Held : \E r \in HandoverResults(Reaped(dead)) :
         /\ slots' = r[1]
         /\ move' = r[2]
         /\ mpc' = IF \A t \in Tunnels : r[1][t] # Absent THEN "rule"
                   ELSE WantedCarrier(r[2])
    /\ UNCHANGED <<choice, reaching, baseline, probe, streak, win, locks,
                   udp, broken>>

(* The tunnel came up on the carrier it was dialed on (mpc). TCP dials do: *)
(* a server that refuses them has lost the session too.                    *)
RepairOk ==
    /\ mpc \in Carriers /\ stateBy = ""
    /\ mpc = "Kcp" => udp = "up"
    /\ \E t \in Tunnels \ Held : slots' = [slots EXCEPT ![t] = Fresh(mpc)]
    /\ move' = IF /\ move.phase = "dialing"
                  /\ \E t \in Tunnels : slots'[t].carrier = move.target
               THEN NoMove ELSE move
    /\ mpc' = "rule"
    /\ UNCHANGED <<choice, reaching, baseline, probe, streak, win, locks,
                   udp, broken>>

(* A dial that is answered with an error tells the choice, one that times  *)
(* out on a path that swallows datagrams does not: the `?` of the timeout  *)
(* (2001) leaves before on_kcp_failure.                                    *)
RepairRefused ==
    /\ mpc = "Kcp" /\ udp = "refused"
    /\ OnKcpFailure
    /\ mpc' = "rule"
    /\ UNCHANGED <<reaching, pool, baseline, probe, streak, win, locks, udp,
                   broken>>

RepairTimesOut ==
    /\ mpc = "Kcp" /\ udp = "black"
    /\ mpc' = "rule"
    /\ UNCHANGED <<choice, reaching, pool, baseline, probe, streak, win,
                   locks, udp, broken>>
-----------------------------------------------------------------------------
(* An open: reserve holds the pool's mutex and goes for the probe's.       *)

ReserveLocks(o) ==
    /\ stateBy = ""
    /\ stateBy' = o
    /\ UNCHANGED <<choice, reaching, pool, baseline, probe, streak, mpc, win,
                   probeBy, udp, broken>>

ReserveReads(o) ==
    /\ stateBy = o /\ probeBy = ""
    /\ stateBy' = ""
    /\ UNCHANGED <<choice, reaching, pool, baseline, probe, streak, mpc, win,
                   probeBy, udp, broken>>

(* The environment.                                                        *)
UdpChanges(u) ==
    /\ udp # u
    /\ udp' = u
    /\ UNCHANGED <<choice, reaching, pool, baseline, probe, streak, mpc, win,
                   locks, broken>>

Less(n) == IF n = 0 THEN 0 ELSE n - 1

TimePasses ==
    /\ retryIn + heldFor + probe.left + probe.backoff > 0
    /\ retryIn' = Less(retryIn)
    /\ heldFor' = Less(heldFor)
    /\ probe' = [probe EXCEPT !.left = Less(@), !.backoff = Less(@)]
    /\ UNCHANGED <<chosen, reaching, pool, baseline, streak, mpc, win, locks,
                   udp, broken>>
-----------------------------------------------------------------------------
(* establish_tunnels: the pool is born on KCP, or on TCP after a failure.  *)
CarrierInit ==
    /\ chosen = Born
    /\ retryIn = IF Born = "Tcp" /\ Forced = None THEN Retry ELSE 0
    /\ slots = [t \in Tunnels |-> Fresh(Born)]
    /\ heldFor = 0 /\ reaching = FALSE
    /\ move = NoMove
    /\ baseline = FALSE
    /\ probe = NoProbe /\ streak = 0
    /\ mpc = "rule" /\ win = NoWindow
    /\ stateBy = "" /\ probeBy = ""
    /\ udp = "up"
    /\ broken = FALSE

Maintenance ==
    \/ RuleSamples \/ JudgeSpent \/ Judge \/ Decide
    \/ StepRunning \/ StepBacksOff \/ StepLocks \/ StepBegins \/ Convict
    \/ RestOfTick \/ RepairOk \/ RepairRefused \/ RepairTimesOut

CarrierNext ==
    \/ Maintenance
    \/ ReachSwap \/ OtherChannel \/ TimePasses
    \/ \E c \in Carriers : LanePolicy(c)
    \/ \E o \in Openers : ReserveLocks(o) \/ ReserveReads(o)
    \/ \E u \in UdpFaults \cup {"up"} : UdpChanges(u)

(* The maintenance task is a tokio task on a timer: its next step is       *)
(* taken; a lock is granted to who waits; the clock runs.                  *)
CarrierTasks == {<<"clock">>, <<"reach">>} \cup {<<"reserve", o>> : o \in Openers}
CarrierTask(k) ==
    \/ k[1] = "clock" /\ TimePasses
    \/ k[1] = "reach" /\ ReachSwap
    \/ k[1] = "reserve" /\ ReserveReads(k[2])

CarrierSpec ==
    /\ CarrierInit /\ [][CarrierNext]_carrierVars
    /\ \A k \in CarrierTasks : WF_carrierVars(CarrierTask(k))
    /\ SF_carrierVars(Maintenance) /\ SF_carrierVars(RuleSamples)
-----------------------------------------------------------------------------
(* Type invariant: the choice's clocks stay within their periods, and the  *)
(* locks name tasks.                                                       *)
CarrierTypeOK ==
    /\ chosen \in Carriers
    /\ retryIn \in 0..(Cool + Retry) /\ heldFor \in 0..Cool
    /\ reaching \in BOOLEAN /\ baseline \in BOOLEAN
    /\ \A t \in Tunnels : slots[t] = Absent \/
         slots[t] \in [carrier : Carriers, phase : {"serving", "draining"}]
    /\ \A t \in Tunnels : slots[t].phase = "draining" => move.tunnel = t
    /\ streak \in 0..Confirm
    /\ probe.left <= ProbeMax /\ probe.backoff <= Backoff
    /\ stateBy \in Openers \cup {""} /\ probeBy \in {"", "m"}

SelfLocked == mpc = "relock"
CrossLocked == mpc = "want_state" /\ stateBy # ""
Wedged == SelfLocked \/ CrossLocked

(* A deliberate switch to TCP stands for its whole hold, whatever dials    *)
(* find: only a reached_kcp that read the hold before the switch undoes it *)
(* (carrier.rs 262-288).                                                   *)
HeldSwitchStays ==
    [][heldFor > 0 /\ chosen = "Tcp" /\ chosen' = "Kcp" => reaching]_carrierVars

(* The rule moves the pool only on a streak of convicting windows that no  *)
(* quiet window, one without verdict and without suspicion, interrupts     *)
(* (multiplex.rs 1189-1254).                                               *)
MoveEarned ==
    [][mpc # "convict" /\ mpc' = "convict" => ~broken]_carrierVars

(* However often KCP fails or is left for TCP, a dial tries it again       *)
(* (try_kcp, fell_back, prefer).                                           *)
KcpTriedAgain == []<>TryKcp

(* The pool's mutexes are only ever kept for good by one of two cycles: a  *)
(* probe that spent its budget, or a probe's start crossing an open        *)
(* (multiplex.rs 1377-1460, 2051-2089).                                    *)
OnlyKnownWedges ==
    /\ []<>(mpc = "rule" \/ Wedged)
    /\ []<>(stateBy = "" \/ Wedged)

(* A pool that is short on a path that refuses UDP for good does not go on *)
(* asking for KCP: the failed repair tells the choice (client.rs 2004).    *)
RefusedUdpFallsBack ==
    <>[](udp = "refused") => []<>(AllHeld \/ chosen = "Tcp" \/ Wedged)

(* A probe ends: it separates the carriers or its budget gives it back     *)
(* (multiplex.rs 1415-1460).                                               *)
ProbeEnds == []<>(probe.active = None \/ CrossLocked)

(* The pool changes carrier for cause and keeps a deliberate change for its*)
(* hold.                                                                   *)
SwitchesEarned == []CarrierTypeOK /\ HeldSwitchStays /\ MoveEarned

(* KCP is left where the path refuses UDP, and never given up for good.    *)
ChoiceFollowsPath == KcpTriedAgain /\ RefusedUdpFallsBack
=============================================================================
