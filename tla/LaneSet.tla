------------------------------- MODULE LaneSet -------------------------------
(***************************************************************************)
(* The lanes of one transparent claim: the member set each end's TUN hub   *)
(* keeps for it (transparent/hub.rs), the lanes' own tasks, the server's   *)
(* supervisor that asks for a replacement of every lane that ended         *)
(* (core/server.rs), and the two-sided drain by which the client moves a   *)
(* lane to another carrier (core/client.rs, LanePool).                     *)
(*                                                                         *)
(* "C" is the client's hub, "S" the server's.  A packet is its flow; what  *)
(* is kept of its age is whether the flow was seen within DRAIN_QUIET.     *)
(* The flow hash breaks ties: any of the least loaded slots.  A flow the   *)
(* table has no room for (MAX_TRACKED_FLOWS) rides a live lane and leaves  *)
(* no trace in any of this state.                                          *)
(***************************************************************************)
EXTENDS Integers, FiniteSets, Sequences

CONSTANTS
    Flows,       \* five-tuples
    Share,       \* lanes the configuration gives the claim, and its target
    MaxLanes,    \* bound: lanes dialed
    MaxFaults,   \* bound: connections that break
    MaxAsks      \* bound: drains asked for

ASSUME LaneConstants ==
    /\ IsFiniteSet(Flows) /\ {Share, MaxLanes} \subseteq Nat \ {0}
    /\ Share <= MaxLanes
    /\ {MaxFaults, MaxAsks} \subseteq Nat

VARIABLES
    tab,      \* end -> its table's entry for the claim: [on, wire, wide, slot]
    place,    \* end -> flow -> the slot it was placed in, 0 for none
    talk,     \* end -> flows seen within DRAIN_QUIET
    lane,     \* end -> lane -> "none", "dial", "set", "run", "ended"
    conn,     \* lane -> its connection: "none", "up", "down"
    woken,    \* marked lanes of the client that have their mark to look at
    asked,    \* LanePool.draining: lanes the client asked the peer to drain
    found,    \* drain_step between its two holds of the table: lane and slot
    answer,   \* LaneDrainState: lane -> the peer's last answer, "none"
    toC,      \* commands of the server on the control session
    toS,      \* commands of the client
    announced,\* the reporter's ready_sent
    faults, asks

hubs == <<tab, place, talk>>
tasks == <<lane, conn, woken>>
drains == <<asked, found, answer, announced, asks>>
laneVars == <<hubs, tasks, drains, toC, toS, faults>>

Ends == {"C", "S"}
Lanes == 1..MaxLanes
Slots == 1..MaxLanes     \* a member set grows; it never has more slots than lanes
EmptySlot == [lane |-> 0, drain |-> FALSE, peer |-> FALSE]
(* An entry starts with one slot and gets wider; slots past its width do   *)
(* not exist yet.                                                          *)
NoClaim == [on |-> FALSE, wire |-> FALSE, wide |-> 1, slot |-> [s \in Slots |-> EmptySlot]]
NoneFound == [lane |-> 0, slot |-> 0]
Made == {l \in Lanes : lane["C"][l] # "none"}

Create == [cmd |-> "create", lane |-> 0]
(* Mutant: "unknown" is encoded as a request for a lane.                   *)
AckUncoded(l, state) == [cmd |-> IF state = "unknown" THEN "create" ELSE state, lane |-> l]
Ack(l, state) == [cmd |-> state, lane |-> l]

(* The claim is up: the lanes of its share run at both ends. *)
Full == [on |-> TRUE, wire |-> TRUE, wide |-> Share,
         slot |-> [s \in Slots |-> [EmptySlot EXCEPT !.lane = IF s <= Share THEN s ELSE 0]]]

LaneInit ==
    /\ tab = [e \in Ends |-> Full]
    /\ place = [e \in Ends |-> [f \in Flows |-> 0]]
    /\ talk = [e \in Ends |-> {}]
    /\ lane = [e \in Ends |-> [l \in Lanes |-> IF l <= Share THEN "run" ELSE "none"]]
    /\ conn = [l \in Lanes |-> IF l <= Share THEN "up" ELSE "none"]
    /\ woken = {} /\ asked = {} /\ announced = {} /\ found = NoneFound
    /\ answer = [l \in Lanes |-> "none"]
    /\ toC = <<>> /\ toS = <<>>
    /\ faults = 0 /\ asks = 0

-----------------------------------------------------------------------------
(* The member set. *)

SlotOf(e, l) == CHOOSE s \in Slots : tab[e].slot[s].lane = l
Holds(e, l) == \E s \in Slots : tab[e].slot[s].lane = l
Live(e) == {s \in Slots : tab[e].slot[s].lane # 0}

(* Slots a new flow may be placed in. *)
LiveSlots(e) == {s \in Live(e) : ~tab[e].slot[s].drain /\ ~tab[e].slot[s].peer}

FlowsIn(e, s) == Cardinality({f \in Flows : place[e][f] = s})
Least(e) == {s \in LiveSlots(e) : \A t \in LiveSlots(e) : FlowsIn(e, s) <= FlowsIn(e, t)}
DrainReady(e, s) == \A f \in talk[e] : place[e][f] # s

(* The lowest empty slot. *)
PlaceSlotFirst(t) == 1

PlaceSlot(t) == CHOOSE s \in Slots :
    /\ t.slot[s].lane = 0
    /\ \A r \in 1..(s - 1) : t.slot[r].lane # 0

(* Routes::join: the claim's entry, or a new one, takes the lane.  A mark  *)
(* its slot got while it was empty is now the lane's.                      *)
Joined(t, l) ==
    LET claim == IF t.on THEN t ELSE [NoClaim EXCEPT !.on = TRUE]
        s == PlaceSlot(claim) IN
    [claim EXCEPT !.slot[s].lane = l, !.wide = IF s > @ THEN s ELSE @]

(* Routes::vacate: the slot is emptied, its flows stay; the claim whose    *)
(* last lane went leaves the table, its flows with it.                     *)
VacatedTab(t, l) ==
    LET left == [s \in Slots |-> IF t.slot[s].lane = l THEN EmptySlot ELSE t.slot[s]] IN
    IF \E s \in Slots : left[s].lane # 0 THEN [t EXCEPT !.slot = left] ELSE NoClaim

Vacate(e, l) ==
    LET t == VacatedTab(tab[e], l) IN
    /\ tab' = [tab EXCEPT ![e] = t]
    /\ place' = IF t.on THEN place ELSE [place EXCEPT ![e] = [f \in Flows |-> 0]]
    /\ talk' = IF t.on THEN talk ELSE [talk EXCEPT ![e] = {}]

-----------------------------------------------------------------------------
(* Packets.  One read from an end's device goes to the slot its flow was   *)
(* placed in, whatever became of it; a new flow gets one of the least      *)
(* loaded live slots; with none the packet is dropped.  A packet that came *)
(* by a lane only refreshes a flow the table knows.                        *)
Packet(e, f) ==
    /\ tab[e].on /\ f \notin talk[e]
    /\ IF place[e][f] # 0
       THEN UNCHANGED place
       ELSE \E s \in Least(e) : place' = [place EXCEPT ![e][f] = s]
    /\ talk' = [talk EXCEPT ![e] = @ \cup {f}]
    /\ UNCHANGED <<tab, tasks, drains, toC, toS, faults>>

FallsQuiet(e, f) ==
    /\ f \in talk[e]
    /\ talk' = [talk EXCEPT ![e] = @ \ {f}]
    /\ UNCHANGED <<tab, place, tasks, drains, toC, toS, faults>>

(* sweep_if_due forgets a flow silent for FLOW_IDLE_EVICTION. *)
Evict(e, f) ==
    /\ place[e][f] # 0 /\ f \notin talk[e]
    /\ place' = [place EXCEPT ![e][f] = 0]
    /\ UNCHANGED <<tab, talk, tasks, drains, toC, toS, faults>>

-----------------------------------------------------------------------------
(* Lanes. *)

Break(l) ==
    /\ conn[l] = "up" /\ faults < MaxFaults
    /\ conn' = [conn EXCEPT ![l] = "down"]
    /\ faults' = faults + 1
    /\ UNCHANGED <<hubs, lane, woken, drains, toC, toS>>

(* The server's supervisor takes a channel: it reads the lane's name, sends *)
(* StartForwardTransparent and the lane joins.                              *)
ServerJoins(l) ==
    /\ lane["S"][l] = "dial" /\ conn[l] = "up"
    /\ lane' = [lane EXCEPT !["S"][l] = "run"]
    /\ tab' = [tab EXCEPT !["S"] = Joined(tab["S"], l)]
    /\ UNCHANGED <<place, talk, conn, woken, drains, toC, toS, faults>>

(* Mutant: an end is reported by the lane and by its supervisor.           *)
RequestsTwice == <<Create, Create>>

(* A member's end, however it ended, asks for a replacement. *)
Requests == <<Create>>

(* A channel that cannot name its lane, or that the lane valve refuses, is  *)
(* dropped and nothing is asked for; one that broke later is a member that  *)
(* died before it started.                                                  *)
ServerDrops(l) ==
    /\ lane["S"][l] = "dial"
    /\ lane' = [lane EXCEPT !["S"][l] = "ended"]
    /\ conn' = [conn EXCEPT ![l] = "down"]
    /\ \/ UNCHANGED toC
       \/ conn[l] = "down" /\ toC' = toC \o Requests
    /\ UNCHANGED <<hubs, woken, drains, toS, faults>>

ServerEnds(l) ==
    /\ lane["S"][l] = "run"
    /\ \/ conn[l] = "down" /\ UNCHANGED faults
       \/ conn[l] = "up" /\ faults < MaxFaults /\ faults' = faults + 1   \* a packet could not be injected
    /\ conn' = [conn EXCEPT ![l] = "down"]
    /\ lane' = [lane EXCEPT !["S"][l] = "ended"]
    /\ Vacate("S", l)
    /\ toC' = toC \o Requests
    /\ UNCHANGED <<woken, drains, toS>>

(* The client's task reads the start command and fixes the claim's format, *)
(* in one hold of the table's lock,                                        *)
ClientSetsWire(l) ==
    /\ lane["C"][l] = "dial" /\ lane["S"][l] = "run" /\ conn[l] = "up"
    /\ lane' = [lane EXCEPT !["C"][l] = "set"]
    /\ tab' = [tab EXCEPT !["C"].on = TRUE, !["C"].wire = TRUE]
    /\ UNCHANGED <<place, talk, conn, woken, drains, toC, toS, faults>>

(* and joins in the next. *)
ClientJoins(l) ==
    /\ lane["C"][l] = "set"
    /\ lane' = [lane EXCEPT !["C"][l] = "run"]
    /\ tab' = [tab EXCEPT !["C"] = Joined(tab["C"], l)]
    /\ woken' = IF tab["C"].on /\ tab["C"].slot[PlaceSlot(tab["C"])].drain THEN woken \cup {l} ELSE woken
    /\ UNCHANGED <<place, talk, conn, drains, toC, toS, faults>>

ClientFails(l) ==
    /\ conn[l] = "down"
    /\ \/ lane["C"][l] = "dial" /\ UNCHANGED hubs
       \/ lane["C"][l] = "run" /\ Vacate("C", l)
    /\ lane' = [lane EXCEPT !["C"][l] = "ended"]
    /\ woken' = woken \ {l}
    /\ UNCHANGED <<conn, drains, toC, toS, faults>>

(* retired_owned: the wait for an end on request looks at the lane as it   *)
(* starts and each time `retire` is notified, and at no other time.        *)
ClientRetires(l) ==
    /\ l \in woken /\ lane["C"][l] = "run"
    /\ woken' = woken \ {l}
    /\ LET s == SlotOf("C", l) IN
        IF tab["C"].slot[s].drain /\ DrainReady("C", s)
        THEN /\ lane' = [lane EXCEPT !["C"][l] = "ended"]
             /\ conn' = [conn EXCEPT ![l] = "down"]
             /\ Vacate("C", l)
        ELSE UNCHANGED <<lane, conn, hubs>>
    /\ UNCHANGED <<drains, toC, toS, faults>>

-----------------------------------------------------------------------------
(* The control session, client's side. *)

(* wants_another_lane, as the hub's slots show it at this moment. *)
Wants == Cardinality(Live("C")) < Share

ClientReads ==
    /\ toC # <<>>
    /\ toC' = Tail(toC)
    /\ LET m == Head(toC) IN
        IF m = Create
        THEN /\ IF Wants /\ Made # Lanes
                THEN LET l == Cardinality(Made) + 1 IN
                     /\ lane' = [e \in Ends |-> [lane[e] EXCEPT ![l] = "dial"]]
                     /\ conn' = [conn EXCEPT ![l] = "up"]
                ELSE UNCHANGED <<lane, conn>>
             /\ UNCHANGED answer
        ELSE answer' = [answer EXCEPT ![m.lane] = m.cmd] /\ UNCHANGED <<lane, conn>>
    /\ UNCHANGED <<hubs, woken, asked, found, announced, asks, toS, faults>>

(* The tick takes its steps one after the other.                           *)
(* carrier_step: the carrier the claim rides kept refusing its traffic.    *)
AskDrain(l) ==
    /\ found = NoneFound /\ lane["C"][l] = "run" /\ l \notin asked /\ asks < MaxAsks
    /\ asked' = asked \cup {l}
    /\ asks' = asks + 1
    /\ toS' = Append(toS, [cmd |-> "drain", lane |-> l])
    /\ UNCHANGED <<hubs, tasks, found, answer, announced, toC, faults>>

(* Mutant: a drain has no budget.                                          *)
MayCallOffNever(l) == FALSE

(* drain_step.  Without an answer for DRAIN_BUDGET the drain is called off; *)
MayCallOff(l) == answer[l] = "none"


CallOff(l) ==
    /\ found = NoneFound /\ l \in asked /\ MayCallOff(l)
    /\ asked' = asked \ {l}
    /\ toS' = Append(toS, [cmd |-> "cancel", lane |-> l])
    /\ UNCHANGED <<hubs, tasks, found, answer, announced, asks, toC, faults>>

(* an answer is taken, and where it is ready and the lane is held here its  *)
(* slot is found,                                                           *)
TakeAnswer(l) ==
    /\ found = NoneFound /\ l \in asked /\ answer[l] # "none"
    /\ answer' = [answer EXCEPT ![l] = "none"]
    /\ IF answer[l] = "ready" /\ Holds("C", l)
       THEN found' = [lane |-> l, slot |-> SlotOf("C", l)] /\ UNCHANGED asked
       ELSE /\ asked' = IF answer[l] = "pending" THEN asked ELSE asked \ {l}
            /\ UNCHANGED found
    /\ UNCHANGED <<hubs, tasks, announced, asks, toC, toS, faults>>

(* and, in another hold of the lock, retired, whoever has it by now: the    *)
(* mark goes on the slot, with a lane or without, and the claim's lane      *)
(* tasks are woken; those whose lane is not marked wait on at once.         *)
RetireLane ==
    /\ found # NoneFound
    /\ found' = NoneFound /\ asked' = asked \ {found.lane}
    /\ IF tab["C"].on
       THEN /\ tab' = IF found.slot <= tab["C"].wide
                      THEN [tab EXCEPT !["C"].slot[found.slot].drain = TRUE] ELSE tab
            /\ woken' = woken \cup {tab'["C"].slot[s].lane : s \in {s \in Live("C") : tab'["C"].slot[s].drain}}
       ELSE UNCHANGED <<tab, woken>>
    /\ UNCHANGED <<place, talk, lane, conn, answer, announced, asks, toC, toS, faults>>

-----------------------------------------------------------------------------
(* The control session, server's side: lane_drain, and the lane reporter   *)
(* that says once when a lane asked about has fallen quiet.                *)

Marks(l, on) == tab' = [tab EXCEPT !["S"].slot[SlotOf("S", l)].peer = on]

ServerReads ==
    /\ toS # <<>>
    /\ toS' = Tail(toS)
    /\ LET m == Head(toS)  l == m.lane  drain == m.cmd = "drain" IN
        IF ~Holds("S", l)
        THEN toC' = Append(toC, Ack(l, "unknown")) /\ UNCHANGED tab
        ELSE /\ Marks(l, drain)
             /\ toC' = Append(toC, Ack(l, IF ~drain THEN "cancelled"
                                         ELSE IF DrainReady("S", SlotOf("S", l)) THEN "ready"
                                         ELSE "pending"))
    /\ UNCHANGED <<place, talk, tasks, drains, faults>>

Report(l) ==
    /\ Holds("S", l)
    /\ LET s == SlotOf("S", l)  peer == tab["S"].slot[s].peer IN
        \/ /\ peer /\ DrainReady("S", s) /\ l \notin announced
           /\ announced' = announced \cup {l}
           /\ toC' = Append(toC, Ack(l, "ready"))
        \/ /\ ~peer /\ l \in announced
           /\ announced' = announced \ {l}
           /\ UNCHANGED toC
    /\ UNCHANGED <<hubs, tasks, asked, found, answer, asks, toS, faults>>

-----------------------------------------------------------------------------
LaneNext ==
    \/ \E e \in Ends, f \in Flows : Packet(e, f) \/ FallsQuiet(e, f) \/ Evict(e, f)
    \/ \E l \in Lanes :
        \/ Break(l) \/ ServerJoins(l) \/ ServerDrops(l) \/ ServerEnds(l)
        \/ ClientSetsWire(l) \/ ClientJoins(l) \/ ClientFails(l) \/ ClientRetires(l)
        \/ AskDrain(l) \/ CallOff(l) \/ TakeAnswer(l) \/ Report(l)
    \/ ClientReads \/ ServerReads \/ RetireLane

LaneSpec == LaneInit /\ [][LaneNext]_laneVars

(* Tasks take their steps and the session carries its commands; flows and  *)
(* failures do as they like.                                               *)
LaneTask ==
    \/ ClientReads \/ ServerReads \/ RetireLane
    \/ \E l \in Lanes :
        \/ ServerJoins(l) \/ ServerDrops(l) \/ (conn[l] = "down" /\ ServerEnds(l))
        \/ ClientSetsWire(l) \/ ClientJoins(l) \/ ClientFails(l) \/ ClientRetires(l)
        \/ CallOff(l) \/ TakeAnswer(l)

LaneLive == LaneSpec /\ WF_laneVars(LaneTask)

-----------------------------------------------------------------------------
(* The state's shape. *)
LaneTypeOK ==
    /\ tab \in [Ends -> [on : BOOLEAN, wire : BOOLEAN, wide : Slots,
                         slot : [Slots -> [lane : 0..MaxLanes, drain : BOOLEAN, peer : BOOLEAN]]]]
    /\ place \in [Ends -> [Flows -> 0..MaxLanes]]
    /\ talk \in [Ends -> SUBSET Flows]
    /\ lane \in [Ends -> [Lanes -> {"none", "dial", "set", "run", "ended"}]]
    /\ conn \in [Lanes -> {"none", "up", "down"}]
    /\ woken \subseteq Lanes /\ asked \subseteq Lanes /\ announced \subseteq Lanes
    /\ found \in [lane : Lanes, slot : Slots] \cup {NoneFound}
    /\ answer \in [Lanes -> {"none", "ready", "pending", "unknown", "cancelled"}]

(* Every lane that runs holds one slot of its end's set, no two the same,  *)
(* and no slot is held by a lane that is gone, through joins, ends and the *)
(* claim's own removal and return (hub.rs, join, place, vacate).           *)
SlotsOwned ==
    \A e \in Ends :
        /\ \A s \in Live(e) : lane[e][tab[e].slot[s].lane] = "run"
        /\ \A l \in Lanes : lane[e][l] = "run" =>
             tab[e].on /\ Cardinality({s \in Slots : tab[e].slot[s].lane = l}) = 1

Unended == {l \in Lanes : lane["S"][l] \in {"dial", "run"}}

(* Replacements never outnumber the lanes they replace (server.rs,         *)
(* MemberSupervisor): the lanes the server may yet run and the requests on *)
(* their way stay within the claim's share.                                *)
WithinShare ==
    Cardinality(Unended) + Cardinality({i \in DOMAIN toC : toC[i] = Create}) <= Share

(* The lane's mark at the end that was asked, and at the end that retires. *)
PeerMark(l) == Holds("S", l) /\ tab["S"].slot[SlotOf("S", l)].peer
OwnMark(l) == Holds("C", l) /\ tab["C"].slot[SlotOf("C", l)].drain

(* The lane's task looked at the mark while flows of this end talked, and  *)
(* waits for a notification that comes with the next retirement only.      *)
Overlooked(l) == OwnMark(l) /\ l \notin woken


(* The safety of a claim's lanes: types, one slot per lane, and            *)
(* replacements within the share.                                          *)
LaneSafe == LaneTypeOK /\ SlotsOwned /\ WithinShare
=============================================================================
