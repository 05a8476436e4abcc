----------------------------- MODULE LaneLending -----------------------------
(***************************************************************************)
(* The lane allocator of a client's transparent claims: once a second it   *)
(* looks at what every claim's lanes carry and moves at most one lane      *)
(* (transparent/lanes.rs, plan; core/client.rs, LanePool), beside the      *)
(* server's requests for a replacement of every lane that ended.           *)
(*                                                                         *)
(* A claim is its place in the order of endpoints.  The allocator reads a  *)
(* snapshot and acts on it later; packets, failures and requests fall in   *)
(* between.  A flow is one of its slot's count (MemberSlot::flows), and    *)
(* whether those of a slot were heard lately is a choice.                  *)
(***************************************************************************)
EXTENDS Integers, FiniteSets, FiniteSetsExt

CONSTANTS
    Claims,     \* endpoints, as integers
    ShareOf,    \* claim -> the lanes the configuration gives it
    FlowsOf,    \* bound: claim -> the flows it carries at a time
    LendWidth,  \* bound: lanes a claim holds, dials and is about to dial
    LendTargets,\* bound: what a claim's target counts to
    LendFaults  \* bound: lanes and dials that fail, lanes handed over, flows that end

ASSUME LendConstants ==
    /\ Claims \subseteq Nat /\ IsFiniteSet(Claims)
    /\ ShareOf \in [Claims -> 1..LendWidth]
    /\ FlowsOf \in [Claims -> 0..(LendWidth - 1)]   \* a claim that is short can still widen
    /\ {LendWidth, LendTargets, LendFaults} \subseteq Nat

VARIABLES
    held,     \* claim -> slot -> "absent" (not in the set yet), "empty", "run"
    drain,    \* slots that are marked, lane or no lane
    rung,     \* marked slots whose lane was woken to look at its mark
    handover, \* slots whose lane the peer was asked to drain (LanePool.draining)
    flows,    \* claim -> slot -> flows placed in it
    target,   \* ClaimEntry.target
    dialing,  \* claim -> lanes dialed and not joined
    wanted,   \* claim -> requests of the server on their way
    plan,     \* what the tick decided and has not done
    trouble   \* failures, handovers and flows that ended so far

sets == <<held, drain, rung, handover>>
lendVars == <<sets, flows, target, dialing, wanted, plan, trouble>>

LendSlots == 1..LendWidth
NoPlan == [do |-> "nothing", from |-> 0, slot |-> 0, to |-> 0]
Plan(do, from, s, to) == [do |-> do, from |-> from, slot |-> s, to |-> to]

LendInit ==
    /\ held = [c \in Claims |-> [s \in LendSlots |-> IF s <= ShareOf[c] THEN "run" ELSE "absent"]]
    /\ drain = {} /\ rung = {} /\ handover = {}
    /\ flows = [c \in Claims |-> [s \in LendSlots |-> 0]]
    /\ target = ShareOf
    /\ dialing = [c \in Claims |-> 0]
    /\ wanted = [c \in Claims |-> 0]
    /\ plan = NoPlan
    /\ trouble = 0

-----------------------------------------------------------------------------
(* What the policy sees. *)

LiveLanes(c) == {s \in LendSlots : held[c][s] = "run"}
TalkingFlows(c) == Cardinality({x \in LiveLanes(c) \X (1..FlowsOf[c]) : x[2] <= flows[c][x[1]]})

(* One lane for every talking flow, and never none. *)
Shortfall(c) == Max({0, Max({1, TalkingFlows(c)}) - Cardinality(LiveLanes(c))})

Budget == SumFunction(ShareOf)
Used == Cardinality({x \in Claims \X LendSlots : held[x[1]][x[2]] = "run"})

(* The claim furthest from a lane per flow; the endpoint breaks a tie. *)
Shorts == {c \in Claims : LiveLanes(c) # {} /\ Shortfall(c) > 0}
Furthest(shorts) == CHOOSE c \in shorts : \A d \in shorts :
    Shortfall(d) < Shortfall(c) \/ (Shortfall(d) = Shortfall(c) /\ d <= c)

(* Mutant: a lane that carries flows counts as idle.                       *)
LendableAny(c) == LiveLanes(c)

(* A claim gives up the quietest of its lanes that is not being handed     *)
(* over, if that one carries nothing, and never the only one.              *)
Lendable(c) == {s \in LiveLanes(c) : flows[c][s] = 0 /\ <<c, s>> \notin handover}
Donors(short) == {c \in Claims \ {short} : Lendable(c) # {} /\ Cardinality(LiveLanes(c)) > 1}

(* Mutant: nothing is ever lent, only added.                               *)
TickPlanAdding == IF Shorts # {} /\ Used < Budget THEN Plan("add", 0, 0, Furthest(Shorts)) ELSE NoPlan

(* lanes::plan *)
TickPlan ==
    LET shorts == Shorts  to == Furthest(shorts)  donors == Donors(to)  from == Min(donors) IN
    IF shorts = {} THEN NoPlan
    ELSE IF Used < Budget THEN Plan("add", 0, 0, to)
    ELSE IF donors = {} THEN NoPlan
    ELSE Plan("lend", from, Min(Lendable(from)), to)

-----------------------------------------------------------------------------
(* Traffic, as the claim's member set places it. *)

Open(c) == {s \in LiveLanes(c) : <<c, s>> \notin drain}

FlowArrives(c, s) ==
    /\ s \in Open(c) /\ \A r \in Open(c) : flows[c][s] <= flows[c][r]
    /\ SumFunction(flows[c]) < FlowsOf[c]
    /\ flows' = [flows EXCEPT ![c][s] = @ + 1]
    /\ UNCHANGED <<sets, target, dialing, wanted, plan, trouble>>

FlowForgotten(c, s) ==
    /\ flows[c][s] > 0 /\ trouble < LendFaults
    /\ trouble' = trouble + 1
    /\ flows' = [flows EXCEPT ![c][s] = @ - 1]
    /\ UNCHANGED <<sets, target, dialing, wanted, plan>>

-----------------------------------------------------------------------------
(* Lanes.  One that ends, however it ends, empties its slot and clears its *)
(* mark; the claim leaves the table with its last lane, slots, marks and   *)
(* flows with it; the server asks for another.                             *)
Of(c, S) == {x \in S : x[1] = c}

LaneEnds(c, s) ==
    /\ IF LiveLanes(c) = {s}
       THEN /\ held' = [held EXCEPT ![c] = [r \in LendSlots |-> "absent"]]
            /\ drain' = drain \ Of(c, drain)
            /\ flows' = [flows EXCEPT ![c] = [r \in LendSlots |-> 0]]
       ELSE /\ held' = [held EXCEPT ![c][s] = "empty"]
            /\ drain' = drain \ {<<c, s>>}
            /\ UNCHANGED flows
    /\ rung' = rung \ {<<c, s>>}
    /\ handover' = handover \ {<<c, s>>}
    /\ wanted' = [wanted EXCEPT ![c] = @ + 1]
    /\ UNCHANGED <<target, dialing, plan>>

LaneFails(c, s) ==
    /\ held[c][s] = "run" /\ trouble < LendFaults
    /\ trouble' = trouble + 1
    /\ LaneEnds(c, s)

(* retired_owned of a marked lane, woken or polled for the first time: the *)
(* lane ends if none of its flows was heard within DRAIN_QUIET.            *)
LaneLooks(c, s) ==
    /\ <<c, s>> \in rung
    /\ \/ LaneEnds(c, s)
       \/ /\ flows[c][s] > 0
          /\ rung' = rung \ {<<c, s>>}
          /\ UNCHANGED <<held, drain, handover, flows, target, dialing, wanted, plan>>
    /\ UNCHANGED trouble

(* ClaimSlots::retire: the mark goes on any slot of the set, with a lane   *)
(* or without, and the claim's lane tasks are woken; those whose lane is   *)
(* not marked go on waiting at once.                                       *)
Retire(c, s) ==
    /\ drain' = IF held[c][s] = "absent" THEN drain ELSE drain \cup {<<c, s>>}
    /\ rung' = rung \cup {x \in drain' : x[1] = c /\ held[c][x[2]] = "run"}

(* A lane joins in the lowest empty slot, or widens the set; a mark its    *)
(* slot has is now its own.  (The two holds of the lock are LaneSet's.)    *)
DialJoins(c) ==
    /\ dialing[c] > 0
    /\ LET s == Min(LendSlots \ LiveLanes(c)) IN
        /\ held' = [held EXCEPT ![c][s] = "run"]
        /\ rung' = rung \cup (drain \cap {<<c, s>>})
    /\ dialing' = [dialing EXCEPT ![c] = @ - 1]
    /\ UNCHANGED <<drain, handover, flows, target, wanted, plan, trouble>>

DialFails(c) ==
    /\ dialing[c] > 0 /\ trouble < LendFaults
    /\ trouble' = trouble + 1
    /\ dialing' = [dialing EXCEPT ![c] = @ - 1]
    /\ UNCHANGED <<sets, flows, target, wanted, plan>>

(* The bounds of a look: the receiver has a slot for the dial beside its   *)
(* lanes and the dials in flight, and what the last second woke and asked  *)
(* for was seen to.  They put a look off and never for good: a claim that  *)
(* fills its slots is not short.  What the policy decides does not depend  *)
(* on them: like the code's it counts no dial, and dials again for the     *)
(* same want while the first dial is under way.                            *)
Room(c) ==
    Cardinality(LiveLanes(c)) + dialing[c] + (IF plan.to = c THEN 1 ELSE 0) < LendWidth
Heard == rung = {} /\ \A c \in Claims : wanted[c] = 0

(* The server's request: a lane that failed leaves the claim short of its  *)
(* target, a lane lent away does not.                                      *)
Replace(c) ==
    /\ wanted[c] > 0 /\ (Room(c) \/ Cardinality(LiveLanes(c)) >= target[c])
    /\ wanted' = [wanted EXCEPT ![c] = @ - 1]
    /\ dialing' = IF Cardinality(LiveLanes(c)) < target[c] THEN [dialing EXCEPT ![c] = @ + 1] ELSE dialing
    /\ UNCHANGED <<sets, flows, target, plan, trouble>>

-----------------------------------------------------------------------------
(* The tick.  The steps before lending's (LaneSet has them in full): a     *)
(* lane is to be handed over, the peer has it back, or has let it go and   *)
(* it is retired with what flows it may carry.                             *)
HandoverAsked(c, s) ==
    /\ plan = NoPlan /\ held[c][s] = "run" /\ <<c, s>> \notin handover
    /\ trouble < LendFaults /\ trouble' = trouble + 1
    /\ handover' = handover \cup {<<c, s>>}
    /\ UNCHANGED <<held, drain, rung, flows, target, dialing, wanted, plan>>

HandoverOver(c, s) ==
    /\ plan = NoPlan /\ <<c, s>> \in handover
    /\ handover' = handover \ {<<c, s>>}
    /\ Retire(c, s) \/ UNCHANGED <<drain, rung>>
    /\ UNCHANGED <<held, flows, target, dialing, wanted, plan, trouble>>

(* It looks, *)
Look ==
    /\ plan = NoPlan /\ Heard
    /\ \E p \in {TickPlan} \ {NoPlan} : Room(p.to) /\ plan' = p
    /\ UNCHANGED <<sets, flows, target, dialing, wanted, trouble>>

(* and acts.  Dialing raises the target (bound: it counts to LendTargets); *)
(* a lend marks the donor's slot and goes on only if the slot is there and *)
(* carries nothing.                                                        *)
Dials(t, c) ==
    /\ target' = [t EXCEPT ![c] = Min({LendTargets, @ + 1})]
    /\ dialing' = [dialing EXCEPT ![c] = @ + 1]

Add ==
    /\ plan.do = "add"
    /\ Dials(target, plan.to)
    /\ plan' = NoPlan
    /\ UNCHANGED <<sets, flows, wanted, trouble>>

(* Mutant: a claim may be wanted to hold no lane.                          *)
LoweredRaw(c) == [target EXCEPT ![c] = @ - 1]

(* A claim is wanted to hold one lane at least. *)
Lowered(c) == [target EXCEPT ![c] = Max({1, @ - 1})]

Lend ==
    /\ plan.do = "lend"
    /\ LET c == plan.from  s == plan.slot IN
        /\ Retire(c, s)
        /\ IF held[c][s] # "absent" /\ flows[c][s] = 0
           THEN Dials(Lowered(c), plan.to)
           ELSE UNCHANGED <<target, dialing>>
    /\ plan' = NoPlan
    /\ UNCHANGED <<held, handover, flows, wanted, trouble>>

LendNext ==
    \/ \E c \in Claims :
        \/ \E s \in LendSlots :
            \/ FlowArrives(c, s) \/ FlowForgotten(c, s)
            \/ LaneFails(c, s) \/ LaneLooks(c, s) \/ HandoverAsked(c, s) \/ HandoverOver(c, s)
        \/ DialJoins(c) \/ DialFails(c) \/ Replace(c)
    \/ Look \/ Add \/ Lend

LendSpec == LendInit /\ [][LendNext]_lendVars

(* The tick runs, dials end, tasks run and requests arrive; flows and      *)
(* failures do as they like.                                               *)
LendTask ==
    \/ Add \/ Lend
    \/ \E c \in Claims :
        DialJoins(c) \/ Replace(c) \/ \E s \in LendSlots : LaneLooks(c, s)
    \/ Look

LendLive == LendSpec /\ WF_lendVars(LendTask)

-----------------------------------------------------------------------------
(* The state's shape. *)
LendTypeOK ==
    /\ held \in [Claims -> [LendSlots -> {"absent", "empty", "run"}]]
    /\ {drain, rung, handover} \subseteq SUBSET (Claims \X LendSlots)
    /\ flows \in [Claims -> [LendSlots -> Nat]]
    /\ target \in [Claims -> 1..LendTargets] /\ dialing \in [Claims -> 0..LendWidth]
    /\ wanted \in [Claims -> Nat]
    /\ plan.do \in {"nothing", "add", "lend"}

(* The lend under way takes a lane from a claim whose flows need as many   *)
(* as it has: they share one lane while another carries nothing, and since *)
(* no flow moves the donor is short next and may take a lane back.         *)
TakesNeeded == plan.do = "lend" /\ TalkingFlows(plan.from) >= Cardinality(LiveLanes(plan.from))

(* The allocator comes to rest (lanes.rs, plan): lanes in flight that are  *)
(* dialed twice, marks on lanes that talk or on slots that fell empty, and *)
(* handovers do not keep it moving.  The one way for it to go on for ever  *)
(* is to take again and again what the donor needs.                        *)
AllocatorSettles == <>[](plan = NoPlan) \/ []<>TakesNeeded

(* A claim with more flows than lanes gets one as long as another claim    *)
(* has a lane to spare that carries nothing (lanes.rs, plan): the shortage *)
(* ends, or the spare lane stops being one, or what was lent meanwhile was *)
(* needed where it was.                                                    *)
ShortClaimServed ==
    []<>\/ TakesNeeded
        \/ ~\E c, d \in Claims :
              /\ c \in Shorts /\ d \notin Shorts
              /\ \E s, r \in Open(d) : s # r /\ s \in Lendable(d)

(* Lending comes to rest where it can, and not before a short claim is     *)
(* served.                                                                 *)
LendingSettles == []LendTypeOK /\ AllocatorSettles /\ ShortClaimServed
=============================================================================
