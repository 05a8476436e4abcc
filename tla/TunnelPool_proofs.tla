-------------------------- MODULE TunnelPool_proofs --------------------------
(***************************************************************************)
(* The pool's accounting and its handovers, for every number of openers,   *)
(* tunnels and failures: the charges of a tunnel cover what it carries,    *)
(* and exactly the tunnel a handover drains is out of service.             *)
(***************************************************************************)
EXTENDS TunnelPool, FiniteSetTheorems, TLAPS

Tunnels == [id : Ids, carrier : Carriers, phase : {"serving", "draining"}]
Opens == [pc : {"idle", "cold", "grow", "look", "look2", "wait", "open", "charge", "lease", "retry"},
          tun : Ids \cup {0}, idx : Nat, tried : SUBSET Nat, avoid : SUBSET Nat]

(* The counters' part: an open that holds a reservation or a stream names  *)
(* its tunnel, and an opener that dials waits for the outcome.             *)
CountShape ==
  /\ op \in [Openers -> Opens]
  /\ streams \in [Ids -> Nat] /\ pending \in [Ids -> Nat]
  /\ dial \in [by : Task \cup {"nobody"}, wanted : Carriers]
Placed == \A o \in Openers : op[o].pc \in {"open", "charge", "lease"} => op[o].tun \in Ids
DialerWaits == \A o \in Openers : dial.by = o => op[o].pc = "grow"
CountInv == CountShape /\ Placed /\ DialerWaits /\ Charged

(* The members' part: ids are given once, a tunnel that works is an entry, *)
(* a dead one no longer works, and what was lost was paid for.             *)
EntryIds == {Id(i) : i \in Indices}
Lost == {t \in 1..born : ~up[t]} \cup (IF handover.phase = "draining" THEN {handover.id} ELSE {})
MemberShape ==
  /\ entries \in Seq(Tunnels)
  /\ handover \in [phase : {"none", "draining", "dialing"}, id : Ids \cup {0},
                   target : Carriers, late : BOOLEAN]
  /\ up \in [Ids -> BOOLEAN] /\ alive \in [Ids -> BOOLEAN]
  /\ born \in Ids /\ spares \in 0..Spares
IdsOnce ==
  /\ \A i, j \in Indices : Id(i) = Id(j) => i = j
  /\ \A i \in Indices : Id(i) <= born
  /\ handover.phase = "draining" => handover.id \in 1..born
UpIsHeld == \A t \in Ids : up[t] => t \in EntryIds /\ alive[t]
Paid == Cardinality(Lost) + spares <= Spares
MemberInv == MemberShape /\ IdsOnce /\ UpIsHeld /\ Paid /\ DrainedByHandover

RestShape == hold \in BOOLEAN /\ maint \in {"idle", "reap", "handover", "repair", "dial"}
PoolInv == CountInv /\ MemberInv /\ RestShape

-----------------------------------------------------------------------------
(* The constants as numbers.                                               *)
LEMMA Numbers ==
  /\ Count \in Nat \ {0} /\ Spares \in Nat /\ IsFiniteSet(Openers)
  /\ 0 \notin Ids /\ Ids \subseteq Nat
  BY PoolAssumption DEF Ids

(* Counting the opens in some phase on a tunnel, when one of them moves.   *)
Counts(r, t, W) == r.pc \in W /\ r.tun = t
CountOn(f, t, W) == Cardinality({x \in Openers : Counts(f[x], t, W)})

LEMMA ChargedMeans ==
  /\ Charged <=> \A t \in Ids : /\ streams[t] = CountOn(op, t, {"lease"})
                               /\ pending[t] >= CountOn(op, t, {"open", "charge"})
  /\ Charged' <=> \A t \in Ids : /\ streams'[t] = CountOn(op', t, {"lease"})
                                /\ pending'[t] >= CountOn(op', t, {"open", "charge"})
  BY DEF Charged, On, CountOn, Counts

(* An open o that becomes r counts where r does and no longer where it did. *)
Moved(o, r) ==
  \A t \in Ids, W \in {{"lease"}, {"open", "charge"}} :
    /\ CountOn(op, t, W) \in Nat
    /\ (Counts(op[o], t, W) <=> Counts(r, t, W)) => CountOn(op', t, W) = CountOn(op, t, W)
    /\ ~Counts(op[o], t, W) /\ Counts(r, t, W) => CountOn(op', t, W) = CountOn(op, t, W) + 1
    /\ Counts(op[o], t, W) /\ ~Counts(r, t, W)
         => CountOn(op', t, W) = CountOn(op, t, W) - 1 /\ CountOn(op, t, W) > 0

LEMMA OpenMoves ==
  ASSUME op \in [Openers -> Opens], NEW o \in Openers, NEW r \in Opens, op' = [op EXCEPT ![o] = r]
  PROVE  Moved(o, r)
<1> SUFFICES ASSUME NEW t \in Ids, NEW W \in {{"lease"}, {"open", "charge"}}
             PROVE  /\ CountOn(op, t, W) \in Nat
                    /\ (Counts(op[o], t, W) <=> Counts(r, t, W)) => CountOn(op', t, W) = CountOn(op, t, W)
                    /\ ~Counts(op[o], t, W) /\ Counts(r, t, W) => CountOn(op', t, W) = CountOn(op, t, W) + 1
                    /\ Counts(op[o], t, W) /\ ~Counts(r, t, W)
                         => CountOn(op', t, W) = CountOn(op, t, W) - 1 /\ CountOn(op, t, W) > 0
  BY DEF Moved
<1> DEFINE S == {x \in Openers : Counts(op[x], t, W)}
           T == {x \in Openers : Counts(op'[x], t, W)}
<1>1. CountOn(op, t, W) = Cardinality(S) /\ CountOn(op', t, W) = Cardinality(T)
  BY DEF CountOn
<1>2. S \in SUBSET Openers /\ T \in SUBSET Openers
  OBVIOUS
<1>3. (o \in S <=> Counts(op[o], t, W)) /\ (o \in T <=> Counts(r, t, W))
  OBVIOUS
<1>4. \A x \in Openers : x # o => (x \in T <=> x \in S)
  OBVIOUS
<1> HIDE DEF S, T
<1>5. IsFiniteSet(S) /\ Cardinality(S) \in Nat
  BY <1>2, Numbers, FS_Subset, FS_CardinalityType
<1>6. CASE Counts(op[o], t, W) <=> Counts(r, t, W)
  <2>1. T = S
    BY <1>2, <1>3, <1>4, <1>6
  <2>2. QED
    BY <1>1, <1>5, <1>6, <2>1
<1>7. CASE ~Counts(op[o], t, W) /\ Counts(r, t, W)
  <2>1. T = S \cup {o} /\ o \notin S
    BY <1>2, <1>3, <1>4, <1>7
  <2>2. QED
    BY <1>1, <1>5, <1>7, <2>1, FS_AddElement
<1>8. CASE Counts(op[o], t, W) /\ ~Counts(r, t, W)
  <2>1. T = S \ {o} /\ o \in S
    BY <1>2, <1>3, <1>4, <1>8
  <2>2. Cardinality(T) = Cardinality(S) - 1 /\ Cardinality(S) # 0
    BY <1>5, <2>1, FS_RemoveElement, FS_EmptySet
  <2>3. QED
    BY <1>1, <1>5, <1>8, <2>2
<1>9. QED
  BY <1>6, <1>7, <1>8

-----------------------------------------------------------------------------
(* How one open's step may move the counters.  An open that takes no       *)
(* charge with it changes none; a reservation adds to its tunnel's pending *)
(* opens; a charge turns it into a stream; a failure gives it back; a      *)
(* lease that is dropped gives back the stream.                            *)
Free(r) == r.pc \notin {"open", "charge", "lease"}

LEMMA MovesFree ==
  ASSUME CountInv, NEW o \in Openers, NEW r \in Opens, op' = [op EXCEPT ![o] = r],
         UNCHANGED streams, \A t \in Ids : pending'[t] \in Nat /\ pending'[t] >= pending[t],
         \/ Free(op[o]) /\ Free(r)
         \/ op[o].pc = "open" /\ r.pc = "charge" /\ r.tun = op[o].tun
  PROVE  Charged'
<1> USE DEF CountInv, CountShape
<1>1. Moved(o, r)
  BY OpenMoves
<1> SUFFICES ASSUME NEW t \in Ids
             PROVE  streams'[t] = CountOn(op', t, {"lease"}) /\ pending'[t] >= CountOn(op', t, {"open", "charge"})
  BY ChargedMeans
<1>2. Counts(op[o], t, {"lease"}) <=> Counts(r, t, {"lease"})
  BY DEF Counts, Free
<1>3. Counts(op[o], t, {"open", "charge"}) <=> Counts(r, t, {"open", "charge"})
  BY DEF Counts, Free
<1>4. CountOn(op', t, {"lease"}) = CountOn(op, t, {"lease"}) /\ CountOn(op', t, {"open", "charge"}) = CountOn(op, t, {"open", "charge"})
      /\ CountOn(op, t, {"open", "charge"}) \in Nat
  BY <1>1, <1>2, <1>3 DEF Moved
<1>5. pending[t] \in Nat /\ pending[t] >= CountOn(op, t, {"open", "charge"}) /\ streams[t] = CountOn(op, t, {"lease"})
  BY ChargedMeans
<1>6. QED
  BY <1>4, <1>5

LEMMA MovesReserve ==
  ASSUME CountInv, NEW o \in Openers, NEW r \in Opens, op' = [op EXCEPT ![o] = r],
         Free(op[o]), r.pc = "open", r.tun \in Ids, UNCHANGED streams,
         pending' = [pending EXCEPT ![r.tun] = @ + 1]
  PROVE  Charged'
<1> USE DEF CountInv, CountShape
<1>1. Moved(o, r)
  BY OpenMoves
<1> SUFFICES ASSUME NEW t \in Ids
             PROVE  streams'[t] = CountOn(op', t, {"lease"}) /\ pending'[t] >= CountOn(op', t, {"open", "charge"})
  BY ChargedMeans
<1>2. ~Counts(op[o], t, {"lease"}) /\ ~Counts(r, t, {"lease"})
  BY DEF Counts, Free
<1>3. ~Counts(op[o], t, {"open", "charge"}) /\ (Counts(r, t, {"open", "charge"}) <=> r.tun = t)
  BY DEF Counts, Free
<1>4. CountOn(op', t, {"lease"}) = CountOn(op, t, {"lease"}) /\ CountOn(op, t, {"open", "charge"}) \in Nat
  BY <1>1, <1>2 DEF Moved
<1>5. CountOn(op', t, {"open", "charge"}) = IF r.tun = t THEN CountOn(op, t, {"open", "charge"}) + 1 ELSE CountOn(op, t, {"open", "charge"})
  BY <1>1, <1>3 DEF Moved
<1>6. pending[t] \in Nat /\ pending[t] >= CountOn(op, t, {"open", "charge"}) /\ streams[t] = CountOn(op, t, {"lease"})
  BY ChargedMeans
<1>7. pending'[t] = IF r.tun = t THEN pending[t] + 1 ELSE pending[t]
  BY <1>6
<1>8. QED
  BY <1>4, <1>5, <1>6, <1>7

LEMMA MovesCharge ==
  ASSUME CountInv, NEW o \in Openers, NEW r \in Opens, op' = [op EXCEPT ![o] = r],
         op[o].pc = "charge", r.pc = "lease", r.tun = op[o].tun,
         streams' = [streams EXCEPT ![op[o].tun] = @ + 1],
         pending' = [pending EXCEPT ![op[o].tun] = @ - 1]
  PROVE  Charged' /\ streams' \in [Ids -> Nat] /\ pending' \in [Ids -> Nat]
<1> USE DEF CountInv, CountShape
<1>1. op \in [Openers -> Opens] /\ op[o].tun \in Ids
  BY DEF Placed
<1> DEFINE w == op[o].tun
<1>2. Moved(o, r)
  BY <1>1, OpenMoves
<1>3. ASSUME NEW t \in Ids
      PROVE  /\ streams'[t] = CountOn(op', t, {"lease"}) /\ pending'[t] >= CountOn(op', t, {"open", "charge"})
             /\ streams'[t] \in Nat /\ pending'[t] \in Nat
  <2>1. ~Counts(op[o], t, {"lease"}) /\ (Counts(r, t, {"lease"}) <=> w = t)
    BY DEF Counts
  <2>2. (Counts(op[o], t, {"open", "charge"}) <=> w = t) /\ ~Counts(r, t, {"open", "charge"})
    BY DEF Counts
  <2>3. CountOn(op', t, {"lease"}) = IF w = t THEN CountOn(op, t, {"lease"}) + 1 ELSE CountOn(op, t, {"lease"})
    BY <1>2, <2>1 DEF Moved
  <2>4. /\ CountOn(op, t, {"open", "charge"}) \in Nat
        /\ CountOn(op', t, {"open", "charge"}) = IF w = t THEN CountOn(op, t, {"open", "charge"}) - 1 ELSE CountOn(op, t, {"open", "charge"})
        /\ w = t => CountOn(op, t, {"open", "charge"}) > 0
    BY <1>2, <2>2 DEF Moved
  <2>5. /\ streams[t] \in Nat /\ pending[t] \in Nat
        /\ pending[t] >= CountOn(op, t, {"open", "charge"}) /\ streams[t] = CountOn(op, t, {"lease"})
    BY ChargedMeans
  <2>6. /\ streams'[t] = IF w = t THEN streams[t] + 1 ELSE streams[t]
        /\ pending'[t] = IF w = t THEN pending[t] - 1 ELSE pending[t]
    OBVIOUS
  <2>7. QED
    BY <2>3, <2>4, <2>5, <2>6
<1>4. Charged'
  BY <1>3, ChargedMeans
<1>5. streams' \in [Ids -> Nat] /\ pending' \in [Ids -> Nat]
  BY <1>3
<1>6. QED
  BY <1>4, <1>5

LEMMA MovesRelease ==
  ASSUME CountInv, NEW o \in Openers, NEW r \in Opens, op' = [op EXCEPT ![o] = r],
         op[o].pc = "open", Free(r), UNCHANGED streams,
         pending' = [pending EXCEPT ![op[o].tun] = @ - 1]
  PROVE  Charged' /\ pending' \in [Ids -> Nat]
<1> USE DEF CountInv, CountShape
<1>1. op \in [Openers -> Opens] /\ op[o].tun \in Ids
  BY DEF Placed
<1> DEFINE w == op[o].tun
<1>2. Moved(o, r)
  BY <1>1, OpenMoves
<1>3. ASSUME NEW t \in Ids
      PROVE  /\ streams'[t] = CountOn(op', t, {"lease"}) /\ pending'[t] >= CountOn(op', t, {"open", "charge"})
             /\ pending'[t] \in Nat
  <2>1. ~Counts(op[o], t, {"lease"}) /\ ~Counts(r, t, {"lease"})
    BY DEF Counts, Free
  <2>2. (Counts(op[o], t, {"open", "charge"}) <=> w = t) /\ ~Counts(r, t, {"open", "charge"})
    BY DEF Counts, Free
  <2>3. CountOn(op', t, {"lease"}) = CountOn(op, t, {"lease"})
    BY <1>2, <2>1 DEF Moved
  <2>4. /\ CountOn(op, t, {"open", "charge"}) \in Nat
        /\ CountOn(op', t, {"open", "charge"}) = IF w = t THEN CountOn(op, t, {"open", "charge"}) - 1 ELSE CountOn(op, t, {"open", "charge"})
        /\ w = t => CountOn(op, t, {"open", "charge"}) > 0
    BY <1>2, <2>2 DEF Moved
  <2>5. /\ pending[t] \in Nat /\ pending[t] >= CountOn(op, t, {"open", "charge"}) /\ streams[t] = CountOn(op, t, {"lease"})
    BY ChargedMeans
  <2>6. pending'[t] = IF w = t THEN pending[t] - 1 ELSE pending[t]
    OBVIOUS
  <2>7. QED
    BY <2>3, <2>4, <2>5, <2>6
<1>4. Charged'
  BY <1>3, ChargedMeans
<1>5. pending' \in [Ids -> Nat]
  BY <1>3
<1>6. QED
  BY <1>4, <1>5

LEMMA MovesDrop ==
  ASSUME CountInv, NEW o \in Openers, NEW r \in Opens, op' = [op EXCEPT ![o] = r],
         op[o].pc = "lease", Free(r), UNCHANGED pending,
         streams' = [streams EXCEPT ![op[o].tun] = @ - 1]
  PROVE  Charged' /\ streams' \in [Ids -> Nat]
<1> USE DEF CountInv, CountShape
<1>1. op \in [Openers -> Opens] /\ op[o].tun \in Ids
  BY DEF Placed
<1> DEFINE w == op[o].tun
<1>2. Moved(o, r)
  BY <1>1, OpenMoves
<1>3. ASSUME NEW t \in Ids
      PROVE  /\ streams'[t] = CountOn(op', t, {"lease"}) /\ pending'[t] >= CountOn(op', t, {"open", "charge"})
             /\ streams'[t] \in Nat
  <2>1. (Counts(op[o], t, {"lease"}) <=> w = t) /\ ~Counts(r, t, {"lease"})
    BY DEF Counts, Free
  <2>2. ~Counts(op[o], t, {"open", "charge"}) /\ ~Counts(r, t, {"open", "charge"})
    BY DEF Counts, Free
  <2>3. CountOn(op', t, {"open", "charge"}) = CountOn(op, t, {"open", "charge"})
    BY <1>2, <2>2 DEF Moved
  <2>4. /\ CountOn(op, t, {"lease"}) \in Nat
        /\ CountOn(op', t, {"lease"}) = IF w = t THEN CountOn(op, t, {"lease"}) - 1 ELSE CountOn(op, t, {"lease"})
        /\ w = t => CountOn(op, t, {"lease"}) > 0
    BY <1>2, <2>1 DEF Moved
  <2>5. /\ streams[t] \in Nat /\ pending[t] >= CountOn(op, t, {"open", "charge"}) /\ streams[t] = CountOn(op, t, {"lease"})
    BY ChargedMeans
  <2>6. streams'[t] = IF w = t THEN streams[t] - 1 ELSE streams[t]
    OBVIOUS
  <2>7. QED
    BY <2>3, <2>4, <2>5, <2>6
<1>4. Charged'
  BY <1>3, ChargedMeans
<1>5. streams' \in [Ids -> Nat]
  BY <1>3
<1>6. QED
  BY <1>4, <1>5

-----------------------------------------------------------------------------
(* The records of an open.                                                 *)
LEMMA IdleFacts == Idle \in Opens /\ Free(Idle) /\ Idle.pc = "idle"
  BY DEF Idle, Opens, Free

LEMMA FreshFacts ==
  ASSUME NEW w \in {"look2", "open"}, NEW t \in Ids \cup {0}, NEW i \in Nat, NEW a \in SUBSET Nat
  PROVE  /\ [Idle EXCEPT !.pc = w, !.tun = t, !.idx = i, !.avoid = a] \in Opens
         /\ [Idle EXCEPT !.pc = w, !.tun = t, !.idx = i, !.avoid = a].pc = w
         /\ [Idle EXCEPT !.pc = w, !.tun = t, !.idx = i, !.avoid = a].tun = t
         /\ [Idle EXCEPT !.pc = w, !.avoid = a] \in Opens
         /\ [Idle EXCEPT !.pc = w, !.avoid = a].pc = w
  BY DEF Idle, Opens

LEMMA PcField ==
  ASSUME NEW x \in Opens,
         NEW w \in {"idle", "cold", "grow", "look", "look2", "wait", "open", "charge", "lease", "retry"}
  PROVE  [x EXCEPT !.pc = w] \in Opens /\ [x EXCEPT !.pc = w].pc = w /\ [x EXCEPT !.pc = w].tun = x.tun
  BY DEF Opens

LEMMA GoToFacts ==
  ASSUME op \in [Openers -> Opens], NEW o \in Openers,
         NEW w \in {"idle", "cold", "grow", "look", "look2", "wait", "open", "charge", "lease", "retry"},
         GoTo(o, w)
  PROVE  \E r \in Opens : op' = [op EXCEPT ![o] = r] /\ r.pc = w /\ r.tun = op[o].tun
<1> DEFINE r == [op[o] EXCEPT !.pc = w]
<1>1. op[o] \in Opens
  OBVIOUS
<1>2. r \in Opens /\ r.pc = w /\ r.tun = op[o].tun
  <2> DEFINE x == op[o]
  <2>1. x \in Opens
    BY <1>1
  <2> HIDE DEF x
  <2>2. [x EXCEPT !.pc = w] \in Opens /\ [x EXCEPT !.pc = w].pc = w /\ [x EXCEPT !.pc = w].tun = x.tun
    BY ONLY <2>1, PcField,
            w \in {"idle", "cold", "grow", "look", "look2", "wait", "open", "charge", "lease", "retry"}
  <2> QED
    BY <2>2 DEF x
<1>3. op' = [op EXCEPT ![o] = r]
  BY <1>1 DEF GoTo
<1> HIDE DEF r
<1>4. QED
  BY <1>2, <1>3

LEMMA FallThroughFacts ==
  ASSUME op \in [Openers -> Opens], NEW o \in Openers, FallThrough(o)
  PROVE  \E r \in Opens : op' = [op EXCEPT ![o] = r] /\ r.pc = "retry"
<1> DEFINE r == [op[o] EXCEPT !.pc = "retry", !.tun = 0, !.idx = 0, !.tried = @ \cup {op[o].idx}]
<1>1. op[o] \in Opens
  OBVIOUS
<1>2. r \in Opens /\ r.pc = "retry"
  BY <1>1 DEF Opens
<1>3. op' = [op EXCEPT ![o] = r]
  BY <1>1 DEF FallThrough
<1> HIDE DEF r
<1>4. QED
  BY <1>2, <1>3

LEMMA ReserveFacts ==
  ASSUME op \in [Openers -> Opens], NEW o \in Openers, NEW i \in Nat, Id(i) \in Ids, Reserve(o, i)
  PROVE  \E r \in Opens : /\ op' = [op EXCEPT ![o] = r] /\ r.pc = "open" /\ r.tun = Id(i)
                         /\ pending' = [pending EXCEPT ![r.tun] = @ + 1]
<1> DEFINE r == [op[o] EXCEPT !.pc = "open", !.tun = Id(i), !.idx = i]
<1>1. op[o] \in Opens
  OBVIOUS
<1>2. r \in Opens /\ r.pc = "open" /\ r.tun = Id(i)
  BY <1>1 DEF Opens
<1>3. op' = [op EXCEPT ![o] = r]
  BY <1>1 DEF Reserve
<1>4. pending' = [pending EXCEPT ![Id(i)] = @ + 1]
  BY DEF Reserve
<1> HIDE DEF r
<1>5. QED
  BY <1>2, <1>3, <1>4

(* Placement only names entries.                                           *)
LEMMA Reserved ==
  ASSUME MemberShape, NEW tried, NEW avoid, NEW seen, NEW i \in Reservable(tried, avoid, seen)
  PROVE  i \in Indices /\ i \in Nat /\ Id(i) \in Ids
<1>1. i \in Indices
  BY DEF Reservable, First, Candidates
<1>2. i \in Nat /\ i \in 1..Len(entries) /\ entries \in Seq(Tunnels)
  BY <1>1 DEF Indices, MemberShape
<1>3. entries[i] \in Tunnels
  BY <1>2
<1>4. QED
  BY <1>1, <1>2, <1>3 DEF Id, Tunnels

(* What is left to show of the counters once the counts are.               *)
LEMMA CountKeeps ==
  ASSUME CountInv, NEW o \in Openers, NEW r \in Opens, op' = [op EXCEPT ![o] = r],
         streams' \in [Ids -> Nat], pending' \in [Ids -> Nat], Charged',
         r.pc \in {"open", "charge", "lease"} => r.tun \in Ids,
         UNCHANGED dial, op[o].pc # "grow"
  PROVE  CountInv'
<1>1. CountShape'
  BY DEF CountInv, CountShape
<1>2. Placed' /\ DialerWaits'
  BY DEF CountInv, CountShape, Placed, DialerWaits
<1>3. QED
  BY <1>1, <1>2 DEF CountInv

LEMMA CountersStay == ASSUME CountInv, UNCHANGED <<op, streams, pending, dial>> PROVE CountInv'
<1>1. CountShape' /\ Placed' /\ DialerWaits'
  BY DEF CountInv, CountShape, Placed, DialerWaits
<1>2. Charged'
  BY DEF CountInv, Charged, On
<1>3. QED
  BY <1>1, <1>2 DEF CountInv

-----------------------------------------------------------------------------
(* The opens' steps, as far as the counters go.                            *)
LEMMA PendingStays ==
  ASSUME CountShape, UNCHANGED pending
  PROVE  \A t \in Ids : pending'[t] \in Nat /\ pending'[t] >= pending[t]
<1>1. \A t \in Ids : pending[t] \in Nat
  BY DEF CountShape
<1>2. QED
  BY <1>1

LEMMA StartOpenCounts == ASSUME CountInv, NEW o \in Openers, StartOpen(o) PROVE CountInv'
<1> USE DEF CountInv, CountShape
<1>1. PICK r \in Opens : op' = [op EXCEPT ![o] = r] /\ r.pc \in {"cold", "look"}
  <2>1. GoTo(o, "cold") \/ GoTo(o, "look")
    BY DEF StartOpen
  <2>2. QED
    BY <2>1, GoToFacts
<1>2. op[o].pc = "idle" /\ UNCHANGED <<streams, pending, dial>>
  BY DEF StartOpen, OpenerAt, slotVars
<1>3. \A t \in Ids : pending'[t] \in Nat /\ pending'[t] >= pending[t]
  BY <1>2, PendingStays
<1>4. Charged'
  BY <1>1, <1>2, <1>3, MovesFree DEF Free
<1>5. QED
  BY <1>1, <1>2, <1>4, CountKeeps

(* An opener that dials waits: no other dial is under way.                 *)
LEMMA ColdGrowCounts == ASSUME CountInv, MemberShape, NEW o \in Openers, ColdGrow(o) PROVE CountInv'
<1> USE DEF CountInv, CountShape
<1>1. op[o].pc = "cold" /\ UNCHANGED <<streams, pending>>
  BY DEF ColdGrow, OpenerAt, slotVars
<1>2. \A t \in Ids : pending'[t] \in Nat /\ pending'[t] >= pending[t]
  BY <1>1, PendingStays
<1>3. \/ UNCHANGED dial /\ GoTo(o, "look")
      \/ dial = NoDial /\ dial' \in [by : {o}, wanted : Carriers] /\ GoTo(o, "grow")
  <2>1. CASE dial # NoDial /\ GoTo(o, "look") /\ UNCHANGED <<dial, hold>>
    BY <2>1
  <2>2. CASE BeginGrow(o) /\ GoTo(o, IF dial' = NoDial THEN "look" ELSE "grow")
    <3>1. CASE UNCHANGED dial
      BY <2>2, <3>1 DEF BeginGrow
    <3>2. ASSUME NEW c \in Wanted, dial' = [by |-> o, wanted |-> c] PROVE dial = NoDial /\ dial' \in [by : {o}, wanted : Carriers] /\ GoTo(o, "grow")
      <4>1. c \in Carriers
        BY DEF Wanted, MemberShape, Carriers
      <4>2. o # "nobody"
        BY PoolAssumption
      <4>3. dial' # NoDial /\ dial' \in [by : {o}, wanted : Carriers]
        BY <3>2, <4>1, <4>2 DEF NoDial
      <4>4. QED
        BY <2>2, <4>3 DEF BeginGrow
    <3>3. QED
      BY <2>2, <3>1, <3>2 DEF BeginGrow
  <2>3. QED
    BY <2>1, <2>2 DEF ColdGrow
<1>4. CASE UNCHANGED dial /\ GoTo(o, "look")
  <2>1. PICK r \in Opens : op' = [op EXCEPT ![o] = r] /\ r.pc = "look"
    BY <1>4, GoToFacts
  <2>2. Charged'
    BY <1>1, <1>2, <2>1, MovesFree DEF Free
  <2>3. QED
    BY <1>1, <1>4, <2>1, <2>2, CountKeeps
<1>5. CASE dial = NoDial /\ dial' \in [by : {o}, wanted : Carriers] /\ GoTo(o, "grow")
  <2>1. PICK r \in Opens : op' = [op EXCEPT ![o] = r] /\ r.pc = "grow"
    BY <1>5, GoToFacts
  <2>2. Charged'
    BY <1>1, <1>2, <2>1, MovesFree DEF Free
  <2>3. dial' \in [by : Task \cup {"nobody"}, wanted : Carriers] /\ dial'.by = o
    BY <1>5 DEF Task
  <2>4. CountShape'
    BY <1>1, <2>1, <2>3
  <2>5. Placed' /\ DialerWaits'
    BY <2>1, <2>3 DEF Placed, DialerWaits
  <2>6. QED
    BY <2>2, <2>4, <2>5
<1>6. QED
  BY <1>3, <1>4, <1>5

(* A reservation is made, or the open is answered or looks again.          *)
LEMMA ReservesOrAnswers ==
  ASSUME CountInv, NEW o \in Openers, Free(op[o]), op[o].pc # "grow", UNCHANGED <<streams, dial>>,
         NEW r \in Opens, op' = [op EXCEPT ![o] = r],
         \/ r.pc = "open" /\ r.tun \in Ids /\ pending' = [pending EXCEPT ![r.tun] = @ + 1]
         \/ Free(r) /\ UNCHANGED pending
  PROVE  CountInv'
<1> USE DEF CountInv, CountShape
<1>1. CASE r.pc = "open" /\ r.tun \in Ids /\ pending' = [pending EXCEPT ![r.tun] = @ + 1]
  <2>1. Charged'
    BY <1>1, MovesReserve
  <2>2. pending' \in [Ids -> Nat]
    BY <1>1
  <2>3. QED
    BY <1>1, <2>1, <2>2, CountKeeps
<1>2. CASE Free(r) /\ UNCHANGED pending
  <2>1. \A t \in Ids : pending'[t] \in Nat /\ pending'[t] >= pending[t]
    BY <1>2, PendingStays
  <2>2. Charged'
    BY <1>2, <2>1, MovesFree
  <2>3. QED
    BY <1>2, <2>2, CountKeeps DEF Free
<1>3. QED
  BY <1>1, <1>2

LEMMA FirstLookCounts == ASSUME CountInv, MemberShape, NEW o \in Openers, FirstLook(o) PROVE CountInv'
<1> USE DEF CountInv, CountShape
<1>1. op[o].pc = "look" /\ UNCHANGED <<streams, dial>>
  BY DEF FirstLook, OpenerAt
<1>2. PICK avoid \in {{}, SiblingIndices(o)}, seen \in SeenLoads :
        \/ \E i \in Reservable({}, avoid, seen) :
             /\ pending' = [pending EXCEPT ![Id(i)] = @ + 1]
             /\ op' = [op EXCEPT ![o] = [Idle EXCEPT !.pc = "open", !.tun = Id(i), !.idx = i, !.avoid = avoid]]
        \/ /\ UNCHANGED pending
           /\ op' = [op EXCEPT ![o] = IF entries = <<>> THEN Idle
                                      ELSE [Idle EXCEPT !.pc = "look2", !.avoid = avoid]]
  BY DEF FirstLook
<1>3. avoid \in SUBSET Nat
  BY DEF SiblingIndices, Indices
<1>4. ASSUME NEW i \in Reservable({}, avoid, seen),
             pending' = [pending EXCEPT ![Id(i)] = @ + 1],
             op' = [op EXCEPT ![o] = [Idle EXCEPT !.pc = "open", !.tun = Id(i), !.idx = i, !.avoid = avoid]]
      PROVE  CountInv'
  <2>1. i \in Nat /\ Id(i) \in Ids
    BY Reserved
  <2> DEFINE r == [Idle EXCEPT !.pc = "open", !.tun = Id(i), !.idx = i, !.avoid = avoid]
  <2>2. r \in Opens /\ r.pc = "open" /\ r.tun = Id(i)
    BY <1>3, <2>1 DEF Idle, Opens
  <2>3. op' = [op EXCEPT ![o] = r]
    BY <1>4
  <2> HIDE DEF r
  <2>4. r.pc = "open" /\ r.tun \in Ids /\ pending' = [pending EXCEPT ![r.tun] = @ + 1]
    BY <1>4, <2>1, <2>2
  <2>5. Free(op[o])
    BY <1>1 DEF Free
  <2>6. QED
    BY <1>1, <2>2, <2>3, <2>4, <2>5, ReservesOrAnswers
<1>5. CASE /\ UNCHANGED pending
           /\ op' = [op EXCEPT ![o] = IF entries = <<>> THEN Idle
                                      ELSE [Idle EXCEPT !.pc = "look2", !.avoid = avoid]]
  <2> DEFINE r == IF entries = <<>> THEN Idle ELSE [Idle EXCEPT !.pc = "look2", !.avoid = avoid]
  <2>1. r \in Opens /\ Free(r)
    BY <1>3 DEF Idle, Opens, Free
  <2>2. op' = [op EXCEPT ![o] = r] /\ UNCHANGED pending
    BY <1>5
  <2> HIDE DEF r
  <2>3. QED
    BY <1>1, <2>1, <2>2, ReservesOrAnswers DEF Free
<1>6. QED
  BY <1>2, <1>4, <1>5

(* The second look's reservation is not the open's: it is pending for good. *)
LEMMA SecondLookCounts == ASSUME CountInv, MemberShape, NEW o \in Openers, SecondLook(o) PROVE CountInv'
<1> USE DEF CountInv, CountShape
<1>1. op[o].pc = "look2" /\ UNCHANGED <<streams, dial>>
  BY DEF SecondLook, OpenerAt
<1>2. PICK r \in Opens : op' = [op EXCEPT ![o] = r] /\ r.pc = "wait"
  BY GoToFacts DEF SecondLook
<1>3. PICK seen \in SeenLoads :
        \/ \E i \in Reservable({}, op[o].avoid, seen) : pending' = [pending EXCEPT ![Id(i)] = @ + 1]
        \/ UNCHANGED pending
  BY DEF SecondLook
<1>4. pending' \in [Ids -> Nat] /\ \A t \in Ids : pending'[t] >= pending[t]
  <2>1. ASSUME NEW i \in Reservable({}, op[o].avoid, seen), pending' = [pending EXCEPT ![Id(i)] = @ + 1]
        PROVE  pending' \in [Ids -> Nat] /\ \A t \in Ids : pending'[t] >= pending[t]
    <3>1. Id(i) \in Ids
      BY Reserved
    <3>2. QED
      BY <2>1, <3>1
  <2>2. QED
    BY <1>3, <2>1
<1>5. Charged'
  BY <1>1, <1>2, <1>4, MovesFree DEF Free
<1>6. QED
  BY <1>1, <1>2, <1>4, <1>5, CountKeeps

LEMMA LaterLookCounts ==
  ASSUME CountInv, MemberShape, NEW o \in Openers, LastLook(o) \/ Retry(o) PROVE CountInv'
<1> USE DEF CountInv, CountShape
<1>1. op[o].pc \in {"wait", "retry"} /\ UNCHANGED <<streams, dial>>
  BY DEF LastLook, Retry, OpenerAt
<1>2. \/ \E tried, seen : \E i \in Reservable(tried, op[o].avoid, seen) : Reserve(o, i)
      \/ Answer(o) /\ UNCHANGED pending
  <2>1. CASE LastLook(o)
    BY <2>1 DEF LastLook
  <2>2. CASE Retry(o)
    BY <2>2 DEF Retry
  <2>3. QED
    BY <2>1, <2>2
<1>3. ASSUME NEW tried, NEW seen, NEW i \in Reservable(tried, op[o].avoid, seen), Reserve(o, i)
      PROVE  CountInv'
  <2>1. i \in Nat /\ Id(i) \in Ids
    BY Reserved
  <2>2. PICK r \in Opens : /\ op' = [op EXCEPT ![o] = r] /\ r.pc = "open" /\ r.tun = Id(i)
                           /\ pending' = [pending EXCEPT ![r.tun] = @ + 1]
    BY <1>3, <2>1, ReserveFacts
  <2>3. QED
    BY <1>1, <2>1, <2>2, ReservesOrAnswers DEF Free
<1>4. CASE Answer(o) /\ UNCHANGED pending
  <2>1. op' = [op EXCEPT ![o] = Idle]
    BY <1>4 DEF Answer
  <2>2. QED
    BY <1>1, <1>4, <2>1, IdleFacts, ReservesOrAnswers DEF Free
<1>5. QED
  BY <1>2, <1>3, <1>4

LEMMA OpenOkCounts == ASSUME CountInv, NEW o \in Openers, OpenOk(o) PROVE CountInv'
<1> USE DEF CountInv, CountShape
<1>1. op[o].pc = "open" /\ UNCHANGED <<streams, pending, dial>>
  BY DEF OpenOk, OpenerAt, slotVars
<1>2. PICK r \in Opens : op' = [op EXCEPT ![o] = r] /\ r.pc = "charge" /\ r.tun = op[o].tun
  BY GoToFacts DEF OpenOk
<1>3. \A t \in Ids : pending'[t] \in Nat /\ pending'[t] >= pending[t]
  BY <1>1, PendingStays
<1>4. Charged'
  BY <1>1, <1>2, <1>3, MovesFree
<1>5. QED
  BY <1>1, <1>2, <1>4, CountKeeps DEF Placed

LEMMA ChargeCounts == ASSUME CountInv, NEW o \in Openers, ChargeTunnel(o) PROVE CountInv'
<1> USE DEF CountInv, CountShape
<1>1. /\ op[o].pc = "charge" /\ UNCHANGED dial
      /\ streams' = [streams EXCEPT ![op[o].tun] = @ + 1]
      /\ pending' = [pending EXCEPT ![op[o].tun] = @ - 1]
  BY DEF ChargeTunnel, OpenerAt
<1>2. PICK r \in Opens : op' = [op EXCEPT ![o] = r] /\ r.pc = "lease" /\ r.tun = op[o].tun
  BY GoToFacts DEF ChargeTunnel
<1>3. Charged' /\ streams' \in [Ids -> Nat] /\ pending' \in [Ids -> Nat]
  BY <1>1, <1>2, MovesCharge
<1>4. QED
  BY <1>1, <1>2, <1>3, CountKeeps DEF Placed

LEMMA OpenFailsCounts ==
  ASSUME CountInv, NEW o \in Openers, OpenClosed(o) \/ OpenTooMany(o) PROVE CountInv'
<1> USE DEF CountInv, CountShape
<1>1. /\ op[o].pc = "open" /\ UNCHANGED <<streams, dial>>
      /\ pending' = [pending EXCEPT ![op[o].tun] = @ - 1]
  BY DEF OpenClosed, OpenTooMany, OpenerAt
<1>2. PICK r \in Opens : op' = [op EXCEPT ![o] = r] /\ Free(r)
  <2>1. FallThrough(o) \/ Answer(o)
    BY DEF OpenClosed, OpenTooMany
  <2>2. QED
    BY <2>1, FallThroughFacts, IdleFacts DEF Answer, Free
<1>3. Charged' /\ pending' \in [Ids -> Nat]
  BY <1>1, <1>2, MovesRelease
<1>4. QED
  BY <1>1, <1>2, <1>3, CountKeeps DEF Free

LEMMA DropLeaseCounts == ASSUME CountInv, NEW o \in Openers, DropLease(o) PROVE CountInv'
<1> USE DEF CountInv, CountShape
<1>1. /\ op[o].pc = "lease" /\ UNCHANGED <<pending, dial>> /\ op' = [op EXCEPT ![o] = Idle]
      /\ streams' = [streams EXCEPT ![op[o].tun] = @ - 1]
  BY DEF DropLease, OpenerAt, Answer
<1>2. Charged' /\ streams' \in [Ids -> Nat]
  BY <1>1, IdleFacts, MovesDrop
<1>3. QED
  BY <1>1, <1>2, IdleFacts, CountKeeps

-----------------------------------------------------------------------------
(* The members.  Ranking a set of indices: every rank is taken once, so    *)
(* Nth lists the set in order.                                             *)
LEMMA RankFacts ==
  ASSUME NEW n \in Nat, NEW K \in SUBSET (1..n)
  PROVE  /\ IsFiniteSet(K) /\ Cardinality(K) \in Nat
         /\ \A k \in 1..Cardinality(K) :
              Nth(K, k) \in K /\ Cardinality({j \in K : j <= Nth(K, k)}) = k
         /\ \A i \in K : \E k \in 1..Cardinality(K) : Nth(K, k) = i
<1> DEFINE Below(i) == {j \in K : j <= i}
           rank == [i \in K |-> Cardinality(Below(i))]
           N == Cardinality(K)
<1>1. IsFiniteSet(1..n)
  BY FS_Interval
<1>2. IsFiniteSet(K) /\ N \in Nat
  BY <1>1, FS_Subset, FS_CardinalityType
<1>3. \A i \in K : IsFiniteSet(Below(i)) /\ Cardinality(Below(i)) \in 1..N
  <2> TAKE i \in K
  <2>1. Below(i) \in SUBSET K /\ i \in Below(i)
    OBVIOUS
  <2> HIDE DEF Below
  <2>2. IsFiniteSet(Below(i)) /\ Cardinality(Below(i)) <= N /\ Cardinality(Below(i)) \in Nat
    BY <1>2, <2>1, FS_Subset, FS_CardinalityType
  <2>3. Cardinality(Below(i)) # 0
    BY <2>1, <2>2, FS_EmptySet
  <2>4. QED
    BY <1>2, <2>2, <2>3
<1>4. ASSUME NEW i \in K, NEW j \in K, i < j PROVE Cardinality(Below(i)) < Cardinality(Below(j))
  <2>1. Below(i) \in SUBSET Below(j) /\ Below(i) # Below(j)
    <3>1. \A x \in K : x \in Int
      OBVIOUS
    <3>2. \A x \in K : x <= i => x <= j
      BY <1>4, <3>1
    <3>3. j \in Below(j) /\ j \notin Below(i)
      BY <1>4, <3>1
    <3>4. QED
      BY <3>2, <3>3
  <2>2. IsFiniteSet(Below(j)) /\ Cardinality(Below(i)) \in Nat /\ Cardinality(Below(j)) \in Nat
    BY <1>3
  <2> HIDE DEF Below
  <2>3. Cardinality(Below(i)) <= Cardinality(Below(j)) /\ Cardinality(Below(i)) # Cardinality(Below(j))
    BY <2>1, <2>2, FS_Subset
  <2>4. QED
    BY <2>2, <2>3
<1>5. ASSUME NEW i \in K, NEW j \in K, Cardinality(Below(i)) = Cardinality(Below(j)) PROVE i = j
  <2>1. i < j \/ j < i \/ i = j
    OBVIOUS
  <2>2. Cardinality(Below(i)) \in Nat /\ Cardinality(Below(j)) \in Nat
    BY <1>3
  <2>3. QED
    BY <1>4, <1>5, <2>1, <2>2
<1> HIDE DEF Below
<1>6. rank \in [K -> 1..N] /\ \A i, j \in K : rank[i] = rank[j] => i = j
  BY <1>3, <1>5
<1>7. rank \in Injection(K, 1..N)
  BY <1>6 DEF Injection, IsInjective
<1>8. IsFiniteSet(1..N) /\ Cardinality(1..N) = N
  BY <1>2, FS_Interval
<1>9. rank \in Surjection(K, 1..N)
  BY <1>7, <1>8, FS_Injection
<1>10. \A k \in 1..N : \E i \in K : rank[i] = k
  BY <1>9 DEF Surjection
<1>11. \A k \in 1..N : Nth(K, k) \in K /\ Cardinality(Below(Nth(K, k))) = k
  <2> TAKE k \in 1..N
  <2>1. \E i \in K : Cardinality(Below(i)) = k
    BY <1>10
  <2>2. \E i \in K : Cardinality({j \in K : j <= i}) = k
    BY <2>1 DEF Below
  <2>3. Nth(K, k) \in K /\ Cardinality({j \in K : j <= Nth(K, k)}) = k
    BY <2>2 DEF Nth
  <2>4. QED
    BY <2>3 DEF Below
<1>12. \A i \in K : \E k \in 1..N : Nth(K, k) = i
  <2> TAKE i \in K
  <2>1. Cardinality(Below(i)) \in 1..N
    BY <1>3
  <2>2. Nth(K, Cardinality(Below(i))) = i
    BY <1>5, <1>11, <2>1
  <2>3. QED
    BY <2>1, <2>2
<1>13. QED
  BY <1>2, <1>11, <1>12 DEF Below

LEMMA EntryFacts ==
  ASSUME entries \in Seq(Tunnels), NEW i \in Indices
  PROVE  entries[i] \in Tunnels /\ Id(i) \in Ids /\ i \in Nat /\ i \in 1..Len(entries)
<1>1. i \in 1..Len(entries) /\ i \in Nat
  BY DEF Indices
<1>2. entries[i] \in Tunnels
  BY <1>1
<1>3. QED
  BY <1>1, <1>2 DEF Id, Tunnels

(* What reap_dead and a finished drain leave: the entries whose ids are    *)
(* not dropped, each once.                                                 *)
LEMMA DropFacts ==
  ASSUME MemberShape, IdsOnce, NEW ids, Drop(ids)
  PROVE  /\ entries' \in Seq(Tunnels)
         /\ \A k \in Indices' : \E i \in Indices : entries'[k] = entries[i] /\ Id(i) \notin ids
         /\ \A i \in Indices : Id(i) \notin ids => \E k \in Indices' : entries'[k] = entries[i]
         /\ \A k, l \in Indices' : entries'[k].id = entries'[l].id => k = l
<1> DEFINE K == Kept(ids)
           N == Cardinality(K)
<1>1. entries \in Seq(Tunnels) /\ Len(entries) \in Nat
  BY DEF MemberShape
<1>2. K \in SUBSET (1..Len(entries))
  BY DEF Kept, Indices
<1>3. \A i : i \in K <=> i \in Indices /\ Id(i) \notin ids
  BY DEF Kept
<1>4. entries' = [k \in 1..N |-> entries[Nth(K, k)]]
  BY DEF Drop
<1> HIDE DEF K
<1>5. /\ N \in Nat
      /\ \A k \in 1..N : Nth(K, k) \in K /\ Cardinality({j \in K : j <= Nth(K, k)}) = k
      /\ \A i \in K : \E k \in 1..N : Nth(K, k) = i
  BY <1>1, <1>2, RankFacts
<1> HIDE DEF N
<1>6. \A k \in 1..N : entries[Nth(K, k)] \in Tunnels
  BY <1>1, <1>3, <1>5, EntryFacts
<1>7. entries' \in Seq(Tunnels) /\ Len(entries') = N
  BY <1>4, <1>5, <1>6
<1>8. Indices' = 1..N
  BY <1>7 DEF Indices
<1>9. \A k \in Indices' : \E i \in Indices : entries'[k] = entries[i] /\ Id(i) \notin ids
  BY <1>3, <1>4, <1>5, <1>8
<1>10. \A i \in Indices : Id(i) \notin ids => \E k \in Indices' : entries'[k] = entries[i]
  BY <1>3, <1>4, <1>5, <1>8
<1>11. ASSUME NEW k \in Indices', NEW l \in Indices', entries'[k].id = entries'[l].id PROVE k = l
  <2>1. Nth(K, k) \in Indices /\ Nth(K, l) \in Indices
    BY <1>3, <1>5, <1>8
  <2>2. Id(Nth(K, k)) = Id(Nth(K, l))
    BY <1>4, <1>8, <1>11 DEF Id
  <2>3. Nth(K, k) = Nth(K, l)
    BY <2>1, <2>2 DEF IdsOnce
  <2>4. k = Cardinality({j \in K : j <= Nth(K, k)}) /\ l = Cardinality({j \in K : j <= Nth(K, l)})
    BY <1>5, <1>8
  <2>5. QED
    BY <2>3, <2>4
<1>12. QED
  BY <1>7, <1>9, <1>10, <1>11

-----------------------------------------------------------------------------
(* What was lost stays paid for.                                           *)
LEMMA LostFacts ==
  ASSUME MemberInv PROVE Lost \subseteq 1..born /\ IsFiniteSet(Lost) /\ Cardinality(Lost) \in Nat
<1>1. born \in Nat
  BY Numbers DEF MemberInv, MemberShape
<1>2. Lost \in SUBSET (1..born)
  BY DEF Lost, MemberInv, IdsOnce
<1>3. IsFiniteSet(1..born)
  BY <1>1, FS_Interval
<1>4. IsFiniteSet(Lost)
  BY <1>2, <1>3, FS_Subset
<1>5. QED
  BY <1>2, <1>4, FS_CardinalityType

LEMMA PaidStays == ASSUME MemberInv, Lost' \subseteq Lost, spares' = spares PROVE Paid'
<1>1. IsFiniteSet(Lost) /\ Cardinality(Lost) \in Nat
  BY LostFacts
<1>2. Cardinality(Lost') <= Cardinality(Lost) /\ Cardinality(Lost') \in Nat
  BY <1>1, FS_Subset, FS_CardinalityType
<1>3. Cardinality(Lost) + spares <= Spares /\ spares \in Nat /\ Spares \in Nat
  BY Numbers DEF MemberInv, Paid, MemberShape
<1>4. Cardinality(Lost') + spares' <= Spares
  BY <1>1, <1>2, <1>3
<1>5. QED
  BY <1>4 DEF Paid

LEMMA PaidMore ==
  ASSUME MemberInv, NEW t, Lost' \subseteq Lost \cup {t}, spares > 0, spares' = spares - 1
  PROVE  Paid'
<1>1. IsFiniteSet(Lost) /\ Cardinality(Lost) \in Nat
  BY LostFacts
<1>2. IsFiniteSet(Lost \cup {t}) /\ Cardinality(Lost \cup {t}) <= Cardinality(Lost) + 1
  <2>1. /\ IsFiniteSet(Lost \cup {t})
        /\ Cardinality(Lost \cup {t}) = IF t \in Lost THEN Cardinality(Lost) ELSE Cardinality(Lost) + 1
    BY <1>1, FS_AddElement
  <2>2. QED
    BY <1>1, <2>1
<1>3. /\ Cardinality(Lost') <= Cardinality(Lost \cup {t})
      /\ Cardinality(Lost') \in Nat /\ Cardinality(Lost \cup {t}) \in Nat
  BY <1>2, FS_Subset, FS_CardinalityType
<1>4. Cardinality(Lost) + spares <= Spares /\ spares \in Nat /\ Spares \in Nat
  BY Numbers DEF MemberInv, Paid, MemberShape
<1>5. Cardinality(Lost') + spares' <= Spares
  BY <1>1, <1>2, <1>3, <1>4
<1>6. QED
  BY <1>5 DEF Paid

LEMMA MembersStay ==
  ASSUME MemberInv, UNCHANGED <<entries, handover, up, alive, born, spares>> PROVE MemberInv'
  BY DEF MemberInv, MemberShape, IdsOnce, UpIsHeld, Paid, Lost, EntryIds, Indices, Id, DrainedByHandover

(* Steps that leave every entry its id.                                    *)
LEMMA RelabelKeeps ==
  ASSUME MemberInv, MemberShape', UNCHANGED born, Len(entries') = Len(entries),
         \A i \in Indices : entries'[i].id = entries[i].id,
         handover'.phase = "draining" => handover'.id \in 1..born,
         \A t \in Ids : up'[t] => up[t] /\ alive'[t], Paid', DrainedByHandover'
  PROVE  MemberInv'
<1>1. Indices' = Indices
  BY DEF Indices
<1>2. \A i \in Indices : Id(i)' = Id(i)
  BY DEF Id
<1>3. EntryIds' = EntryIds
  BY <1>1, <1>2 DEF EntryIds
<1>4. IdsOnce'
  BY <1>1, <1>2 DEF MemberInv, IdsOnce
<1>5. UpIsHeld'
  BY <1>3 DEF MemberInv, UpIsHeld
<1>6. QED
  BY <1>4, <1>5 DEF MemberInv

LEMMA AliveFalls ==
  ASSUME MemberInv, NEW t \in Ids, ~up[t], alive' = [alive EXCEPT ![t] = FALSE],
         UNCHANGED <<entries, handover, up, born, spares>>
  PROVE  MemberInv'
<1> USE DEF MemberInv
<1>1. MemberShape'
  BY DEF MemberShape
<1>2. \A x \in Ids : up'[x] => up[x] /\ alive'[x]
  BY DEF UpIsHeld, MemberShape
<1>3. Paid' /\ DrainedByHandover'
  BY DEF Paid, Lost, DrainedByHandover, Indices, Id
<1>4. QED
  BY <1>1, <1>2, <1>3, RelabelKeeps DEF IdsOnce

LEMMA UpFalls ==
  ASSUME MemberInv, NEW t \in Ids, spares > 0, spares' = spares - 1, up' = [up EXCEPT ![t] = FALSE],
         UNCHANGED <<entries, handover, alive, born>>
  PROVE  MemberInv'
<1> USE DEF MemberInv
<1>1. MemberShape'
  BY Numbers DEF MemberShape
<1>2. \A x \in Ids : up'[x] => up[x] /\ alive'[x]
  BY DEF UpIsHeld, MemberShape
<1>3. DrainedByHandover'
  BY DEF DrainedByHandover, Indices, Id
<1>4. 1..born \subseteq Ids
  BY Numbers DEF MemberShape, Ids
<1>5. Lost' \subseteq Lost \cup {t}
  BY <1>4 DEF Lost, MemberShape
<1>6. Paid'
  BY <1>5, PaidMore
<1>7. QED
  BY <1>1, <1>2, <1>3, <1>6, RelabelKeeps DEF IdsOnce

(* A handover begins: the one tunnel it drains is out of service.          *)
LEMMA BeginHandoverKeeps ==
  ASSUME MemberInv, NEW c \in Carriers, BeginHandover(c, Other(c)), UNCHANGED <<up, alive, born>>
  PROVE  MemberInv'
<1> USE DEF MemberInv
<1>1. PICK i \in Indices :
        /\ entries' = [entries EXCEPT ![i].phase = "draining"]
        /\ handover' = [phase |-> "draining", id |-> Id(i), target |-> Other(c), late |-> FALSE]
  BY DEF BeginHandover
<1>2. handover = NoHandover /\ spares > 0 /\ spares' = spares - 1
  BY DEF BeginHandover
<1>3. entries \in Seq(Tunnels) /\ entries[i] \in Tunnels /\ Id(i) \in Ids /\ i \in 1..Len(entries)
  BY EntryFacts DEF MemberShape
<1> DEFINE e == [entries[i] EXCEPT !.phase = "draining"]
<1>4. e \in Tunnels /\ e.id = entries[i].id /\ e.phase = "draining"
  BY <1>3 DEF Tunnels
<1>5. entries' = [entries EXCEPT ![i] = e]
  BY <1>1
<1> HIDE DEF e
<1>6. /\ entries' \in Seq(Tunnels) /\ Len(entries') = Len(entries) /\ entries'[i] = e
      /\ \A j \in Indices : j # i => entries'[j] = entries[j]
  BY <1>3, <1>4, <1>5 DEF Indices
<1>7. \A j \in Indices : entries'[j].id = entries[j].id
  BY <1>4, <1>6
<1>8. Other(c) \in Carriers
  BY DEF Other, Carriers
<1>9. MemberShape'
  BY <1>1, <1>2, <1>3, <1>6, <1>8, Numbers DEF MemberShape
<1>10. Indices' = Indices /\ \A j \in Indices : Id(j)' = Id(j)
  BY <1>6, <1>7 DEF Indices, Id
<1>11. \A j \in Indices : entries[j].phase # "draining"
  BY <1>2 DEF DrainedByHandover, NoHandover
<1>12. handover'.phase = "draining" /\ handover'.id = Id(i)
  BY <1>1
<1>13. DrainedByHandover'
  BY <1>4, <1>6, <1>10, <1>11, <1>12 DEF DrainedByHandover, IdsOnce
<1>14. Id(i) \in 1..born
  BY <1>3, Numbers DEF IdsOnce, MemberShape, Ids
<1>15. Lost' \subseteq Lost \cup {Id(i)}
  BY <1>12 DEF Lost
<1>16. Paid'
  BY <1>2, <1>15, PaidMore
<1>17. QED
  BY <1>6, <1>7, <1>9, <1>12, <1>13, <1>14, <1>16, RelabelKeeps DEF UpIsHeld

LEMMA HandoverLateKeeps == ASSUME MemberInv, HandoverLate PROVE MemberInv'
<1> USE DEF MemberInv
<1>1. UNCHANGED <<entries, up, alive, born, spares>>
  BY DEF HandoverLate, slotVars
<1>2. /\ handover' \in [phase : {"none", "draining", "dialing"}, id : Ids \cup {0},
                         target : Carriers, late : BOOLEAN]
      /\ handover'.phase = handover.phase /\ handover'.id = handover.id
  BY DEF HandoverLate, MemberShape
<1>3. MemberShape' /\ DrainedByHandover' /\ Paid'
  BY <1>1, <1>2 DEF MemberShape, DrainedByHandover, Indices, Id, Paid, Lost
<1>4. QED
  BY <1>1, <1>2, <1>3, RelabelKeeps DEF IdsOnce, UpIsHeld

(* A handover that is called off puts its tunnel back in service.          *)
LEMMA CallOffKeeps ==
  ASSUME MemberInv, CallOff, UNCHANGED <<alive, born, spares>>
  PROVE  MemberInv'
<1> USE DEF MemberInv
<1>1. handover' = NoHandover /\ UNCHANGED up
  BY DEF CallOff
<1> DEFINE New(i) == IF handover.phase = "draining" /\ Id(i) = handover.id
                     THEN [entries[i] EXCEPT !.phase = "serving"] ELSE entries[i]
<1>2. entries' = [i \in Indices |-> New(i)]
  BY DEF CallOff
<1>3. \A i \in Indices : New(i) \in Tunnels /\ New(i).id = entries[i].id /\ New(i).phase = "serving"
  <2> TAKE i \in Indices
  <2>1. entries[i] \in Tunnels
    BY EntryFacts DEF MemberShape
  <2>2. entries[i].phase = "draining" <=> handover.phase = "draining" /\ handover.id = Id(i)
    BY DEF DrainedByHandover
  <2>3. QED
    BY <2>1, <2>2 DEF Tunnels
<1> HIDE DEF New
<1>4. Len(entries) \in Nat /\ Indices = 1..Len(entries)
  BY DEF MemberShape, Indices
<1>5. entries' \in Seq(Tunnels) /\ Len(entries') = Len(entries)
  BY <1>2, <1>3, <1>4
<1>6. \A i \in Indices : entries'[i].id = entries[i].id /\ entries'[i].phase = "serving"
  BY <1>2, <1>3
<1>7. Indices' = Indices
  BY <1>5 DEF Indices
<1>8. handover'.phase = "none"
  BY <1>1 DEF NoHandover
<1>9. MemberShape'
  BY <1>1, <1>5 DEF MemberShape, NoHandover, Carriers
<1>10. DrainedByHandover'
  BY <1>6, <1>7, <1>8 DEF DrainedByHandover
<1>11. Lost' \subseteq Lost
  BY <1>1, <1>8 DEF Lost
<1>12. Paid'
  BY <1>11, PaidStays
<1>13. QED
  BY <1>1, <1>5, <1>6, <1>8, <1>9, <1>10, <1>12, RelabelKeeps DEF UpIsHeld

(* Dropping tunnels that are dead, or the one that was drained.            *)
LEMMA DropKeeps ==
  ASSUME MemberInv, NEW ids, Drop(ids), UNCHANGED <<alive, born, spares>>,
         \A t \in ids \cap Ids : ~up[t] \/ (handover.phase = "draining" /\ handover.id = t),
         handover' \in [phase : {"none", "draining", "dialing"}, id : Ids \cup {0},
                        target : Carriers, late : BOOLEAN],
         \/ UNCHANGED handover
         \/ /\ handover'.phase # "draining"
            /\ handover.phase = "draining" => handover.id \in ids
  PROVE  MemberInv'
<1> USE DEF MemberInv
<1>1. /\ entries' \in Seq(Tunnels)
      /\ \A k \in Indices' : \E i \in Indices : entries'[k] = entries[i] /\ Id(i) \notin ids
      /\ \A i \in Indices : Id(i) \notin ids => \E k \in Indices' : entries'[k] = entries[i]
      /\ \A k, l \in Indices' : entries'[k].id = entries'[l].id => k = l
  BY DropFacts
<1>2. up' = [t \in Ids |-> up[t] /\ t \notin ids]
  BY DEF Drop
<1>3. MemberShape'
  BY <1>1, <1>2 DEF MemberShape
<1>4. IdsOnce'
  <2>1. \A k \in Indices' : entries'[k].id <= born
    BY <1>1 DEF IdsOnce, Id
  <2>2. handover'.phase = "draining" => handover'.id \in 1..born
    BY DEF IdsOnce
  <2>3. QED
    BY <1>1, <2>1, <2>2 DEF IdsOnce, Id
<1>5. UpIsHeld'
  <2>1. ASSUME NEW t \in Ids, up'[t] PROVE \E k \in Indices' : entries'[k].id = t
    <3>1. up[t] /\ t \notin ids
      BY <1>2, <2>1
    <3>2. PICK i \in Indices : Id(i) = t
      BY <3>1 DEF UpIsHeld, EntryIds
    <3>3. QED
      BY <1>1, <3>1, <3>2 DEF Id
  <2>2. \A t \in Ids : up'[t] => alive'[t]
    BY <1>2 DEF UpIsHeld
  <2>3. QED
    BY <2>1, <2>2 DEF UpIsHeld, EntryIds, Id
<1>6. Paid'
  <2>1. 1..born \subseteq Ids
    BY Numbers DEF MemberShape, Ids
  <2>2. ASSUME NEW t \in 1..born, ~up'[t] PROVE t \in Lost
    <3>1. t \in Ids /\ (~up[t] \/ t \in ids)
      BY <1>2, <2>1, <2>2
    <3>2. QED
      BY <3>1 DEF Lost
  <2>3. handover'.phase = "draining" => handover'.id \in Lost
    BY DEF Lost
  <2>4. Lost' \subseteq Lost
    BY <2>2, <2>3 DEF Lost
  <2>5. QED
    BY <2>4, PaidStays
<1>7. DrainedByHandover'
  <2> SUFFICES ASSUME NEW k \in Indices'
               PROVE  entries'[k].phase = "draining"
                        <=> handover'.phase = "draining" /\ handover'.id = entries'[k].id
    BY DEF DrainedByHandover, Id
  <2>1. PICK i \in Indices : entries'[k] = entries[i] /\ Id(i) \notin ids
    BY <1>1
  <2>2. entries[i].phase = "draining" <=> handover.phase = "draining" /\ handover.id = entries[i].id
    BY DEF DrainedByHandover, Id
  <2>3. QED
    BY <2>1, <2>2 DEF Id
<1>8. QED
  BY <1>3, <1>4, <1>5, <1>6, <1>7

(* There is room for the id of the tunnel that is missing.                 *)
LEMMA RoomForOne == ASSUME MemberInv, Len(entries) < Count PROVE born + 1 \in Ids
<1> USE DEF MemberInv
<1>1. born \in Nat /\ Len(entries) \in Nat /\ Count \in Nat /\ Spares \in Nat /\ spares \in Nat
  BY Numbers DEF MemberShape
<1>2. 1..born \subseteq Ids
  BY Numbers DEF MemberShape, Ids
<1> DEFINE f == [i \in 1..Len(entries) |-> Id(i)]
<1>3. IsFiniteSet(1..Len(entries)) /\ Cardinality(1..Len(entries)) = Len(entries)
  <2> DEFINE n == Len(entries)
  <2>1. n \in Nat
    BY <1>1
  <2> HIDE DEF n
  <2>2. IsFiniteSet(1..n) /\ Cardinality(1..n) = n
    BY <2>1, FS_Interval
  <2>3. QED
    BY <2>2 DEF n
<1>4. f \in Surjection(1..Len(entries), EntryIds)
  BY DEF Surjection, EntryIds, Indices
<1>5. IsFiniteSet(EntryIds) /\ Cardinality(EntryIds) <= Len(entries)
  BY <1>3, <1>4, FS_Surjection
<1>6. Cardinality(EntryIds) \in Nat
  BY <1>5, FS_CardinalityType
<1>7. 1..born \subseteq EntryIds \cup Lost
  BY <1>2 DEF UpIsHeld, Lost
<1>8. IsFiniteSet(Lost) /\ Cardinality(Lost) \in Nat /\ Cardinality(Lost) <= Spares
  BY <1>1, LostFacts DEF Paid
<1>9. /\ IsFiniteSet(EntryIds \cup Lost)
      /\ Cardinality(EntryIds \cup Lost) = Cardinality(EntryIds) + Cardinality(Lost) - Cardinality(EntryIds \cap Lost)
  BY <1>5, <1>8, FS_Union
<1>10. Cardinality(EntryIds \cap Lost) \in Nat
  <2>1. IsFiniteSet(EntryIds \cap Lost)
    BY <1>5, FS_Subset
  <2>2. QED
    BY <2>1, FS_CardinalityType
<1>11. Cardinality(1..born) = born
  BY <1>1, FS_Interval
<1>12. Cardinality(1..born) <= Cardinality(EntryIds \cup Lost)
  BY <1>7, <1>9, FS_Subset
<1>13. born <= Len(entries) + Spares
  BY <1>1, <1>5, <1>6, <1>8, <1>9, <1>10, <1>11, <1>12
<1>14. QED
  BY <1>1, <1>13 DEF Ids

(* The tunnel that joins has a new id, and drains for nobody.              *)
LEMMA DialOkKeeps == ASSUME MemberInv, CountShape, DialOk PROVE MemberInv'
<1> USE DEF MemberInv
<1>1. CASE Len(entries) >= Count
  BY <1>1, MembersStay DEF DialOk
<1>2. CASE ~(Len(entries) >= Count)
  <2> DEFINE id == born + 1
             e == Entry(id, dial.wanted)
             n == Len(entries) + 1
  <2>1. entries \in Seq(Tunnels) /\ Len(entries) \in Nat /\ born \in Nat /\ Count \in Nat
    BY Numbers DEF MemberShape
  <2>2. id \in Ids
    BY <1>2, <2>1, RoomForOne
  <2>3. e \in Tunnels /\ e.id = id /\ e.phase = "serving"
    BY <2>2 DEF Entry, Tunnels, CountShape
  <2>4. /\ entries' = Append(entries, e) /\ born' = id /\ UNCHANGED spares
        /\ up' = [up EXCEPT ![id] = TRUE] /\ alive' = [alive EXCEPT ![id] = TRUE]
        /\ handover' \in {NoHandover, handover}
        /\ handover.phase # "dialing" => handover' = handover
    BY <1>2 DEF DialOk
  <2> HIDE DEF e
  <2>5. /\ entries' \in Seq(Tunnels) /\ Len(entries') = n /\ entries'[n] = e
        /\ \A i \in 1..Len(entries) : entries'[i] = entries[i]
    BY <2>1, <2>3, <2>4
  <2>6. Indices' = Indices \cup {n} /\ Indices = 1..Len(entries) /\ n \notin Indices
    BY <2>1, <2>5 DEF Indices
  <2>7. NoHandover \in [phase : {"none", "draining", "dialing"}, id : Ids \cup {0},
                        target : Carriers, late : BOOLEAN] /\ NoHandover.phase = "none"
    BY DEF NoHandover, Carriers
  <2>8. MemberShape'
    BY <2>2, <2>4, <2>5, <2>7 DEF MemberShape
  <2>9. handover'.phase = "draining" <=> handover.phase = "draining"
    BY <2>4, <2>7
  <2>10. handover'.phase = "draining" => handover' = handover /\ handover'.id \in 1..born
    BY <2>4, <2>7, <2>9 DEF IdsOnce
  <2>11. \A i \in Indices : entries'[i] = entries[i] /\ entries[i].id <= born /\ entries[i].id \in Nat
    <3> TAKE i \in Indices
    <3>1. Id(i) \in Ids /\ Id(i) <= born
      BY <2>1, EntryFacts DEF IdsOnce
    <3>2. QED
      BY <2>5, <2>6, <3>1, Numbers DEF Id
  <2>12. IdsOnce'
    <3>1. \A i, j \in Indices' : entries'[i].id = entries'[j].id => i = j
      <4>1. entries'[n].id = born + 1
        BY <2>3, <2>5
      <4>2. \A i \in Indices : entries'[i].id # born + 1
        BY <2>1, <2>11
      <4>3. \A i, j \in Indices : entries'[i].id = entries'[j].id => i = j
        BY <2>11 DEF IdsOnce, Id
      <4>4. QED
        BY <2>6, <4>1, <4>2, <4>3
    <3>2. \A i \in Indices' : entries'[i].id <= born'
      BY <2>1, <2>3, <2>4, <2>5, <2>6, <2>11
    <3>3. handover'.phase = "draining" => handover'.id \in 1..born'
      BY <2>1, <2>4, <2>10
    <3>4. QED
      BY <3>1, <3>2, <3>3 DEF IdsOnce, Id
  <2>13. UpIsHeld'
    <3> SUFFICES ASSUME NEW t \in Ids, up'[t]
                 PROVE  alive'[t] /\ \E k \in Indices' : entries'[k].id = t
      BY DEF UpIsHeld, EntryIds, Id
    <3>1. CASE t = id
      BY <2>2, <2>3, <2>4, <2>5, <2>6, <3>1 DEF MemberShape
    <3>2. CASE t # id
      <4>1. up[t] /\ alive'[t] = alive[t]
        BY <2>4, <3>2 DEF MemberShape
      <4>2. PICK i \in Indices : entries[i].id = t
        BY <4>1 DEF UpIsHeld, EntryIds, Id
      <4>3. QED
        BY <2>6, <2>11, <4>1, <4>2 DEF UpIsHeld
    <3>3. QED
      BY <3>1, <3>2
  <2>14. Lost' \subseteq Lost
    <3>1. ASSUME NEW t \in 1..born', ~up'[t] PROVE t \in 1..born /\ ~up[t]
      <4>1. t # id /\ t \in 1..born /\ t \in Ids
        <5>1. t \in 1..(born + 1) /\ up'[born + 1] = TRUE
          BY <2>2, <2>4, <3>1 DEF MemberShape
        <5>2. t \in Ids
          BY <2>1, <2>2, <5>1, Numbers DEF Ids
        <5>3. QED
          BY <2>1, <3>1, <5>1, <5>2
      <4>2. QED
        BY <2>4, <3>1, <4>1 DEF MemberShape
    <3>2. QED
      BY <2>10, <3>1 DEF Lost
  <2>15. Paid'
    BY <2>4, <2>14, PaidStays
  <2>16. DrainedByHandover'
    <3> SUFFICES ASSUME NEW k \in Indices'
                 PROVE  entries'[k].phase = "draining"
                          <=> handover'.phase = "draining" /\ handover'.id = entries'[k].id
      BY DEF DrainedByHandover, Id
    <3>1. CASE k = n
      BY <2>1, <2>3, <2>5, <2>10, <3>1
    <3>2. CASE k \in Indices
      BY <2>9, <2>10, <2>11, <3>2 DEF DrainedByHandover, Id
    <3>3. QED
      BY <2>6, <3>1, <3>2
  <2>17. QED
    BY <2>8, <2>12, <2>13, <2>15, <2>16
<1>3. QED
  BY <1>1, <1>2

(* The dialing open goes on to its first look; it held no tunnel.          *)
LEMMA DialerCounts ==
  ASSUME CountInv, DialerResumes, dial' = NoDial, UNCHANGED <<streams, pending>>
  PROVE  CountInv'
<1> USE DEF CountInv, CountShape
<1>1. dial' \in [by : Task \cup {"nobody"}, wanted : Carriers] /\ dial'.by = "nobody"
  BY DEF NoDial, Carriers
<1>2. DialerWaits'
  BY <1>1, PoolAssumption DEF DialerWaits
<1>3. op' = [o \in Openers |-> IF o = dial.by THEN [op[o] EXCEPT !.pc = "look"] ELSE op[o]]
  BY DEF DialerResumes
<1>4. CASE dial.by \in Openers
  <2> DEFINE o == dial.by
             r == [op[o] EXCEPT !.pc = "look"]
  <2>1. op[o] \in Opens /\ op[o].pc = "grow"
    BY <1>4 DEF DialerWaits
  <2>2. r \in Opens /\ r.pc = "look"
    BY <2>1, PcField
  <2>3. op' = [op EXCEPT ![o] = r]
    BY <1>3, <1>4
  <2> HIDE DEF r, o
  <2>4. o \in Openers
    BY <1>4 DEF o
  <2>5. \A t \in Ids : pending'[t] \in Nat /\ pending'[t] >= pending[t]
    BY PendingStays
  <2>6. Charged'
    BY <2>1, <2>2, <2>3, <2>4, <2>5, MovesFree DEF Free
  <2>7. CountShape' /\ Placed'
    BY <1>1, <2>2, <2>3 DEF Placed
  <2>8. QED
    BY <1>2, <2>6, <2>7
<1>5. CASE dial.by \notin Openers
  <2>1. op' = op
    BY <1>3, <1>5
  <2>2. CountShape' /\ Placed'
    BY <1>1, <2>1 DEF Placed
  <2>3. Charged'
    BY <2>1 DEF Charged, On
  <2>4. QED
    BY <1>2, <2>2, <2>3
<1>6. QED
  BY <1>4, <1>5

-----------------------------------------------------------------------------
(* The steps.                                                              *)
LEMMA OpenerKeeps ==
  ASSUME PoolInv, NEW o \in Openers, StartOpen(o) \/ Step(o) \/ OpenTooMany(o) \/ DropLease(o)
  PROVE  PoolInv'
<1> USE DEF PoolInv
<1>1. MemberShape
  BY DEF MemberInv
<1>2. CountInv'
  BY <1>1, StartOpenCounts, ColdGrowCounts, FirstLookCounts, SecondLookCounts, LaterLookCounts,
     OpenOkCounts, ChargeCounts, OpenFailsCounts, DropLeaseCounts DEF Step
<1>3. op[o].pc = "open" => op[o].tun \in Ids
  BY DEF CountInv, Placed
<1>4. MemberInv'
  <2>1. CASE OpenClosed(o)
    BY <1>3, <2>1, AliveFalls DEF OpenClosed, OpenerAt, openerVars
  <2>2. CASE OpenTooMany(o)
    BY <1>3, <2>2, UpFalls DEF OpenTooMany, OpenerAt
  <2>3. CASE ~OpenClosed(o) /\ ~OpenTooMany(o)
    <3>1. UNCHANGED <<entries, handover, up, alive, born, spares>>
      BY <2>3 DEF Step, StartOpen, ColdGrow, FirstLook, SecondLook, LastLook, OpenOk, ChargeTunnel,
         Retry, DropLease, openerVars, slotVars
    <3>2. QED
      BY <3>1, MembersStay
  <2>4. QED
    BY <2>1, <2>2, <2>3
<1>5. RestShape'
  <2>1. UNCHANGED maint
    BY DEF Step, StartOpen, ColdGrow, FirstLook, SecondLook, LastLook, OpenOk, ChargeTunnel,
       Retry, DropLease, OpenClosed, OpenTooMany, openerVars
  <2>2. hold' \in BOOLEAN
    BY DEF RestShape, Step, StartOpen, ColdGrow, BeginGrow, FirstLook, SecondLook, LastLook, OpenOk,
       ChargeTunnel, Retry, DropLease, OpenClosed, OpenTooMany, openerVars
  <2>3. QED
    BY <2>1, <2>2 DEF RestShape
<1>6. QED
  BY <1>2, <1>4, <1>5

LEMMA TickKeeps == ASSUME PoolInv, Tick PROVE PoolInv'
<1> USE DEF PoolInv
<1>1. CountInv' /\ RestShape'
  BY CountersStay DEF Tick, slotVars, RestShape
<1>2. MemberInv'
  BY MembersStay, BeginHandoverKeeps DEF Tick, slotVars
<1>3. QED
  BY <1>1, <1>2

(* A dead tunnel no longer works.                                          *)
LEMMA ReapDeadKeeps == ASSUME PoolInv, ReapDead PROVE PoolInv'
<1> USE DEF PoolInv
<1> DEFINE dead == {Id(i) : i \in {j \in Indices : ~alive[Id(j)]}}
<1>1. Drop(dead) /\ hold' = (hold /\ dead = {}) /\ maint' = "handover"
  BY DEF ReapDead
<1>2. UNCHANGED <<handover, alive, streams, pending, dial, op, born, spares>>
  BY DEF ReapDead
<1>3. CountInv' /\ RestShape'
  BY <1>1, <1>2, CountersStay DEF RestShape
<1>4. \A t \in dead \cap Ids : ~up[t]
  BY DEF MemberInv, UpIsHeld
<1> HIDE DEF dead
<1>5. MemberInv'
  BY <1>1, <1>2, <1>4, DropKeeps DEF MemberInv, MemberShape
<1>6. QED
  BY <1>3, <1>5

LEMMA HandoverStepKeeps == ASSUME PoolInv, HandoverStep PROVE PoolInv'
<1> USE DEF PoolInv
<1> DEFINE t == handover.id
           Kinds == [phase : {"none", "draining", "dialing"}, id : Ids \cup {0},
                     target : Carriers, late : BOOLEAN]
<1>1. /\ maint' = "repair" /\ UNCHANGED <<alive, streams, pending, dial, op, born, spares>>
  BY DEF HandoverStep
<1>2. hold' \in BOOLEAN
  BY DEF HandoverStep, CallOff, RestShape
<1>3. CountInv' /\ RestShape'
  BY <1>1, <1>2, CountersStay DEF RestShape
<1>4. handover \in Kinds /\ NoHandover \in Kinds /\ NoHandover.phase = "none"
  BY DEF MemberInv, MemberShape, NoHandover, Carriers
<1>5. MemberInv'
  <2>1. CASE UNCHANGED <<entries, handover, up, hold>>
    BY <1>1, <2>1, MembersStay
  <2>2. CASE CallOff
    BY <1>1, <2>2, CallOffKeeps
  <2>3. CASE /\ handover.phase = "draining" /\ ~\E i \in Indices : Id(i) = t
             /\ handover' = NoHandover /\ UNCHANGED <<entries, up, hold>>
    <3>1. \A i \in Indices : entries[i].phase # "draining"
      BY <2>3 DEF MemberInv, DrainedByHandover
    <3>2. handover'.phase = "none"
      BY <1>4, <2>3
    <3>3. MemberShape' /\ DrainedByHandover'
      BY <1>1, <1>4, <2>3, <3>1, <3>2 DEF MemberInv, MemberShape, DrainedByHandover, Indices
    <3>4. Lost' \subseteq Lost
      BY <1>1, <2>3, <3>2 DEF Lost
    <3>5. Paid'
      BY <1>1, <3>4, PaidStays
    <3>6. QED
      BY <1>1, <2>3, <3>2, <3>3, <3>5, RelabelKeeps DEF MemberInv, UpIsHeld
  <2>4. CASE handover' = NoHandover /\ Drop({t}) /\ handover.phase = "draining"
    BY <1>1, <1>4, <2>4, DropKeeps
  <2>5. CASE /\ handover' = [handover EXCEPT !.phase = "dialing", !.late = FALSE]
             /\ Drop({t}) /\ handover.phase = "draining"
    <3>1. handover' \in Kinds /\ handover'.phase = "dialing"
      BY <1>4, <2>5
    <3>2. QED
      BY <1>1, <2>5, <3>1, DropKeeps
  <2>6. handover.phase \in {"none", "dialing", "draining"}
    BY <1>4
  <2>7. QED
    BY <2>1, <2>2, <2>3, <2>4, <2>5, <2>6 DEF HandoverStep
<1>6. QED
  BY <1>3, <1>5

LEMMA RepairKeeps == ASSUME PoolInv, Repair PROVE PoolInv'
<1> USE DEF PoolInv
<1>1. MemberInv'
  BY MembersStay DEF Repair, slotVars
<1>2. UNCHANGED <<op, streams, pending>>
  BY DEF Repair, slotVars
<1>3. UNCHANGED dial \/ dial' \in [by : {"maintenance"}, wanted : Carriers]
  <2>1. Wanted \subseteq Carriers
    BY DEF Wanted, MemberInv, MemberShape
  <2>2. QED
    BY <2>1 DEF Repair, BeginGrow
<1>4. CountInv'
  <2>1. CASE UNCHANGED dial
    BY <1>2, <2>1, CountersStay
  <2>2. CASE dial' \in [by : {"maintenance"}, wanted : Carriers]
    <3>1. dial' \in [by : Task \cup {"nobody"}, wanted : Carriers] /\ dial'.by \notin Openers
      BY <2>2, PoolAssumption DEF Task
    <3>2. CountShape' /\ Placed' /\ DialerWaits'
      BY <1>2, <3>1 DEF CountInv, CountShape, Placed, DialerWaits
    <3>3. Charged'
      BY <1>2 DEF CountInv, Charged, On
    <3>4. QED
      BY <3>2, <3>3 DEF CountInv
  <2>3. QED
    BY <1>3, <2>1, <2>2
<1>5. RestShape'
  BY DEF RestShape, Repair, BeginGrow
<1>6. QED
  BY <1>1, <1>4, <1>5

LEMMA DialKeeps == ASSUME PoolInv, DialOk \/ DialFails PROVE PoolInv'
<1> USE DEF PoolInv
<1>1. DialerResumes /\ dial' = NoDial /\ UNCHANGED <<streams, pending>>
  BY DEF DialOk, DialFails, slotVars
<1>2. CountInv'
  BY <1>1, DialerCounts
<1>3. MemberInv'
  <2>1. CASE DialOk
    BY <2>1, DialOkKeeps DEF CountInv
  <2>2. CASE DialFails
    BY <2>2, MembersStay DEF DialFails, slotVars
  <2>3. QED
    BY <2>1, <2>2
<1>4. RestShape'
  BY <1>1 DEF RestShape, DialOk, DialFails, DialerResumes
<1>5. QED
  BY <1>2, <1>3, <1>4

LEMMA AroundKeeps ==
  ASSUME PoolInv, HoldExpires \/ HandoverLate \/ \E t \in Ids : ConnectionFails(t) \/ DriverExits(t)
  PROVE  PoolInv'
<1> USE DEF PoolInv
<1>1. CountInv'
  BY CountersStay DEF HoldExpires, HandoverLate, ConnectionFails, DriverExits, slotVars
<1>2. RestShape'
  BY DEF RestShape, HoldExpires, HandoverLate, ConnectionFails, DriverExits
<1>3. MemberInv'
  <2>1. CASE HoldExpires
    BY <2>1, MembersStay DEF HoldExpires, slotVars
  <2>2. CASE HandoverLate
    BY <2>2, HandoverLateKeeps
  <2>3. ASSUME NEW t \in Ids, ConnectionFails(t) PROVE MemberInv'
    BY <2>3, UpFalls DEF ConnectionFails
  <2>4. ASSUME NEW t \in Ids, DriverExits(t) PROVE MemberInv'
    BY <2>4, AliveFalls DEF DriverExits
  <2>5. QED
    BY <2>1, <2>2, <2>3, <2>4
<1>4. QED
  BY <1>1, <1>2, <1>3

LEMMA PoolStep == ASSUME PoolInv, [PoolNext]_poolVars PROVE PoolInv'
<1>1. CASE UNCHANGED poolVars
  BY <1>1, CountersStay, MembersStay DEF poolVars, PoolInv, RestShape
<1>2. CASE PoolNext
  BY <1>2, OpenerKeeps, TickKeeps, ReapDeadKeeps, HandoverStepKeeps, RepairKeeps, DialKeeps, AroundKeeps
     DEF PoolNext, Maintain
<1>3. QED
  BY <1>1, <1>2

(* At the start nothing is charged and every tunnel works.                 *)
LEMMA PoolInitial == PoolInit => PoolInv
<1> SUFFICES ASSUME PoolInit PROVE PoolInv
  OBVIOUS
<1>1. Count \in Nat /\ Spares \in Nat /\ 1..Count \subseteq Ids /\ Count \in Ids
  BY Numbers DEF Ids
<1>2. CountInv
  <2>1. CountShape
    BY IdleFacts DEF PoolInit, CountShape, NoDial, Carriers
  <2>2. Placed /\ DialerWaits
    BY IdleFacts, PoolAssumption DEF PoolInit, Placed, DialerWaits, Free, NoDial
  <2>3. \A t, W : W \in {{"lease"}, {"open", "charge"}} => CountOn(op, t, W) = 0
    <3> TAKE t, W
    <3> HAVE W \in {{"lease"}, {"open", "charge"}}
    <3>1. {x \in Openers : Counts(op[x], t, W)} = {}
      BY IdleFacts DEF PoolInit, Counts
    <3>2. QED
      BY <3>1, FS_EmptySet DEF CountOn
  <2>4. Charged
    BY <2>3, ChargedMeans DEF PoolInit
  <2>5. QED
    BY <2>1, <2>2, <2>4 DEF CountInv
<1>3. \A i \in 1..Count : Entry(i, PoolCarrier) \in Tunnels /\ Entry(i, PoolCarrier).id = i
                          /\ Entry(i, PoolCarrier).phase = "serving"
  BY <1>1 DEF Entry, PoolCarrier, Tunnels, Carriers
<1>4. entries \in Seq(Tunnels) /\ Len(entries) = Count
  BY <1>1, <1>3 DEF PoolInit
<1>5. Indices = 1..Count /\ \A i \in Indices : Id(i) = i /\ entries[i].phase = "serving"
  BY <1>3, <1>4 DEF Indices, Id, PoolInit
<1>6. MemberShape
  BY <1>1, <1>4 DEF PoolInit, MemberShape, NoHandover, Carriers
<1>7. IdsOnce /\ DrainedByHandover
  BY <1>1, <1>5 DEF IdsOnce, DrainedByHandover, PoolInit, NoHandover
<1>8. UpIsHeld
  <2>1. \A t \in Ids : t <= Count => t \in Indices /\ Id(t) = t
    BY <1>1, <1>5 DEF Ids
  <2>2. \A t \in Ids : t <= Count => t \in EntryIds
    BY <2>1 DEF EntryIds
  <2>3. QED
    BY <2>2 DEF UpIsHeld, PoolInit
<1>9. Paid
  <2>1. Lost = {}
    <3>1. born = Count /\ handover.phase = "none" /\ up = [t \in Ids |-> t <= Count]
      BY DEF PoolInit, NoHandover
    <3>2. \A t \in 1..Count : up[t]
      <4> TAKE t \in 1..Count
      <4>1. t \in Ids /\ t <= Count
        BY <1>1
      <4>2. up[t] = (t <= Count)
        BY <3>1, <4>1
      <4>3. QED
        BY <4>1, <4>2
    <3>3. QED
      BY <3>1, <3>2 DEF Lost
  <2>2. QED
    BY <1>1, <2>1, FS_EmptySet DEF Paid, PoolInit
<1>10. RestShape
  BY DEF PoolInit, RestShape
<1>11. QED
  BY <1>2, <1>6, <1>7, <1>8, <1>9, <1>10 DEF PoolInv, MemberInv

(* open_avoiding, complete, reap_dead, handover_step and the repair tick:  *)
(* however opens, failures, repairs and handovers overlap, a tunnel is     *)
(* charged for each stream it carries and at least for the opens on their  *)
(* way to it, and is out of service exactly while a handover drains it.    *)
THEOREM PoolIsSafe == PoolSpec => []PoolSafe
<1>1. PoolInv => PoolSafe
  BY DEF PoolInv, CountInv, CountShape, MemberInv, MemberShape, RestShape, PoolSafe, PoolTypeOK,
     Tunnels, Opens
<1>2. QED
  BY <1>1, PoolInitial, PoolStep, PTL DEF PoolSpec
=============================================================================
