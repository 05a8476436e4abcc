------------------------- MODULE Transparent_proofs -------------------------
(***************************************************************************)
(* What is decided about carriers and lanes.                               *)
(*                                                                         *)
(* The lanes of a transparent claim, for any flows, any share and any      *)
(* number of lanes, faults and drains: every lane that runs holds one slot *)
(* at each end it runs at, and replacements stay within the share.         *)
(*                                                                         *)
(* The carrier rule: a switch is one that was earned.                      *)
(***************************************************************************)
EXTENDS LaneSet, CarrierRule, FiniteSetTheorems, FunctionTheorems, WellFoundedInduction, TLAPS

SlotTypes == [lane : 0..MaxLanes, drain : BOOLEAN, peer : BOOLEAN]
TabTypes == [on : BOOLEAN, wire : BOOLEAN, wide : Slots, slot : [Slots -> SlotTypes]]
LaneStates == {"none", "dial", "set", "run", "ended"}
AckStates == {"ready", "pending", "unknown", "cancelled"}
Answers == [cmd : AckStates, lane : Lanes]
Commands == [cmd : {"drain", "cancel"}, lane : Lanes]
Finds == [lane : Lanes, slot : Slots] \cup {NoneFound}

(* What the messages are; lanes are dialed in order, both ends at once;    *)
(* and a claim's entry t and its end's lanes n own each other.             *)
Shape == LaneTypeOK /\ toC \in Seq(Answers \cup {Create}) /\ toS \in Seq(Commands)

DialedTo(k) == \A e \in Ends, l \in Lanes : lane[e][l] = "none" <=> l > k
InOrder == \E k \in 0..MaxLanes : DialedTo(k)

Owned(t, n) ==
    /\ \A s \in Slots : t.slot[s].lane # 0 => n[t.slot[s].lane] = "run"
    /\ \A l \in Lanes : n[l] = "run" => t.on /\ \E s \in Slots : t.slot[s].lane = l
    /\ \A s, r \in Slots : t.slot[s].lane # 0 /\ t.slot[s].lane = t.slot[r].lane => s = r
AllOwned == \A e \in Ends : Owned(tab[e], lane[e])

LaneInv == Shape /\ InOrder /\ AllOwned /\ WithinShare

-----------------------------------------------------------------------------
(* The member set.                                                         *)

LEMMA TableType ==
  /\ EmptySlot \in SlotTypes /\ EmptySlot.lane = 0
  /\ NoClaim \in TabTypes /\ NoClaim.on = FALSE
  /\ \A s \in Slots : NoClaim.slot[s] = EmptySlot
  /\ 0 \notin Lanes /\ Lanes \subseteq 0..MaxLanes /\ MaxLanes \in Nat \ {0}
<1>1. MaxLanes \in Nat \ {0}
  BY LaneConstants
<1>2. EmptySlot \in SlotTypes /\ EmptySlot.lane = 0 /\ 0 \notin Lanes /\ Lanes \subseteq 0..MaxLanes
  BY <1>1 DEF EmptySlot, SlotTypes, Lanes
<1>3. NoClaim \in TabTypes /\ NoClaim.on = FALSE /\ \A s \in Slots : NoClaim.slot[s] = EmptySlot
  <2>1. 1 \in Slots
    BY <1>1 DEF Slots
  <2> QED
    BY <1>2, <2>1 DEF NoClaim, TabTypes
<1> QED
  BY <1>1, <1>2, <1>3

(* A set of slots that is not empty has a lowest one.                      *)
LEMMA LowestSlot ==
  ASSUME NEW S, S \subseteq Slots, S # {}
  PROVE  \E s \in S : \A r \in 1..(s - 1) : r \notin S
<1> DEFINE R == {ss \in Nat \X Nat : ss[1] < ss[2]}
<1>1. S \subseteq Nat
  BY LaneConstants DEF Slots
<1>2. IsWellFoundedOn(R, Nat)
  BY NatLessThanWellFounded, Zenon DEF OpToRel
<1>3. PICK s \in S : \A r \in S : ~(<<r, s>> \in R)
  <2> HIDE DEF R
  <2> QED
    BY <1>1, <1>2, WFMin
<1>4. \A r \in 1..(s - 1) : r \notin S
  <2> SUFFICES ASSUME NEW r \in 1..(s - 1), r \in S PROVE FALSE
    OBVIOUS
  <2>1. ~(<<r, s>> \in R)
    BY <1>3
  <2> QED
    BY <1>1, <2>1
<1> QED
  BY <1>4

(* A lane that holds no slot finds an empty one: there are as many slots   *)
(* as lanes and every other lane holds one at most.                        *)
LEMMA RoomForOne ==
  ASSUME NEW n, NEW t \in TabTypes, Owned(t, n), NEW l \in Lanes, n[l] # "run"
  PROVE  \E s \in Slots : t.slot[s].lane = 0
<1> SUFFICES ASSUME \A s \in Slots : t.slot[s].lane # 0 PROVE FALSE
  OBVIOUS
<1> DEFINE f == [s \in Slots |-> t.slot[s].lane]
<1>1. \A s \in Slots : t.slot[s].lane \in Lanes \ {l}
  <2>1. \A s \in Slots : t.slot[s].lane \in 0..MaxLanes
    BY DEF TabTypes, SlotTypes
  <2> QED
    BY <2>1, LaneConstants DEF Owned, Lanes
<1>2. f \in [Slots -> Lanes \ {l}]
  BY <1>1
<1>3. \A s, r \in Slots : f[s] = f[r] => s = r
  BY DEF Owned
<1>4. f \in Injection(Slots, Lanes \ {l})
  <2> HIDE DEF f
  <2> QED
    BY <1>2, <1>3 DEF Injection, IsInjective
<1>5. IsFiniteSet(Slots) /\ IsFiniteSet(Lanes) /\ Cardinality(Slots) = MaxLanes
      /\ Cardinality(Lanes) = MaxLanes /\ MaxLanes \in Nat
  BY LaneConstants, FS_Interval DEF Slots, Lanes
<1>6. IsFiniteSet(Lanes \ {l}) /\ Cardinality(Lanes \ {l}) = MaxLanes - 1
  BY <1>5, FS_RemoveElement
<1>7. Cardinality(Slots) <= Cardinality(Lanes \ {l})
  <2> HIDE DEF f
  <2> QED
    BY <1>4, <1>6, FS_Injection
<1> QED
  BY <1>5, <1>6, <1>7

(* A lane joins: it takes a slot that was empty, and nothing else changes  *)
(* hands.                                                                  *)
LEMMA JoinKeepsOwned ==
  ASSUME NEW t \in TabTypes, NEW n \in [Lanes -> LaneStates], Owned(t, n),
         NEW l \in Lanes, n[l] # "run"
  PROVE  Joined(t, l) \in TabTypes /\ Owned(Joined(t, l), [n EXCEPT ![l] = "run"])
<1> DEFINE c == IF t.on THEN t ELSE [NoClaim EXCEPT !.on = TRUE]
           p == PlaceSlot(c)
           j == Joined(t, l)
           m == [n EXCEPT ![l] = "run"]
<1>1. \A s \in Slots : t.slot[s] \in SlotTypes /\ (t.slot[s].lane # 0 => t.slot[s].lane \in Lanes)
  BY LaneConstants DEF TabTypes, SlotTypes, Lanes
<1>2. c \in TabTypes /\ c.on
  BY TableType DEF TabTypes
<1>3. \A s \in Slots : c.slot[s].lane = t.slot[s].lane
  <2>1. CASE t.on
    BY <2>1
  <2>2. CASE ~t.on
    <3>1. \A s \in Slots : t.slot[s].lane = 0
      BY <1>1, <2>2 DEF Owned
    <3>2. c.slot = NoClaim.slot
      BY <2>2, TableType DEF TabTypes
    <3> QED
      BY <3>1, <3>2, TableType
  <2> QED
    BY <2>1, <2>2
<1>4. p \in Slots /\ c.slot[p].lane = 0
  <2> DEFINE S == {s \in Slots : c.slot[s].lane = 0}
  <2>1. S # {}
    BY <1>3, RoomForOne
  <2>2. PICK s \in S : \A r \in 1..(s - 1) : r \notin S
    <3> HIDE DEF S
    <3>1. S \subseteq Slots
      BY DEF S
    <3> QED
      BY <2>1, <3>1, LowestSlot
  <2>3. s \in Slots /\ \A r \in 1..(s - 1) : r \in Slots
    BY LaneConstants DEF Slots
  <2>4. c.slot[s].lane = 0 /\ \A r \in 1..(s - 1) : c.slot[r].lane # 0
    BY <2>2, <2>3
  <2> QED
    BY <2>3, <2>4 DEF PlaceSlot
<1>5. j = [c EXCEPT !.slot[p].lane = l, !.wide = IF p > c.wide THEN p ELSE c.wide]
  BY DEF Joined
<1> HIDE DEF c, p, j, m
<1>6. [c.slot[p] EXCEPT !.lane = l] \in SlotTypes /\ [c.slot[p] EXCEPT !.lane = l].lane = l
  BY <1>2, <1>4, TableType DEF TabTypes, SlotTypes
<1>7. j \in TabTypes /\ j.on
  <2>1. j.slot = [c.slot EXCEPT ![p] = [c.slot[p] EXCEPT !.lane = l]]
    BY <1>2, <1>5 DEF TabTypes
  <2>2. j.slot \in [Slots -> SlotTypes]
    BY <1>2, <1>4, <1>6, <2>1 DEF TabTypes
  <2>3. DOMAIN j = DOMAIN c /\ j.on = c.on /\ j.wire = c.wire /\ j.wide \in Slots
    BY <1>2, <1>4, <1>5 DEF TabTypes
  <2> QED
    BY <1>2, <1>5, <2>2, <2>3 DEF TabTypes
<1>8. \A s \in Slots : j.slot[s].lane = IF s = p THEN l ELSE t.slot[s].lane
  BY <1>2, <1>3, <1>4, <1>5, <1>6 DEF TabTypes
<1>9. m[l] = "run" /\ \A k \in Lanes : k # l => m[k] = n[k]
  BY DEF m
<1>10. \A s \in Slots : t.slot[s].lane # l
  BY TableType DEF Owned
<1>11. Owned(j, m)
  <2>1. \A s \in Slots : j.slot[s].lane # 0 => m[j.slot[s].lane] = "run"
    BY <1>1, <1>8, <1>9 DEF Owned
  <2>2. ASSUME NEW k \in Lanes, m[k] = "run" PROVE j.on /\ \E s \in Slots : j.slot[s].lane = k
    <3>1. CASE k = l
      BY <1>4, <1>7, <1>8, <3>1
    <3>2. CASE k # l
      <4>1. PICK s \in Slots : t.slot[s].lane = k
        BY <1>9, <2>2, <3>2 DEF Owned
      <4>2. s # p
        BY <1>3, <1>4, <4>1, TableType
      <4> QED
        BY <1>7, <1>8, <4>1, <4>2
    <3> QED
      BY <3>1, <3>2
  <2>3. \A s, r \in Slots : j.slot[s].lane # 0 /\ j.slot[s].lane = j.slot[r].lane => s = r
    BY <1>8, <1>10 DEF Owned
  <2> QED
    BY <2>1, <2>2, <2>3 DEF Owned
<1> QED
  BY <1>7, <1>11 DEF j, m

(* A lane ends: its slot is empty, the others are as they were, and the    *)
(* claim leaves the table with its last lane.                              *)
LEMMA VacateKeepsOwned ==
  ASSUME NEW t \in TabTypes, NEW n \in [Lanes -> LaneStates], Owned(t, n),
         NEW l \in Lanes
  PROVE  VacatedTab(t, l) \in TabTypes /\ Owned(VacatedTab(t, l), [n EXCEPT ![l] = "ended"])
<1> DEFINE left == [s \in Slots |-> IF t.slot[s].lane = l THEN EmptySlot ELSE t.slot[s]]
           v == VacatedTab(t, l)
           m == [n EXCEPT ![l] = "ended"]
<1>1. \A s \in Slots : t.slot[s] \in SlotTypes /\ (t.slot[s].lane # 0 => t.slot[s].lane \in Lanes)
  BY LaneConstants DEF TabTypes, SlotTypes, Lanes
<1>2. left \in [Slots -> SlotTypes]
  BY <1>1, TableType
<1>3. v = IF \E s \in Slots : left[s].lane # 0 THEN [t EXCEPT !.slot = left] ELSE NoClaim
  BY DEF VacatedTab
<1>4. \A s \in Slots : left[s].lane = IF t.slot[s].lane = l THEN 0 ELSE t.slot[s].lane
  BY TableType
<1> HIDE DEF left, v, m
<1>5. v \in TabTypes
  BY <1>2, <1>3, TableType DEF TabTypes
<1>6. \A s \in Slots : v.slot[s].lane = left[s].lane
  <2>1. CASE \E s \in Slots : left[s].lane # 0
    BY <1>3, <2>1 DEF TabTypes
  <2>2. CASE \A s \in Slots : left[s].lane = 0
    BY <1>3, <2>2, TableType
  <2> QED
    BY <2>1, <2>2
<1>7. \A s \in Slots : v.slot[s].lane = IF t.slot[s].lane = l THEN 0 ELSE t.slot[s].lane
  BY <1>4, <1>6
<1>8. m[l] = "ended" /\ \A k \in Lanes : k # l => m[k] = n[k]
  BY DEF m
<1>9. Owned(v, m)
  <2>1. \A s \in Slots : v.slot[s].lane # 0 => m[v.slot[s].lane] = "run"
    BY <1>1, <1>7, <1>8 DEF Owned
  <2>2. ASSUME NEW k \in Lanes, m[k] = "run" PROVE v.on /\ \E s \in Slots : v.slot[s].lane = k
    <3>1. k # l
      BY <1>8, <2>2
    <3>2. PICK s \in Slots : t.slot[s].lane = k /\ t.on
      BY <1>8, <2>2, <3>1 DEF Owned
    <3>3. v.slot[s].lane = k /\ left[s].lane # 0
      BY <1>6, <1>7, <3>1, <3>2, TableType
    <3>4. v.on
      BY <1>3, <3>2, <3>3 DEF TabTypes
    <3> QED
      BY <3>3, <3>4
  <2>3. \A s, r \in Slots : v.slot[s].lane # 0 /\ v.slot[s].lane = v.slot[r].lane => s = r
    BY <1>7 DEF Owned
  <2> QED
    BY <2>1, <2>2, <2>3 DEF Owned
<1> QED
  BY <1>5, <1>9 DEF v, m

(* Nothing of this is about marks, or about lanes that do not run.         *)
LEMMA SameHolders ==
  ASSUME NEW t, NEW n, Owned(t, n), NEW u, NEW m,
         t.on => u.on, \A s \in Slots : u.slot[s].lane = t.slot[s].lane,
         \A l \in Lanes : m[l] = "run" <=> n[l] = "run",
         \A s \in Slots : t.slot[s].lane \in 0..MaxLanes
  PROVE  Owned(u, m)
<1>1. \A s \in Slots : t.slot[s].lane # 0 => t.slot[s].lane \in Lanes
  BY LaneConstants DEF Lanes
<1>2. \A s \in Slots : u.slot[s].lane # 0 => m[u.slot[s].lane] = "run"
  BY <1>1 DEF Owned
<1>3. \A l \in Lanes : m[l] = "run" => u.on /\ \E s \in Slots : u.slot[s].lane = l
  BY DEF Owned
<1>4. \A s, r \in Slots : u.slot[s].lane # 0 /\ u.slot[s].lane = u.slot[r].lane => s = r
  BY DEF Owned
<1> QED
  BY <1>2, <1>3, <1>4 DEF Owned

-----------------------------------------------------------------------------
(* Requests on their way.                                                  *)
Asking(q) == {i \in DOMAIN q : q[i] = Create}

LEMMA AskingIsFinite ==
  ASSUME NEW S, NEW q \in Seq(S)
  PROVE  /\ IsFiniteSet(Asking(q)) /\ Cardinality(Asking(q)) \in Nat
         /\ DOMAIN q = 1..Len(q) /\ Len(q) \in Nat
<1>1. DOMAIN q = 1..Len(q) /\ Len(q) \in Nat
  OBVIOUS
<1>2. IsFiniteSet(1..Len(q))
  BY <1>1, FS_Interval
<1>3. Asking(q) \in SUBSET (1..Len(q))
  BY <1>1 DEF Asking
<1>4. IsFiniteSet(Asking(q))
  BY <1>2, <1>3, FS_Subset
<1> QED
  BY <1>1, <1>4, FS_CardinalityType

LEMMA OneMoreMessage ==
  ASSUME NEW S, NEW q \in Seq(S), NEW x \in S
  PROVE  Cardinality(Asking(Append(q, x))) =
           IF x = Create THEN Cardinality(Asking(q)) + 1 ELSE Cardinality(Asking(q))
<1> DEFINE v == Append(q, x)
           A == Asking(q)
           B == Asking(v)
<1>1. /\ DOMAIN q = 1..Len(q) /\ Len(q) \in Nat /\ IsFiniteSet(A)
  BY AskingIsFinite
<1>2. /\ DOMAIN v = 1..(Len(q) + 1) /\ v[Len(q) + 1] = x
      /\ \A i \in 1..Len(q) : v[i] = q[i]
  OBVIOUS
<1> HIDE DEF v
<1>3. CASE x = Create
  <2>1. B = A \cup {Len(q) + 1}
    <3>1. \A i : i \in B <=> i \in A \/ i = Len(q) + 1
      BY <1>1, <1>2, <1>3 DEF Asking
    <3> HIDE DEF A, B
    <3> QED
      BY <3>1
  <2>2. Len(q) + 1 \notin A
    BY <1>1 DEF Asking
  <2> HIDE DEF A, B
  <2>3. Cardinality(B) = Cardinality(A) + 1
    BY <1>1, <2>1, <2>2, FS_AddElement
  <2> QED
    BY <1>3, <2>3 DEF A, B, v
<1>4. CASE x # Create
  <2>1. B = A
    <3>1. \A i : i \in B <=> i \in A
      BY <1>1, <1>2, <1>4 DEF Asking
    <3> HIDE DEF A, B
    <3> QED
      BY <3>1
  <2> QED
    BY <1>4, <2>1 DEF v
<1> QED
  BY <1>3, <1>4

LEMMA OneMessageTaken ==
  ASSUME NEW S, NEW q \in Seq(S), q # <<>>
  PROVE  Cardinality(Asking(Tail(q))) =
           IF Head(q) = Create THEN Cardinality(Asking(q)) - 1 ELSE Cardinality(Asking(q))
<1> DEFINE v == Tail(q)
           A == Asking(q)
           B == Asking(v)
           h == Head(q)
<1>1. /\ DOMAIN q = 1..Len(q) /\ Len(q) \in Nat /\ IsFiniteSet(A)
  BY AskingIsFinite
<1>2. /\ h = q[1] /\ Len(q) # 0 /\ v \in Seq(S) /\ Len(v) = Len(q) - 1
      /\ DOMAIN v = 1..(Len(q) - 1) /\ \A i \in 1..(Len(q) - 1) : v[i] = q[i + 1]
  <2>1. v \in Seq(S) /\ Len(v) = Len(q) - 1 /\ Len(q) # 0
    OBVIOUS
  <2> QED
    BY <2>1
<1> HIDE DEF v, h
<1>3. IsFiniteSet(B)
  BY <1>2, AskingIsFinite
<1> DEFINE f == [i \in B |-> i + 1]
<1>4. f \in Bijection(B, A \ {1})
  <2>1. ASSUME NEW i \in B PROVE i + 1 \in A \ {1}
    BY <1>1, <1>2 DEF Asking
  <2>2. ASSUME NEW j \in A \ {1} PROVE \E i \in B : i + 1 = j
    <3>1. j - 1 \in 1..(Len(q) - 1) /\ (j - 1) + 1 = j
      BY <1>1 DEF Asking
    <3>2. j - 1 \in B
      BY <1>2, <3>1 DEF Asking
    <3> QED
      BY <3>1, <3>2
  <2>3. \A i, j \in B : i + 1 = j + 1 => i = j
    BY <1>2 DEF Asking
  <2> HIDE DEF A, B
  <2>4. f \in [B -> A \ {1}]
    BY <2>1
  <2>5. \A a, b \in B : f[a] = f[b] => a = b
    BY <2>3
  <2>6. \A j \in A \ {1} : \E i \in B : f[i] = j
    BY <2>2
  <2> HIDE DEF f
  <2> QED
    BY <2>4, <2>5, <2>6, Fun_IsBij
<1>5. ExistsBijection(B, A \ {1})
  <2> HIDE DEF f, A, B
  <2> QED
    BY <1>4 DEF ExistsBijection
<1>6. Cardinality(A \ {1}) = Cardinality(B)
  <2> HIDE DEF A, B
  <2> QED
    BY <1>3, <1>5, FS_Bijection
<1>7. 1 \in A <=> h = Create
  BY <1>1, <1>2 DEF Asking
<1>8. Cardinality(A \ {1}) = IF 1 \in A THEN Cardinality(A) - 1 ELSE Cardinality(A)
  <2> HIDE DEF A
  <2> QED
    BY <1>1, FS_RemoveElement
<1> QED
  BY <1>6, <1>7, <1>8 DEF v, h

-----------------------------------------------------------------------------
(* The steps.                                                              *)

LEMMA Typed ==
  ASSUME Shape
  PROVE  /\ tab \in [Ends -> TabTypes] /\ lane \in [Ends -> [Lanes -> LaneStates]]
         /\ place \in [Ends -> [Flows -> 0..MaxLanes]] /\ talk \in [Ends -> SUBSET Flows]
         /\ conn \in [Lanes -> {"none", "up", "down"}]
         /\ woken \subseteq Lanes /\ asked \subseteq Lanes /\ announced \subseteq Lanes
         /\ answer \in [Lanes -> AckStates \cup {"none"}] /\ found \in Finds
         /\ toC \in Seq(Answers \cup {Create}) /\ toS \in Seq(Commands)
         /\ "C" \in Ends /\ "S" \in Ends
  BY DEF Shape, LaneTypeOK, TabTypes, SlotTypes, LaneStates, AckStates, Finds, Ends

LEMMA ShapeFrom ==
  ASSUME tab' \in [Ends -> TabTypes], lane' \in [Ends -> [Lanes -> LaneStates]],
         place' \in [Ends -> [Flows -> 0..MaxLanes]], talk' \in [Ends -> SUBSET Flows],
         conn' \in [Lanes -> {"none", "up", "down"}],
         woken' \subseteq Lanes, asked' \subseteq Lanes, announced' \subseteq Lanes,
         answer' \in [Lanes -> AckStates \cup {"none"}], found' \in Finds,
         toC' \in Seq(Answers \cup {Create}), toS' \in Seq(Commands)
  PROVE  Shape'
  BY DEF Shape, LaneTypeOK, TabTypes, SlotTypes, LaneStates, AckStates, Finds

(* One end's entry and lanes change together, or nothing of them does.     *)
LEMMA EndStep ==
  ASSUME Shape, AllOwned, NEW e \in Ends, NEW t \in TabTypes, NEW n \in [Lanes -> LaneStates],
         Owned(t, n), tab' = [tab EXCEPT ![e] = t], lane' = [lane EXCEPT ![e] = n]
  PROVE  tab' \in [Ends -> TabTypes] /\ lane' \in [Ends -> [Lanes -> LaneStates]] /\ AllOwned'
<1>1. tab' \in [Ends -> TabTypes] /\ lane' \in [Ends -> [Lanes -> LaneStates]]
  BY Typed
<1>2. \A d \in Ends : Owned(tab'[d], lane'[d])
  <2> SUFFICES ASSUME NEW d \in Ends PROVE Owned(tab'[d], lane'[d])
    OBVIOUS
  <2>1. CASE d = e
    BY <2>1, Typed
  <2>2. CASE d # e
    <3>1. tab'[d] = tab[d] /\ lane'[d] = lane[d]
      BY <2>2, Typed
    <3> QED
      BY <3>1 DEF AllOwned
  <2> QED
    BY <2>1, <2>2
<1> QED
  BY <1>1, <1>2 DEF AllOwned

(* Dialed lanes stay dialed.                                               *)
LEMMA StayDialed ==
  ASSUME InOrder, \A e \in Ends, l \in Lanes : lane'[e][l] = "none" <=> lane[e][l] = "none"
  PROVE  InOrder'
<1>1. PICK k \in 0..MaxLanes : DialedTo(k)
  BY DEF InOrder
<1>2. DialedTo(k)'
  BY <1>1 DEF DialedTo
<1> QED
  BY <1>2 DEF InOrder

(* What is running or may run, and what was asked for.                     *)
LEMMA ShareFacts ==
  ASSUME Shape, WithinShare
  PROVE  /\ IsFiniteSet(Unended) /\ Cardinality(Unended) \in Nat
         /\ Cardinality(Asking(toC)) \in Nat /\ Share \in Nat
         /\ Cardinality(Unended) + Cardinality(Asking(toC)) <= Share
<1>1. IsFiniteSet(Lanes)
  BY LaneConstants, FS_Interval DEF Lanes
<1>2. Unended \in SUBSET Lanes
  BY DEF Unended
<1>3. IsFiniteSet(Unended) /\ Cardinality(Unended) \in Nat
  BY <1>1, <1>2, FS_Subset, FS_CardinalityType
<1>4. Cardinality(Asking(toC)) \in Nat
  BY Typed, AskingIsFinite
<1> QED
  BY <1>3, <1>4, LaneConstants DEF WithinShare, Asking

LEMMA SameShare ==
  ASSUME Shape, WithinShare,
         \A l \in Lanes : lane'["S"][l] \in {"dial", "run"} <=> lane["S"][l] \in {"dial", "run"},
         NEW x \in Answers, toC' = toC \/ toC' = Append(toC, x)
  PROVE  WithinShare'
<1>1. Unended' = Unended
  BY DEF Unended
<1>2. Cardinality(Asking(toC')) = Cardinality(Asking(toC))
  <2>1. CASE toC' = toC
    BY <2>1
  <2>2. CASE toC' = Append(toC, x)
    <3>1. x # Create
      BY DEF Answers, AckStates, Create
    <3>2. Cardinality(Asking(Append(toC, x))) = Cardinality(Asking(toC))
      BY <3>1, Typed, OneMoreMessage
    <3> QED
      BY <2>2, <3>2
  <2> QED
    BY <2>1, <2>2
<1> QED
  BY <1>1, <1>2 DEF WithinShare, Asking

(* A lane of the server ends and asks for its replacement, or for none.    *)
LEMMA ReplacedShare ==
  ASSUME Shape, WithinShare, NEW l \in Lanes, lane["S"][l] \in {"dial", "run"},
         lane' = [lane EXCEPT !["S"][l] = "ended"],
         toC' = toC \/ toC' = toC \o Requests
  PROVE  WithinShare' /\ toC' \in Seq(Answers \cup {Create})
<1>1. toC \o Requests = Append(toC, Create) /\ Append(toC, Create) \in Seq(Answers \cup {Create})
  <2>1. toC \in Seq(Answers \cup {Create}) /\ Create \in Answers \cup {Create}
    BY Typed
  <2> QED
    BY <2>1 DEF Requests
<1>2. Unended' = Unended \ {l} /\ l \in Unended
  <2>1. /\ lane'["S"][l] = "ended"
        /\ \A k \in Lanes : k # l => lane'["S"][k] = lane["S"][k]
    BY Typed
  <2>2. l \in Unended
    BY DEF Unended
  <2>3. \A k : k \in Unended' <=> k \in Unended /\ k # l
    BY <2>1 DEF Unended
  <2> QED
    BY <2>2, <2>3
<1>3. Cardinality(Unended') = Cardinality(Unended) - 1
  BY <1>2, ShareFacts, FS_RemoveElement
<1>4. /\ Cardinality(Asking(toC')) \in {Cardinality(Asking(toC)), Cardinality(Asking(toC)) + 1}
  <2>1. Cardinality(Asking(Append(toC, Create))) = Cardinality(Asking(toC)) + 1
    <3> DEFINE S == Answers \cup {Create}
    <3>1. toC \in Seq(S) /\ Create \in S
      BY Typed
    <3> HIDE DEF S
    <3> QED
      BY <3>1, OneMoreMessage
  <2> QED
    BY <1>1, <2>1
<1>5. Cardinality(Unended') + Cardinality(Asking(toC')) <= Share
  BY <1>3, <1>4, ShareFacts
<1> QED
  BY <1>1, <1>5, Typed DEF WithinShare, Asking

(* A lane that holds a slot is found in it.                                *)
LEMMA SlotFound ==
  ASSUME NEW e \in Ends, NEW l, Holds(e, l)
  PROVE  SlotOf(e, l) \in Slots /\ tab[e].slot[SlotOf(e, l)].lane = l
  BY DEF Holds, SlotOf

(* Marking a slot, with a lane in it or without, changes no holder.        *)
LEMMA MarkKeepsOwned ==
  ASSUME Shape, AllOwned, NEW e \in Ends, NEW s \in Slots, NEW b \in BOOLEAN,
         \/ tab' = [tab EXCEPT ![e].slot[s].drain = b]
         \/ tab' = [tab EXCEPT ![e].slot[s].peer = b],
         lane' = lane
  PROVE  /\ tab' \in [Ends -> TabTypes] /\ AllOwned'
         /\ \A r \in Slots : tab'[e].slot[r].lane = tab[e].slot[r].lane
<1> DEFINE u == tab'[e]
<1>2. /\ tab[e] \in TabTypes /\ lane[e] \in [Lanes -> LaneStates]
      /\ \A r \in Slots : tab[e].slot[r] \in SlotTypes /\ tab[e].slot[r].lane \in 0..MaxLanes
  BY Typed DEF TabTypes, SlotTypes
<1>3. \/ u = [tab[e] EXCEPT !.slot[s].drain = b]
      \/ u = [tab[e] EXCEPT !.slot[s].peer = b]
  BY Typed
<1>4. u \in TabTypes /\ u.on = tab[e].on /\ \A r \in Slots : u.slot[r].lane = tab[e].slot[r].lane
  <2>1. CASE u = [tab[e] EXCEPT !.slot[s].drain = b]
    BY <1>2, <2>1 DEF TabTypes, SlotTypes
  <2>2. CASE u = [tab[e] EXCEPT !.slot[s].peer = b]
    BY <1>2, <2>2 DEF TabTypes, SlotTypes
  <2> QED
    BY <1>3, <2>1, <2>2
<1>5. tab' = [tab EXCEPT ![e] = u] /\ lane' = [lane EXCEPT ![e] = lane[e]]
  BY Typed
<1> HIDE DEF u
<1>6. Owned(u, lane[e])
  BY <1>2, <1>4, SameHolders DEF AllOwned
<1>7. tab' \in [Ends -> TabTypes] /\ AllOwned'
  BY <1>2, <1>4, <1>5, <1>6, EndStep
<1> QED
  BY <1>4, <1>7 DEF u

(* Packets, and what becomes of flows.                                     *)
LEMMA FlowsKeepInv ==
  ASSUME LaneInv, NEW e \in Ends, NEW f \in Flows, Packet(e, f) \/ FallsQuiet(e, f) \/ Evict(e, f)
  PROVE  LaneInv'
<1> USE DEF LaneInv
<1>1. /\ UNCHANGED <<tab, lane, conn, woken, asked, found, answer, announced, toC, toS>>
  BY DEF Packet, FallsQuiet, Evict, tasks, drains
<1>2. Slots \subseteq 0..MaxLanes /\ 0 \in 0..MaxLanes
  BY LaneConstants DEF Slots
<1>3. place' \in [Ends -> [Flows -> 0..MaxLanes]]
  <2>1. CASE place' = place
    BY <2>1, Typed
  <2>2. ASSUME NEW s \in 0..MaxLanes, place' = [place EXCEPT ![e][f] = s]
        PROVE  place' \in [Ends -> [Flows -> 0..MaxLanes]]
    BY <2>2, Typed
  <2>3. CASE Packet(e, f)
    <3>1. Least(e) \subseteq 0..MaxLanes
      BY <1>2 DEF Least, LiveSlots, Live
    <3> QED
      BY <2>1, <2>2, <2>3, <3>1 DEF Packet
  <2>4. CASE FallsQuiet(e, f)
    BY <2>1, <2>4 DEF FallsQuiet
  <2>5. CASE Evict(e, f)
    BY <1>2, <2>2, <2>5 DEF Evict
  <2> QED
    BY <2>3, <2>4, <2>5
<1>4. talk' \in [Ends -> SUBSET Flows]
  <2>1. \/ talk' = talk \/ talk' = [talk EXCEPT ![e] = talk[e] \cup {f}]
        \/ talk' = [talk EXCEPT ![e] = talk[e] \ {f}]
    BY DEF Packet, FallsQuiet, Evict
  <2>2. talk \in [Ends -> SUBSET Flows] /\ talk[e] \cup {f} \subseteq Flows
        /\ talk[e] \ {f} \subseteq Flows
    BY Typed
  <2> QED
    BY <2>1, <2>2
<1>5. Shape'
  BY <1>1, <1>3, <1>4, Typed, ShapeFrom
<1>6. InOrder' /\ AllOwned' /\ WithinShare'
  BY <1>1 DEF InOrder, DialedTo, AllOwned, WithinShare, Unended
<1> QED
  BY <1>5, <1>6

(* A lane leaves one end, and its slot with it.                            *)
LEMMA LeaveKeepsShape ==
  ASSUME LaneInv, NEW e \in Ends, NEW l \in Lanes, Vacate(e, l),
         lane' = [lane EXCEPT ![e][l] = "ended"]
  PROVE  /\ tab' \in [Ends -> TabTypes] /\ lane' \in [Ends -> [Lanes -> LaneStates]]
         /\ place' \in [Ends -> [Flows -> 0..MaxLanes]] /\ talk' \in [Ends -> SUBSET Flows]
         /\ AllOwned'
<1> USE DEF LaneInv
<1> DEFINE t == VacatedTab(tab[e], l)
           n == [lane[e] EXCEPT ![l] = "ended"]
<1>1. tab[e] \in TabTypes /\ lane[e] \in [Lanes -> LaneStates] /\ Owned(tab[e], lane[e])
  BY Typed DEF AllOwned
<1>2. t \in TabTypes /\ Owned(t, n)
  BY <1>1, VacateKeepsOwned
<1>3. tab' = [tab EXCEPT ![e] = t] /\ lane' = [lane EXCEPT ![e] = n]
  BY DEF Vacate
<1>4. n \in [Lanes -> LaneStates]
  BY <1>1 DEF LaneStates
<1>5. place' = place \/ place' = [place EXCEPT ![e] = [f \in Flows |-> 0]]
  BY DEF Vacate
<1>6. talk' = talk \/ talk' = [talk EXCEPT ![e] = {}]
  BY DEF Vacate
<1>7. 0 \in 0..MaxLanes
  BY LaneConstants
<1> HIDE DEF t, n
<1>8. tab' \in [Ends -> TabTypes] /\ lane' \in [Ends -> [Lanes -> LaneStates]] /\ AllOwned'
  BY <1>2, <1>3, <1>4, EndStep
<1>9. place' \in [Ends -> [Flows -> 0..MaxLanes]]
  <2> DEFINE z == [f \in Flows |-> 0]
  <2>1. z \in [Flows -> 0..MaxLanes]
    BY <1>7
  <2>2. place' = place \/ place' = [place EXCEPT ![e] = z]
    BY <1>5
  <2> HIDE DEF z
  <2> QED
    BY <2>1, <2>2, Typed
<1>10. talk' \in [Ends -> SUBSET Flows]
  BY <1>6, Typed
<1> QED
  BY <1>8, <1>9, <1>10

(* A lane joins one end.                                                   *)
LEMMA JoinKeepsShape ==
  ASSUME LaneInv, NEW e \in Ends, NEW l \in Lanes, lane[e][l] \in {"dial", "set"},
         lane' = [lane EXCEPT ![e][l] = "run"], tab' = [tab EXCEPT ![e] = Joined(tab[e], l)]
  PROVE  tab' \in [Ends -> TabTypes] /\ lane' \in [Ends -> [Lanes -> LaneStates]] /\ AllOwned'
<1> USE DEF LaneInv
<1> DEFINE t == Joined(tab[e], l)
           n == [lane[e] EXCEPT ![l] = "run"]
<1>1. tab[e] \in TabTypes /\ lane[e] \in [Lanes -> LaneStates] /\ Owned(tab[e], lane[e])
  BY Typed DEF AllOwned
<1>2. t \in TabTypes /\ Owned(t, n)
  BY <1>1, JoinKeepsOwned
<1>3. lane' = [lane EXCEPT ![e] = n] /\ tab' = [tab EXCEPT ![e] = t]
  OBVIOUS
<1>4. n \in [Lanes -> LaneStates]
  BY <1>1 DEF LaneStates
<1> HIDE DEF t, n
<1> QED
  BY <1>2, <1>3, <1>4, EndStep

(* A lane of one end goes from one state to another in which it does not   *)
(* run either.                                                             *)
LEMMA WaitKeepsShape ==
  ASSUME LaneInv, NEW e \in Ends, NEW l \in Lanes, lane[e][l] # "run",
         NEW x \in {"set", "ended"}, lane' = [lane EXCEPT ![e][l] = x],
         tab' = tab \/ tab' = [tab EXCEPT ![e].on = TRUE, ![e].wire = TRUE]
  PROVE  tab' \in [Ends -> TabTypes] /\ lane' \in [Ends -> [Lanes -> LaneStates]] /\ AllOwned'
<1> USE DEF LaneInv
<1> DEFINE t == tab'[e]
           n == [lane[e] EXCEPT ![l] = x]
<1>1. /\ tab[e] \in TabTypes /\ lane[e] \in [Lanes -> LaneStates] /\ Owned(tab[e], lane[e])
      /\ \A s \in Slots : tab[e].slot[s].lane \in 0..MaxLanes
  BY Typed DEF AllOwned, TabTypes, SlotTypes
<1>2. t = tab[e] \/ t = [tab[e] EXCEPT !.on = TRUE, !.wire = TRUE]
  BY Typed
<1>3. t \in TabTypes /\ (tab[e].on => t.on) /\ \A s \in Slots : t.slot[s].lane = tab[e].slot[s].lane
  BY <1>1, <1>2 DEF TabTypes
<1>4. tab' = [tab EXCEPT ![e] = t] /\ lane' = [lane EXCEPT ![e] = n]
  BY Typed
<1>5. n \in [Lanes -> LaneStates] /\ \A k \in Lanes : n[k] = "run" <=> lane[e][k] = "run"
  BY <1>1 DEF LaneStates
<1> HIDE DEF t, n
<1>6. Owned(t, n)
  BY <1>1, <1>3, <1>5, SameHolders
<1> QED
  BY <1>3, <1>4, <1>5, <1>6, EndStep

(* Steps of a lane's tasks leave dialed lanes dialed; the client's leave   *)
(* the server's share alone.                                               *)
LEMMA OneLane ==
  ASSUME LaneInv, NEW e \in Ends, NEW l \in Lanes, lane[e][l] # "none",
         NEW x \in LaneStates \ {"none"}, lane' = [lane EXCEPT ![e][l] = x]
  PROVE  /\ InOrder'
         /\ e = "C" \/ (lane[e][l] = "dial" /\ x = "run") =>
              \A k \in Lanes : lane'["S"][k] \in {"dial", "run"} <=> lane["S"][k] \in {"dial", "run"}
<1> USE DEF LaneInv
<1>1. \A d \in Ends, k \in Lanes : lane'[d][k] = IF d = e /\ k = l THEN x ELSE lane[d][k]
  BY Typed
<1>2. \A d \in Ends, k \in Lanes : lane'[d][k] = "none" <=> lane[d][k] = "none"
  BY <1>1
<1>3. InOrder'
  BY <1>2, StayDialed
<1>4. e = "C" \/ (lane[e][l] = "dial" /\ x = "run") =>
        \A k \in Lanes : lane'["S"][k] \in {"dial", "run"} <=> lane["S"][k] \in {"dial", "run"}
  <2>1. "S" \in Ends /\ "S" # "C"
    BY DEF Ends
  <2> QED
    BY <1>1, <2>1
<1> QED
  BY <1>3, <1>4

(* An answer or a request that is sent is one of the known ones.           *)
LEMMA AckType ==
  ASSUME NEW l \in Lanes, NEW x \in AckStates
  PROVE  Ack(l, x) \in Answers
  BY DEF Ack, Answers

LEMMA SomeAnswer == ASSUME Shape PROVE \E x : x \in Answers
<1>1. 1 \in Lanes
  BY LaneConstants DEF Lanes
<1>2. Ack(1, "ready") \in Answers
  BY <1>1, AckType DEF AckStates
<1> QED
  BY <1>2

LEMMA TasksKeepInv ==
  ASSUME LaneInv, NEW l \in Lanes,
         \/ Break(l) \/ ServerJoins(l) \/ ServerDrops(l) \/ ServerEnds(l)
         \/ ClientSetsWire(l) \/ ClientJoins(l) \/ ClientFails(l) \/ ClientRetires(l)
  PROVE  LaneInv'
<1> USE DEF LaneInv
<1>a. UNCHANGED <<asked, found, answer, announced, toS>>
  BY DEF Break, ServerJoins, ServerDrops, ServerEnds, ClientSetsWire, ClientJoins, ClientFails,
     ClientRetires, drains
<1>b. PICK x0 : x0 \in Answers
  BY SomeAnswer
<1>c. conn' \in [Lanes -> {"none", "up", "down"}]
  BY Typed DEF Break, ServerJoins, ServerDrops, ServerEnds, ClientSetsWire, ClientJoins,
     ClientFails, ClientRetires
<1>d. woken' \subseteq Lanes
  <2>1. woken' = woken \/ woken' = woken \ {l} \/ woken' = woken \cup {l}
    BY DEF Break, ServerJoins, ServerDrops, ServerEnds, ClientSetsWire, ClientJoins,
       ClientFails, ClientRetires
  <2> QED
    BY <2>1, Typed
<1>1. CASE Break(l)
  <2>1. UNCHANGED <<tab, place, talk, lane, toC>>
    BY <1>1 DEF Break, hubs
  <2>2. Shape'
    BY <1>a, <1>c, <1>d, <2>1, Typed, ShapeFrom
  <2> QED
    BY <2>1, <2>2 DEF InOrder, DialedTo, AllOwned, WithinShare, Unended
<1>2. CASE ServerJoins(l)
  <2>1. /\ lane["S"][l] = "dial" /\ lane' = [lane EXCEPT !["S"][l] = "run"]
        /\ tab' = [tab EXCEPT !["S"] = Joined(tab["S"], l)]
        /\ UNCHANGED <<place, talk, toC>>
    BY <1>2 DEF ServerJoins
  <2>2. tab' \in [Ends -> TabTypes] /\ lane' \in [Ends -> [Lanes -> LaneStates]] /\ AllOwned'
    BY <2>1, JoinKeepsShape DEF Ends
  <2>3. Shape'
    BY <1>a, <1>c, <1>d, <2>1, <2>2, Typed, ShapeFrom
  <2>4. /\ InOrder'
        /\ \A k \in Lanes : lane'["S"][k] \in {"dial", "run"} <=> lane["S"][k] \in {"dial", "run"}
    BY <2>1, OneLane DEF Ends, LaneStates
  <2>5. WithinShare'
    BY <1>b, <2>1, <2>4, SameShare
  <2> QED
    BY <2>2, <2>3, <2>4, <2>5
<1>3. CASE ServerDrops(l)
  <2>1. /\ lane["S"][l] = "dial" /\ lane' = [lane EXCEPT !["S"][l] = "ended"]
        /\ toC' = toC \/ toC' = toC \o Requests
        /\ UNCHANGED <<tab, place, talk>>
    BY <1>3 DEF ServerDrops, hubs
  <2>2. tab' \in [Ends -> TabTypes] /\ lane' \in [Ends -> [Lanes -> LaneStates]] /\ AllOwned'
    BY <2>1, WaitKeepsShape DEF Ends
  <2>3. InOrder'
    BY <2>1, OneLane DEF Ends, LaneStates
  <2>4. WithinShare' /\ toC' \in Seq(Answers \cup {Create})
    BY <2>1, ReplacedShare
  <2>5. Shape'
    BY <1>a, <1>c, <1>d, <2>1, <2>2, <2>4, Typed, ShapeFrom
  <2> QED
    BY <2>2, <2>3, <2>4, <2>5
<1>4. CASE ServerEnds(l)
  <2>1. /\ lane["S"][l] = "run" /\ lane' = [lane EXCEPT !["S"][l] = "ended"]
        /\ toC' = toC \o Requests /\ Vacate("S", l)
    BY <1>4 DEF ServerEnds
  <2>2. /\ tab' \in [Ends -> TabTypes] /\ lane' \in [Ends -> [Lanes -> LaneStates]]
        /\ place' \in [Ends -> [Flows -> 0..MaxLanes]] /\ talk' \in [Ends -> SUBSET Flows]
        /\ AllOwned'
    BY <2>1, LeaveKeepsShape DEF Ends
  <2>3. InOrder'
    BY <2>1, OneLane DEF Ends, LaneStates
  <2>4. WithinShare' /\ toC' \in Seq(Answers \cup {Create})
    BY <2>1, ReplacedShare
  <2>5. Shape'
    BY <1>a, <1>c, <1>d, <2>2, <2>4, Typed, ShapeFrom
  <2> QED
    BY <2>2, <2>3, <2>4, <2>5
<1>5. CASE ClientSetsWire(l)
  <2>1. /\ lane["C"][l] = "dial" /\ lane' = [lane EXCEPT !["C"][l] = "set"]
        /\ tab' = [tab EXCEPT !["C"].on = TRUE, !["C"].wire = TRUE]
        /\ UNCHANGED <<place, talk, toC>>
    BY <1>5 DEF ClientSetsWire
  <2>2. tab' \in [Ends -> TabTypes] /\ lane' \in [Ends -> [Lanes -> LaneStates]] /\ AllOwned'
    BY <2>1, WaitKeepsShape DEF Ends
  <2>3. Shape'
    BY <1>a, <1>c, <1>d, <2>1, <2>2, Typed, ShapeFrom
  <2>4. /\ InOrder'
        /\ \A k \in Lanes : lane'["S"][k] \in {"dial", "run"} <=> lane["S"][k] \in {"dial", "run"}
    BY <2>1, OneLane DEF Ends, LaneStates
  <2>5. WithinShare'
    BY <1>b, <2>1, <2>4, SameShare
  <2> QED
    BY <2>2, <2>3, <2>4, <2>5
<1>6. CASE ClientJoins(l)
  <2>1. /\ lane["C"][l] = "set" /\ lane' = [lane EXCEPT !["C"][l] = "run"]
        /\ tab' = [tab EXCEPT !["C"] = Joined(tab["C"], l)]
        /\ UNCHANGED <<place, talk, toC>>
    BY <1>6 DEF ClientJoins
  <2>2. tab' \in [Ends -> TabTypes] /\ lane' \in [Ends -> [Lanes -> LaneStates]] /\ AllOwned'
    BY <2>1, JoinKeepsShape DEF Ends
  <2>3. Shape'
    BY <1>a, <1>c, <1>d, <2>1, <2>2, Typed, ShapeFrom
  <2>4. /\ InOrder'
        /\ \A k \in Lanes : lane'["S"][k] \in {"dial", "run"} <=> lane["S"][k] \in {"dial", "run"}
    BY <2>1, OneLane DEF Ends, LaneStates
  <2>5. WithinShare'
    BY <1>b, <2>1, <2>4, SameShare
  <2> QED
    BY <2>2, <2>3, <2>4, <2>5
<1>7. CASE ClientFails(l) \/ ClientRetires(l)
  <2>1. CASE UNCHANGED <<lane, tab, place, talk>>
    <3>1. toC' = toC
      BY <1>7 DEF ClientFails, ClientRetires
    <3>2. Shape'
      BY <1>a, <1>c, <1>d, <2>1, <3>1, Typed, ShapeFrom
    <3> QED
      BY <2>1, <3>1, <3>2 DEF InOrder, DialedTo, AllOwned, WithinShare, Unended
  <2>2. CASE lane["C"][l] \in {"dial", "run"} /\ lane' = [lane EXCEPT !["C"][l] = "ended"]
    <3>1. toC' = toC
      BY <1>7 DEF ClientFails, ClientRetires
    <3>2. \/ Vacate("C", l)
          \/ lane["C"][l] = "dial" /\ UNCHANGED <<tab, place, talk>>
      <4>1. CASE ClientFails(l)
        BY <4>1 DEF ClientFails, hubs
      <4>2. CASE ClientRetires(l)
        <5>1. lane'["C"][l] = "ended" /\ lane["C"][l] = "run"
          BY <2>2, <4>2, Typed DEF ClientRetires
        <5> QED
          BY <4>2, <5>1 DEF ClientRetires
      <4> QED
        BY <1>7, <4>1, <4>2
    <3>3. /\ tab' \in [Ends -> TabTypes] /\ lane' \in [Ends -> [Lanes -> LaneStates]]
          /\ place' \in [Ends -> [Flows -> 0..MaxLanes]] /\ talk' \in [Ends -> SUBSET Flows]
          /\ AllOwned'
      <4>1. CASE Vacate("C", l)
        BY <2>2, <4>1, LeaveKeepsShape DEF Ends
      <4>2. CASE lane["C"][l] = "dial" /\ UNCHANGED <<tab, place, talk>>
        <5>1. tab' \in [Ends -> TabTypes] /\ lane' \in [Ends -> [Lanes -> LaneStates]] /\ AllOwned'
          BY <2>2, <4>2, WaitKeepsShape DEF Ends
        <5> QED
          BY <4>2, <5>1, Typed
      <4> QED
        BY <3>2, <4>1, <4>2
    <3>4. Shape'
      BY <1>a, <1>c, <1>d, <3>1, <3>3, Typed, ShapeFrom
    <3>5. /\ InOrder'
          /\ \A k \in Lanes : lane'["S"][k] \in {"dial", "run"} <=> lane["S"][k] \in {"dial", "run"}
      BY <2>2, OneLane DEF Ends, LaneStates
    <3>6. WithinShare'
      BY <1>b, <3>1, <3>5, SameShare
    <3> QED
      BY <3>3, <3>4, <3>5, <3>6
  <2>3. \/ UNCHANGED <<lane, tab, place, talk>>
        \/ lane["C"][l] \in {"dial", "run"} /\ lane' = [lane EXCEPT !["C"][l] = "ended"]
    BY <1>7 DEF ClientFails, ClientRetires, hubs
  <2> QED
    BY <2>1, <2>2, <2>3
<1> QED
  BY <1>1, <1>2, <1>3, <1>4, <1>5, <1>6, <1>7

(* The next lane to dial is one that neither end knows.                    *)
LEMMA NextLane ==
  ASSUME Shape, InOrder, Made # Lanes
  PROVE  \E k \in 0..MaxLanes :
           DialedTo(k) /\ Cardinality(Made) = k /\ k + 1 \in Lanes /\ k \in Nat
<1>1. PICK k \in 0..MaxLanes : DialedTo(k)
  BY DEF InOrder
<1>2. k \in Nat /\ MaxLanes \in Nat
  BY LaneConstants
<1>3. Made = 1..k
  <2>1. \A l : l \in Made <=> l \in 1..k
    BY <1>1, <1>2 DEF Made, DialedTo, Lanes, Ends
  <2> QED
    BY <2>1
<1>4. Cardinality(1..k) = k
  BY <1>2, FS_Interval
<1>5. k # MaxLanes
  BY <1>3 DEF Lanes
<1>6. k + 1 \in Lanes
  BY <1>2, <1>5 DEF Lanes
<1> QED
  BY <1>1, <1>2, <1>3, <1>4, <1>6

(* The client reads a request for a lane, or an answer.                    *)
LEMMA ReadsKeepInv ==
  ASSUME LaneInv, ClientReads
  PROVE  LaneInv'
<1> USE DEF LaneInv
<1> DEFINE M == Answers \cup {Create}
           h == Head(toC)
           q == Tail(toC)
<1>1. /\ toC # <<>> /\ toC' = q /\ h \in M /\ q \in Seq(M)
      /\ UNCHANGED <<tab, place, talk, woken, asked, found, announced, toS>>
  BY Typed DEF ClientReads, hubs
<1>2. Cardinality(Asking(q)) =
        IF h = Create THEN Cardinality(Asking(toC)) - 1 ELSE Cardinality(Asking(toC))
  <2>1. toC \in Seq(M)
    BY Typed
  <2> HIDE DEF M
  <2> QED
    BY <1>1, <2>1, OneMessageTaken
<1>3. CASE UNCHANGED <<lane, conn>>
  <2>1. answer' \in [Lanes -> AckStates \cup {"none"}]
    <3>1. CASE h = Create
      BY <1>1, <3>1, Typed DEF ClientReads
    <3>2. CASE h # Create
      <4>1. h.lane \in Lanes /\ h.cmd \in AckStates
        BY <1>1, <3>2 DEF Answers
      <4> QED
        BY <3>2, <4>1, Typed DEF ClientReads
    <3> QED
      BY <3>1, <3>2
  <2>2. Shape'
    BY <1>1, <1>3, <2>1, Typed, ShapeFrom
  <2>3. InOrder' /\ AllOwned' /\ Unended' = Unended
    BY <1>1, <1>3 DEF InOrder, DialedTo, AllOwned, Unended
  <2> HIDE DEF h, q
  <2>4. Cardinality(Unended) + Cardinality(Asking(toC')) <= Share
    BY <1>1, <1>2, ShareFacts
  <2> QED
    BY <2>2, <2>3, <2>4 DEF WithinShare, Asking
<1>4. CASE h = Create /\ Made # Lanes /\ ~UNCHANGED <<lane, conn>>
  <2>1. PICK k \in 0..MaxLanes :
          DialedTo(k) /\ Cardinality(Made) = k /\ k + 1 \in Lanes /\ k \in Nat
    BY <1>4, NextLane
  <2> DEFINE l == k + 1
  <2>2. /\ lane' = [e \in Ends |-> [lane[e] EXCEPT ![l] = "dial"]]
        /\ conn' = [conn EXCEPT ![l] = "up"] /\ answer' = answer
    BY <1>4, <2>1 DEF ClientReads
  <2>3. l \in Lanes /\ \A e \in Ends : lane[e][l] = "none"
    BY <2>1 DEF DialedTo
  <2>4. /\ lane' \in [Ends -> [Lanes -> LaneStates]]
        /\ \A e \in Ends, i \in Lanes : lane'[e][i] = IF i = l THEN "dial" ELSE lane[e][i]
    BY <2>2, <2>3, Typed DEF LaneStates
  <2>5. conn' \in [Lanes -> {"none", "up", "down"}]
    BY <2>2, <2>3, Typed
  <2>6. Shape'
    BY <1>1, <2>2, <2>4, <2>5, Typed, ShapeFrom
  <2>7. InOrder'
    <3>1. DialedTo(l)'
      <4>1. \A i \in Lanes : i \in Nat
        BY LaneConstants DEF Lanes
      <4> QED
        BY <2>1, <2>4, <4>1 DEF DialedTo
    <3>2. l \in 0..MaxLanes
      BY <2>1, LaneConstants DEF Lanes
    <3> QED
      BY <3>1, <3>2 DEF InOrder
  <2>8. AllOwned'
    <3> SUFFICES ASSUME NEW e \in Ends PROVE Owned(tab'[e], lane'[e])
      BY DEF AllOwned
    <3>1. /\ Owned(tab[e], lane[e]) /\ tab'[e] = tab[e]
          /\ \A s \in Slots : tab[e].slot[s].lane \in 0..MaxLanes
      BY <1>1, Typed DEF AllOwned, TabTypes, SlotTypes
    <3>2. \A i \in Lanes : lane'[e][i] = "run" <=> lane[e][i] = "run"
      BY <2>3, <2>4
    <3> QED
      BY <3>1, <3>2, SameHolders
  <2>9. Unended' = Unended \cup {l} /\ l \notin Unended
    <3>1. "S" \in Ends
      BY DEF Ends
    <3>2. \A i : i \in Unended' <=> i \in Unended \/ i = l
      BY <2>3, <2>4, <3>1 DEF Unended
    <3>3. l \notin Unended
      BY <2>3, <3>1 DEF Unended
    <3> QED
      BY <3>2, <3>3
  <2> HIDE DEF h, q, l
  <2>10. Cardinality(Unended') = Cardinality(Unended) + 1
    BY <2>9, ShareFacts, FS_AddElement
  <2>11. Cardinality(Unended') + Cardinality(Asking(toC')) <= Share
    BY <1>1, <1>2, <1>4, <2>10, ShareFacts
  <2> QED
    BY <2>6, <2>7, <2>8, <2>11 DEF WithinShare, Asking
<1>5. UNCHANGED <<lane, conn>> \/ (h = Create /\ Made # Lanes)
  BY DEF ClientReads
<1> QED
  BY <1>3, <1>4, <1>5

(* The drain's commands, answers and marks.                                *)
LEMMA DrainsKeepInv ==
  ASSUME LaneInv,
         ServerReads \/ RetireLane \/ \E l \in Lanes : AskDrain(l) \/ CallOff(l) \/ TakeAnswer(l) \/ Report(l)
  PROVE  LaneInv'
<1> USE DEF LaneInv
<1>a. UNCHANGED <<place, talk, lane, conn>>
  BY DEF ServerReads, RetireLane, AskDrain, CallOff, TakeAnswer, Report, hubs, tasks
<1>b. PICK x0 : x0 \in Answers
  BY SomeAnswer
<1>c. InOrder'
  BY <1>a DEF InOrder, DialedTo
<1>1. ASSUME NEW l \in Lanes, AskDrain(l) \/ CallOff(l) PROVE LaneInv'
  <2>1. PICK c \in {"drain", "cancel"} : toS' = Append(toS, [cmd |-> c, lane |-> l])
    BY <1>1 DEF AskDrain, CallOff
  <2>2. toS' \in Seq(Commands)
    <3> DEFINE m == [cmd |-> c, lane |-> l]
    <3>1. m \in Commands /\ toS \in Seq(Commands)
      BY Typed DEF Commands
    <3> HIDE DEF m
    <3>2. Append(toS, m) \in Seq(Commands)
      BY <3>1
    <3> QED
      BY <2>1, <3>2 DEF m
  <2>3. /\ UNCHANGED <<tab, woken, announced, found, answer, toC>>
        /\ asked' \subseteq Lanes
    BY <1>1, Typed DEF AskDrain, CallOff, hubs, tasks
  <2>4. Shape'
    BY <1>a, <2>2, <2>3, Typed, ShapeFrom
  <2> QED
    BY <1>a, <1>c, <2>3, <2>4 DEF AllOwned, WithinShare, Unended
<1>2. ASSUME NEW l \in Lanes, TakeAnswer(l) PROVE LaneInv'
  <2>1. UNCHANGED <<tab, woken, announced, toC, toS>> /\ answer' = [answer EXCEPT ![l] = "none"]
        /\ (asked' = asked \/ asked' = asked \ {l})
    BY <1>2 DEF TakeAnswer, hubs, tasks
  <2>2. found' \in Finds
    <3>1. CASE Holds("C", l) /\ found' = [lane |-> l, slot |-> SlotOf("C", l)]
      BY <3>1, SlotFound DEF Ends, Finds
    <3> QED
      BY <1>2, <3>1, Typed DEF TakeAnswer
  <2>3. answer' \in [Lanes -> AckStates \cup {"none"}] /\ asked' \subseteq Lanes
    BY <2>1, Typed
  <2>4. Shape'
    BY <1>a, <2>1, <2>2, <2>3, Typed, ShapeFrom
  <2> QED
    BY <1>a, <1>c, <2>1, <2>4 DEF AllOwned, WithinShare, Unended
<1>3. ASSUME NEW l \in Lanes, NEW x \in AckStates,
             toC' = Append(toC, Ack(l, x)) \/ toC' = toC
      PROVE  WithinShare' /\ toC' \in Seq(Answers \cup {Create})
  <2> DEFINE m == Ack(l, x)
  <2>1. m \in Answers
    BY AckType
  <2> HIDE DEF m
  <2>2. toC' = Append(toC, m) \/ toC' = toC
    BY <1>3 DEF m
  <2>3. WithinShare'
    BY <1>a, <2>1, <2>2, SameShare
  <2>4. Append(toC, m) \in Seq(Answers \cup {Create})
    BY <2>1, Typed
  <2> QED
    BY <2>2, <2>3, <2>4, Typed
<1>4. CASE ServerReads
  <2> DEFINE m == Head(toS)
             l == m.lane
             drain == m.cmd = "drain"
  <2>1. m \in Commands /\ Tail(toS) \in Seq(Commands) /\ toS' = Tail(toS)
    BY <1>4, Typed DEF ServerReads
  <2>2. l \in Lanes /\ drain \in BOOLEAN
    BY <2>1 DEF Commands
  <2>3. UNCHANGED <<woken, asked, found, announced, answer>>
    BY <1>4 DEF ServerReads, tasks, drains
  <2>4. \E x \in AckStates : toC' = Append(toC, Ack(l, x))
    BY <1>4 DEF ServerReads, AckStates
  <2>5. \/ tab' = tab
        \/ /\ Holds("S", l)
           /\ tab' = [tab EXCEPT !["S"].slot[SlotOf("S", l)].peer = drain]
    BY <1>4 DEF ServerReads, Marks
  <2> HIDE DEF m, l, drain
  <2>6. WithinShare' /\ toC' \in Seq(Answers \cup {Create})
    BY <1>3, <2>2, <2>4
  <2>7. tab' \in [Ends -> TabTypes] /\ AllOwned'
    <3>1. CASE tab' = tab
      BY <1>a, <3>1, Typed DEF AllOwned
    <3>2. CASE Holds("S", l) /\ tab' = [tab EXCEPT !["S"].slot[SlotOf("S", l)].peer = drain]
      BY <1>a, <2>2, <3>2, SlotFound, MarkKeepsOwned DEF Ends
    <3> QED
      BY <2>5, <3>1, <3>2
  <2>8. Shape'
    BY <1>a, <2>1, <2>3, <2>6, <2>7, Typed, ShapeFrom
  <2> QED
    BY <1>c, <2>6, <2>7, <2>8
<1>5. ASSUME NEW l \in Lanes, Report(l) PROVE LaneInv'
  <2>1. UNCHANGED <<tab, woken, asked, found, answer, toS>>
    BY <1>5 DEF Report, hubs, tasks
  <2>2. announced' \subseteq Lanes
    BY <1>5, Typed DEF Report
  <2>3. toC' = Append(toC, Ack(l, "ready")) \/ toC' = toC
    BY <1>5 DEF Report
  <2>4. "ready" \in AckStates
    BY DEF AckStates
  <2>5. WithinShare' /\ toC' \in Seq(Answers \cup {Create})
    BY <1>3, <2>3, <2>4
  <2>6. Shape'
    BY <1>a, <2>1, <2>2, <2>5, Typed, ShapeFrom
  <2> QED
    BY <1>a, <1>c, <2>1, <2>5, <2>6 DEF AllOwned
<1>6. CASE RetireLane
  <2>1. /\ found \in [lane : Lanes, slot : Slots] /\ found' = NoneFound
        /\ asked' = asked \ {found.lane} /\ UNCHANGED <<answer, announced, toC, toS>>
    BY <1>6, Typed DEF RetireLane, Finds
  <2>2. /\ tab' = tab \/ tab' = [tab EXCEPT !["C"].slot[found.slot].drain = TRUE]
        /\ \/ woken' = woken
           \/ woken' = woken \cup {tab'["C"].slot[s].lane : s \in {s \in Live("C") : tab'["C"].slot[s].drain}}
    BY <1>6 DEF RetireLane
  <2>3. /\ tab' \in [Ends -> TabTypes] /\ AllOwned'
        /\ \A s \in Slots : tab'["C"].slot[s].lane = tab["C"].slot[s].lane
    <3>1. CASE tab' = tab
      BY <1>a, <3>1, Typed DEF AllOwned
    <3>2. CASE tab' = [tab EXCEPT !["C"].slot[found.slot].drain = TRUE]
      BY <1>a, <2>1, <3>2, MarkKeepsOwned DEF Ends
    <3> QED
      BY <2>2, <3>1, <3>2
  <2>4. \A s \in Live("C") : tab'["C"].slot[s].lane \in Lanes
    <3> SUFFICES ASSUME NEW s \in Live("C") PROVE tab["C"].slot[s].lane \in Lanes
      BY <2>3 DEF Live
    <3>1. tab["C"].slot[s].lane \in 0..MaxLanes /\ tab["C"].slot[s].lane # 0
      BY Typed DEF Live, TabTypes, SlotTypes
    <3> QED
      BY <3>1, LaneConstants DEF Lanes
  <2>5. woken' \subseteq Lanes /\ asked' \subseteq Lanes
    <3> DEFINE W == {tab'["C"].slot[s].lane : s \in {s \in Live("C") : tab'["C"].slot[s].drain}}
    <3>1. W \subseteq Lanes
      BY <2>4
    <3>2. woken' = woken \/ woken' = woken \cup W
      BY <2>2
    <3> HIDE DEF W
    <3> QED
      BY <2>1, <3>1, <3>2, Typed
  <2>6. Shape'
    BY <1>a, <2>1, <2>3, <2>5, Typed, ShapeFrom DEF Finds
  <2> QED
    BY <1>a, <1>c, <2>1, <2>3, <2>6 DEF WithinShare, Unended
<1> QED
  BY <1>1, <1>2, <1>4, <1>5, <1>6

LEMMA LaneInvInit == LaneInit => LaneInv
<1> SUFFICES ASSUME LaneInit PROVE LaneInv
  OBVIOUS
<1>0. Share \in Nat \ {0} /\ MaxLanes \in Nat \ {0} /\ Share <= MaxLanes
  BY LaneConstants
<1>1. Full \in TabTypes /\ Full.on /\ \A s \in Slots : Full.slot[s].lane = IF s <= Share THEN s ELSE 0
  <2> DEFINE x(s) == [EmptySlot EXCEPT !.lane = IF s <= Share THEN s ELSE 0]
             g == [s \in Slots |-> x(s)]
  <2>1. \A s \in Slots : x(s) \in SlotTypes /\ x(s).lane = IF s <= Share THEN s ELSE 0
    <3> SUFFICES ASSUME NEW s \in Slots
                 PROVE  x(s) \in SlotTypes /\ x(s).lane = IF s <= Share THEN s ELSE 0
      OBVIOUS
    <3> DEFINE y == IF s <= Share THEN s ELSE 0
    <3>1. y \in 0..MaxLanes
      BY <1>0 DEF Slots
    <3>2. x(s) = [EmptySlot EXCEPT !.lane = y]
      OBVIOUS
    <3> HIDE DEF y, x
    <3>3. x(s) \in SlotTypes /\ x(s).lane = y
      BY <3>1, <3>2 DEF SlotTypes, EmptySlot
    <3> QED
      BY <3>3 DEF y
  <2> HIDE DEF x
  <2>2. g \in [Slots -> SlotTypes] /\ \A s \in Slots : g[s] = x(s)
    BY <2>1
  <2>3. Full = [on |-> TRUE, wire |-> TRUE, wide |-> Share, slot |-> g] /\ Share \in Slots
    <3>1. Share \in Slots
      BY <1>0 DEF Slots
    <3> QED
      BY <3>1 DEF Full, x
  <2> HIDE DEF g
  <2> QED
    BY <2>1, <2>2, <2>3 DEF TabTypes
<1>2. Shape
  <2>1. <<>> \in Seq(Answers \cup {Create}) /\ <<>> \in Seq(Commands)
    OBVIOUS
  <2> QED
    BY <1>0, <1>1, <2>1 DEF LaneInit, Shape, LaneTypeOK, TabTypes, SlotTypes
<1>3. \A e \in Ends, l \in Lanes : lane[e][l] = IF l <= Share THEN "run" ELSE "none"
  BY DEF LaneInit
<1>4. InOrder
  <2>1. DialedTo(Share)
    BY <1>0, <1>3 DEF DialedTo, Lanes
  <2> QED
    BY <1>0, <2>1 DEF InOrder
<1>5. AllOwned
  <2> SUFFICES ASSUME NEW e \in Ends PROVE Owned(Full, lane[e])
    BY DEF AllOwned, LaneInit
  <2>1. \A s \in Slots : Full.slot[s].lane # 0 => lane[e][Full.slot[s].lane] = "run"
    BY <1>1, <1>3 DEF Slots, Lanes
  <2>2. \A l \in Lanes : lane[e][l] = "run" => Full.on /\ \E s \in Slots : Full.slot[s].lane = l
    BY <1>1, <1>3 DEF Slots, Lanes
  <2>3. \A s, r \in Slots : Full.slot[s].lane # 0 /\ Full.slot[s].lane = Full.slot[r].lane => s = r
    BY <1>1 DEF Slots
  <2> QED
    BY <2>1, <2>2, <2>3 DEF Owned
<1>6. WithinShare
  <2>1. Unended = 1..Share
    <3>1. \A l : l \in Unended <=> l \in 1..Share
      BY <1>0, <1>3 DEF Unended, Lanes, Ends
    <3> QED
      BY <3>1
  <2>2. Cardinality(1..Share) = Share
    BY <1>0, FS_Interval
  <2>3. {i \in DOMAIN toC : toC[i] = Create} = {}
    BY DEF LaneInit
  <2>4. Cardinality({i \in DOMAIN toC : toC[i] = Create}) = 0
    BY <2>3, FS_EmptySet
  <2> QED
    BY <1>0, <2>1, <2>2, <2>4 DEF WithinShare
<1> QED
  BY <1>2, <1>4, <1>5, <1>6 DEF LaneInv

LEMMA StepKeepsLanes == LaneInv /\ [LaneNext]_laneVars => LaneInv'
<1> SUFFICES ASSUME LaneInv, [LaneNext]_laneVars PROVE LaneInv'
  OBVIOUS
<1>1. CASE UNCHANGED laneVars
  <2>1. UNCHANGED <<tab, place, talk, lane, conn, woken, asked, found, answer, announced, toC, toS>>
    BY <1>1 DEF laneVars, hubs, tasks, drains
  <2> QED
    BY <2>1 DEF LaneInv, Shape, LaneTypeOK, InOrder, DialedTo, AllOwned, WithinShare, Unended
<1>2. CASE LaneNext
  BY <1>2, FlowsKeepInv, TasksKeepInv, ReadsKeepInv, DrainsKeepInv DEF LaneNext
<1> QED
  BY <1>1, <1>2

(* For any flows, share, lanes, faults and drains: a lane that runs holds  *)
(* exactly one slot of its end's set and no slot is held by one that does  *)
(* not, and the lanes the server may run and the replacements it asked for *)
(* never exceed the claim's share.                                         *)
THEOREM LanesAreSafe == LaneSpec => []LaneSafe
<1>1. LaneInv => LaneSafe
  <2> SUFFICES ASSUME LaneInv PROVE LaneTypeOK /\ SlotsOwned /\ WithinShare
    BY DEF LaneSafe
  <2>1. SlotsOwned
    <3> SUFFICES ASSUME NEW e \in Ends
                 PROVE  /\ \A s \in Live(e) : lane[e][tab[e].slot[s].lane] = "run"
                        /\ \A l \in Lanes : lane[e][l] = "run" =>
                             tab[e].on /\ Cardinality({s \in Slots : tab[e].slot[s].lane = l}) = 1
      BY DEF SlotsOwned
    <3>1. Owned(tab[e], lane[e])
      BY DEF LaneInv, AllOwned
    <3>2. ASSUME NEW l \in Lanes, lane[e][l] = "run"
          PROVE  tab[e].on /\ Cardinality({s \in Slots : tab[e].slot[s].lane = l}) = 1
      <4>1. PICK s \in Slots : tab[e].slot[s].lane = l
        BY <3>1, <3>2 DEF Owned
      <4>2. l # 0
        BY TableType
      <4>3. {r \in Slots : tab[e].slot[r].lane = l} = {s}
        BY <3>1, <4>1, <4>2 DEF Owned
      <4> QED
        BY <3>1, <3>2, <4>3, FS_Singleton DEF Owned
    <3> QED
      BY <3>1, <3>2 DEF Owned, Live
  <2> QED
    BY <2>1 DEF LaneInv, Shape
<1> QED
  BY LaneInvInit, StepKeepsLanes, <1>1, PTL DEF LaneSpec

-----------------------------------------------------------------------------
(***************************************************************************)
(* The carrier rule and its probe, for any tunnels, any numbers of         *)
(* confirmations and any retry, cooling, probe and backoff periods.        *)
(***************************************************************************)

SlotKinds == {Absent} \cup [carrier : Carriers, phase : {"serving", "draining"}]
MovesOn == [tunnel : Tunnels, target : Carriers, phase : {"draining", "dialing"}]
ProbeKinds == [active : Carriers \cup {None}, left : 0..ProbeMax, backoff : 0..Backoff]
Judgements == {"hold", "move", "revert"}
TaskAt == {"rule", "judge", "relock", "decide", "want_state", "convict", "reap"} \cup Carriers

(* The preferred carrier and the clocks that hold it.                      *)
ChoiceOk == chosen \in Carriers /\ retryIn \in 0..(Cool + Retry) /\ heldFor \in 0..Cool

(* Only the tunnel of the handover under way drains: without this part a   *)
(* handover could not be shown to leave the other slots as they were.      *)
PoolOk == /\ slots \in [Tunnels -> SlotKinds]
          /\ move \in {NoMove} \cup MovesOn
          /\ \A t \in Tunnels : slots[t].phase = "draining" => move \in MovesOn /\ move.phase = "draining" /\ move.tunnel = t
ProbeOk == probe \in ProbeKinds

(* A probe's judgement other than hold is in hand only between its reading *)
(* and its use, and while that probe is active.                            *)
WinOk == /\ win.probed \in Judgements
         /\ win.probed # "hold" => mpc \in {"judge", "relock"} /\ probe.active \in Carriers
StreakOk == streak \in 0..Confirm
RestOk == /\ mpc \in TaskAt /\ reaching \in BOOLEAN /\ baseline \in BOOLEAN
          /\ stateBy \in Openers \cup {""} /\ probeBy \in {"", "m"} /\ broken \in BOOLEAN

(* A streak that a quiet window interrupted is dropped before the task     *)
(* gets past its decision, since that window accuses and suspects nobody:  *)
(* this part makes MoveEarned inductive.                                   *)
Unearned == broken => /\ mpc \in {"judge", "relock", "decide"}
                      /\ win.guilty = None /\ ~win.share

CarrierInv == ChoiceOk /\ PoolOk /\ ProbeOk /\ WinOk /\ StreakOk /\ RestOk /\ Unearned

LEMMA Periods ==
  /\ Confirm \in Nat \ {0} /\ Retry \in Nat \ {0} /\ Cool \in Nat \ {0}
  /\ ProbeMax \in Nat \ {0} /\ Backoff \in Nat \ {0}
BY CarrierAssumption

LEMMA CarrierBegins == CarrierInit => CarrierInv
<1> SUFFICES ASSUME CarrierInit PROVE CarrierInv
  OBVIOUS
<1>0. Born \in Carriers
  BY CarrierAssumption DEF Carriers
<1>a. chosen = Born /\ heldFor = 0 /\ retryIn \in {0, Retry}
  BY DEF CarrierInit
<1>b. probe = NoProbe /\ streak = 0
  BY DEF CarrierInit
<1>1. ChoiceOk
  BY <1>0, <1>a, Periods DEF ChoiceOk
<1>2. PoolOk
  BY <1>0 DEF CarrierInit, PoolOk, SlotKinds, Fresh
<1>3. ProbeOk
  BY <1>b, Periods DEF ProbeOk, ProbeKinds, NoProbe
<1>4. WinOk
  BY DEF CarrierInit, WinOk, Judgements, NoWindow
<1>5. StreakOk
  BY <1>b, Periods DEF StreakOk
<1>6. RestOk
  BY DEF CarrierInit, RestOk, TaskAt
<1>7. Unearned
  BY DEF CarrierInit, Unearned
<1> QED
  BY <1>1, <1>2, <1>3, <1>4, <1>5, <1>6, <1>7 DEF CarrierInv

LEMMA ChoiceKept ==
  ASSUME ChoiceOk, UNCHANGED choice
  PROVE  ChoiceOk'
BY DEF ChoiceOk, choice

LEMMA Preferred ==
  ASSUME ChoiceOk, NEW c \in Carriers, Prefer(c)
  PROVE  ChoiceOk'
BY Periods DEF ChoiceOk, Prefer, Prefers, choice

LEMMA Failed ==
  ASSUME ChoiceOk, OnKcpFailure
  PROVE  ChoiceOk'
BY Periods DEF ChoiceOk, OnKcpFailure, choice, Carriers

LEMMA PoolKept ==
  ASSUME PoolOk, UNCHANGED pool
  PROVE  PoolOk'
BY DEF PoolOk, pool

LEMMA NoneDraining ==
  ASSUME PoolOk, move = NoMove, NEW t \in Tunnels
  PROVE  slots[t].phase # "draining"
BY DEF PoolOk, NoMove, Moving, None

LEMMA HandoverBegun ==
  ASSUME PoolOk, NEW from, NEW target \in Carriers, NEW preferred, NEW pinned,
         BeginHandoverOn(from, target, preferred, pinned)
  PROVE  PoolOk'
<1>1. CASE UNCHANGED pool
  BY <1>1, PoolKept
<1>2. CASE \E t \in Serves : /\ move = NoMove
                             /\ slots' = [slots EXCEPT ![t].phase = "draining"]
                             /\ move' = Moving(t, target, "draining")
  <2> PICK t \in Serves : /\ move = NoMove
                          /\ slots' = [slots EXCEPT ![t].phase = "draining"]
                          /\ move' = Moving(t, target, "draining")
    BY <1>2
  <2>1. t \in Tunnels /\ slots \in [Tunnels -> SlotKinds] /\ slots[t] # Absent
    BY DEF Serves, Held, PoolOk
  <2>2. slots[t] \in [carrier : Carriers, phase : {"serving", "draining"}]
    BY <2>1 DEF SlotKinds
  <2>3. slots' = [slots EXCEPT ![t] = [slots[t] EXCEPT !.phase = "draining"]]
    BY <2>1
  <2>4. [slots[t] EXCEPT !.phase = "draining"] \in [carrier : Carriers, phase : {"serving", "draining"}]
    BY <2>2
  <2>5. slots' \in [Tunnels -> SlotKinds]
    BY <2>1, <2>3, <2>4 DEF SlotKinds
  <2>6. move' \in MovesOn /\ move'.phase = "draining" /\ move'.tunnel = t
    BY <2>1 DEF MovesOn, Moving
  <2>7. ASSUME NEW u \in Tunnels, slots'[u].phase = "draining" PROVE u = t
    BY <2>1, <2>3, <2>7, NoneDraining
  <2> QED
    BY <2>5, <2>6, <2>7 DEF PoolOk
<1>3. CASE MayHandOver(from, target, pinned)
  BY <1>2, <1>3 DEF BeginHandoverOn, MayHandOver, Eligible
<1> QED
  BY <1>1, <1>3 DEF BeginHandoverOn

LEMMA SlotLooks ==
  ASSUME NEW s \in SlotKinds
  PROVE  s = Absent \/ (s.carrier \in Carriers /\ s.phase \in {"serving", "draining"})
BY DEF SlotKinds

LEMMA Frees ==
  ASSUME NEW c \in Carriers
  PROVE  Fresh(c) \in SlotKinds /\ Fresh(c).phase = "serving" /\ Absent \in SlotKinds
         /\ Absent.phase = None
BY DEF Fresh, SlotKinds, Absent

(* What a tick makes of the tunnels that died and of the handover.         *)
LEMMA TickKeepsPool ==
  ASSUME PoolOk, NEW dead, NEW r \in HandoverResults(Reaped(dead)),
         slots' = r[1], move' = r[2]
  PROVE  PoolOk'
<1> DEFINE es == Reaped(dead)
           T == move.tunnel
           M == [move EXCEPT !.phase = "dialing"]
<1>1. /\ es \in [Tunnels -> SlotKinds]
      /\ \A t \in Tunnels : es[t].phase = "draining" => slots[t].phase = "draining"
  <2>1. es \in [Tunnels -> SlotKinds]
    BY DEF PoolOk, Reaped, SlotKinds
  <2>2. ASSUME NEW t \in Tunnels, es[t].phase = "draining" PROVE slots[t].phase = "draining"
    BY <2>2, t \in Tunnels DEF Reaped, Absent, None
  <2> QED
    BY <2>1, <2>2
<1> HIDE DEF es
<1>2. CASE move = NoMove
  <2>1. r = <<es, NoMove>>
    BY <1>2 DEF HandoverResults, es, NoMove, Moving, None
  <2>2. \A t \in Tunnels : es[t].phase # "draining"
    BY <1>1, <1>2, NoneDraining
  <2> QED
    BY <1>1, <2>1, <2>2 DEF PoolOk
<1>3. CASE move # NoMove
  <2>1. move \in MovesOn
    BY <1>3 DEF PoolOk
  <2>2. T \in Tunnels /\ M \in MovesOn /\ move.phase \in {"draining", "dialing"}
    BY <2>1 DEF MovesOn
  <2>3. \A t \in Tunnels : es[t].phase = "draining" => t = T /\ move.phase = "draining"
    BY <1>1 DEF PoolOk
  <2>4. CASE move.phase = "dialing"
    <3>1. r = <<es, move>> \/ r = <<es, NoMove>>
      BY <1>3, <2>4 DEF HandoverResults, es
    <3> QED
      BY <1>1, <2>1, <2>3, <2>4, <3>1 DEF PoolOk
  <2>5. CASE move.phase = "draining" /\ es[T] = Absent
    <3>1. r = <<es, NoMove>>
      BY <1>3, <2>5 DEF HandoverResults, es
    <3>2. \A t \in Tunnels : es[t].phase # "draining"
      BY <2>3, <2>5, <2>2 DEF Absent, None
    <3> QED
      BY <1>1, <3>1, <3>2 DEF PoolOk
  <2>6. CASE move.phase = "draining" /\ es[T] # Absent
    <3> DEFINE F == [es EXCEPT ![T] = Fresh(es[T].carrier)]
               A == [es EXCEPT ![T] = Absent]
    <3>1. r \in {<<es, move>>, <<F, NoMove>>, <<A, NoMove>>, <<A, M>>}
      BY <1>3, <2>6 DEF HandoverResults, es
    <3>2. es[T].carrier \in Carriers
      BY <1>1, <2>2, <2>6, SlotLooks
    <3>3. F \in [Tunnels -> SlotKinds] /\ \A t \in Tunnels : F[t].phase # "draining"
      BY <1>1, <2>2, <2>3, <3>2, Frees
    <3>4. A \in [Tunnels -> SlotKinds] /\ \A t \in Tunnels : A[t].phase # "draining"
      BY <1>1, <2>2, <2>3, <3>2, Frees DEF None
    <3> HIDE DEF F, A, M
    <3>5. CASE r = <<es, move>>
      BY <1>1, <2>1, <2>3, <3>5 DEF PoolOk
    <3>6. CASE r = <<F, NoMove>>
      BY <3>3, <3>6 DEF PoolOk
    <3>7. CASE r = <<A, NoMove>> \/ r = <<A, M>>
      BY <2>2, <3>4, <3>7 DEF PoolOk
    <3> QED
      BY <3>1, <3>5, <3>6, <3>7
  <2> QED
    BY <2>2, <2>4, <2>5, <2>6
<1> QED
  BY <1>2, <1>3

(* Only a window of a running probe is judged.                             *)
LEMMA Judges ==
  ASSUME PoolOk, ProbeOk, NEW w
  PROVE  Outcome(w) \in Judgements /\ (Outcome(w) # "hold" => probe.active \in Carriers)
<1>1. Outcome(w) \in Judgements
  BY DEF Outcome, ProbeVerdict, Judgements
<1>2. ASSUME probe.active = None PROVE Outcome(w) = "hold"
  <2>1. ProbeTunnelOf(probe.active) = {}
    <3> SUFFICES ASSUME NEW t \in Serves, slots[t].carrier = None PROVE FALSE
      BY <1>2 DEF ProbeTunnelOf
    <3>1. t \in Tunnels /\ slots[t] # Absent /\ slots[t] \in SlotKinds
      BY DEF Serves, Held, PoolOk
    <3> QED
      BY <3>1, SlotLooks DEF Carriers, None
  <2> QED
    BY <2>1, FS_EmptySet DEF Outcome
<1> QED
  BY <1>1, <1>2 DEF ProbeOk, ProbeKinds

LEMMA ClockRuns ==
  ASSUME ChoiceOk, ProbeOk, TimePasses
  PROVE  ChoiceOk' /\ ProbeOk' /\ probe'.active = probe.active
<1>1. ChoiceOk'
  BY Periods DEF ChoiceOk, TimePasses, Less
<1> DEFINE l == Less(probe.left)
           b == Less(probe.backoff)
<1>2. l \in 0..ProbeMax /\ b \in 0..Backoff
  BY Periods DEF ProbeOk, ProbeKinds, Less
<1>3. probe' = [probe EXCEPT !.left = l, !.backoff = b]
  BY DEF TimePasses
<1> HIDE DEF l, b
<1>4. probe' \in ProbeKinds /\ probe'.active = probe.active
  BY <1>2, <1>3 DEF ProbeOk, ProbeKinds
<1> QED
  BY <1>1, <1>4 DEF ProbeOk

(* Every step of the maintenance task, of the dials, of the opens and of   *)
(* the clock preserves the invariant.                                      *)
LEMMA CarrierStep == CarrierInv /\ [CarrierNext]_carrierVars => CarrierInv'
<1> SUFFICES ASSUME CarrierInv, [CarrierNext]_carrierVars PROVE CarrierInv'
  OBVIOUS
<1> USE DEF CarrierInv
<1>0. Born \in Carriers /\ Other(Born) \in Carriers /\ "Tcp" \in Carriers /\ "Kcp" \in Carriers
  BY CarrierAssumption DEF Carriers, Other
<1>1. CASE RuleSamples
  <2> USE <1>1
  <2>seen. \/ win' = NoWindow /\ broken' = broken
           \/ /\ baseline /\ \E w : win'.probed = Outcome(w)
              /\ broken' => broken \/ (~win'.share /\ win'.guilty = None)
    <3> PICK raw \in [Held -> Windows], old \in SUBSET Held :
         LET w == [t \in Held |-> Counted(t, raw[t])]
             seen == [guilty  |-> CarrierRuleVerdict(Restrict(w, old)),
                      share   |-> CarrierRuleSuspicion(Restrict(w, old)),
                      probed  |-> Outcome(w)]
         IN  /\ win' = IF baseline THEN seen ELSE NoWindow
             /\ broken' = (broken \/ (baseline /\ streak > 0 /\ ~seen.share
                                       /\ seen.guilty = None))
      BY Zenon DEF RuleSamples
    <3> DEFINE w == [t \in Held |-> Counted(t, raw[t])]
               g == CarrierRuleVerdict(Restrict(w, old))
               h == CarrierRuleSuspicion(Restrict(w, old))
               o == Outcome(w)
    <3>1. /\ win' = IF baseline THEN [guilty |-> g, share |-> h, probed |-> o] ELSE NoWindow
          /\ broken' = (broken \/ (baseline /\ streak > 0 /\ ~[guilty |-> g, share |-> h, probed |-> o].share
                                 /\ [guilty |-> g, share |-> h, probed |-> o].guilty = None))
      BY Zenon
    <3>2. o = Outcome(w)
      OBVIOUS
    <3> HIDE DEF w, g, h, o
    <3>3. CASE baseline
      <4>1. /\ win' = [guilty |-> g, share |-> h, probed |-> o]
            /\ broken' = (broken \/ (streak > 0 /\ ~h /\ g = None))
        BY <3>1, <3>3
      <4>2. win'.probed = Outcome(w) /\ win'.share = h /\ win'.guilty = g
        BY <3>2, <4>1
      <4>3. broken' => broken \/ (~win'.share /\ win'.guilty = None)
        BY <4>1, <4>2
      <4> QED
        BY <3>3, <4>2, <4>3
    <3>4. CASE ~baseline
      <4>1. win' = NoWindow
        BY <3>1, <3>4
      <4>2. broken' = broken
        BY <3>1, <3>4, Zenon DEF RestOk
      <4> QED
        BY <4>1, <4>2
    <3> QED
      BY <3>3, <3>4
  <2>choice. ChoiceOk'
    BY ChoiceKept DEF RuleSamples
  <2>pool. PoolOk'
    BY PoolKept DEF RuleSamples
  <2>probe. ProbeOk'
    BY DEF RuleSamples, ProbeOk
  <2>win. WinOk'
    <3>1. mpc' \in {"judge", "reap"} /\ (baseline => mpc' = "judge") /\ probe' = probe
      BY DEF RuleSamples
    <3>2. win' = NoWindow \/ (baseline /\ \E w : win'.probed = Outcome(w))
      BY <2>seen
    <3>3. CASE win' = NoWindow
      BY <3>3 DEF WinOk, NoWindow, Judgements
    <3>4. CASE baseline /\ \E w : win'.probed = Outcome(w)
      BY <3>1, <3>4, Judges DEF WinOk
    <3> QED
      BY <3>2, <3>3, <3>4
  <2>streak. StreakOk'
    BY Periods DEF RuleSamples, StreakOk
  <2>rest. RestOk'
    BY DEF RuleSamples, RestOk, TaskAt, locks
  <2>un. Unearned'
    <3>1. mpc = "rule"
      BY DEF RuleSamples
    <3>2. ~broken
      BY <3>1 DEF Unearned
    <3>3. broken' => mpc' = "judge" /\ win'.guilty = None /\ ~win'.share
      BY <2>seen, <3>2 DEF RuleSamples
    <3> QED
      BY <3>3 DEF Unearned
  <2> QED
    BY <2>choice, <2>pool, <2>probe, <2>win, <2>streak, <2>rest, <2>un
<1>2. CASE JudgeSpent
  <2> USE <1>2
  <2>choice. ChoiceOk'
    BY ChoiceKept DEF JudgeSpent
  <2>pool. PoolOk'
    BY PoolKept DEF JudgeSpent
  <2>probe. ProbeOk'
    BY DEF JudgeSpent, ProbeOk
  <2>win. WinOk'
    BY DEF JudgeSpent, WinOk, NoWindow, Judgements, Carriers
  <2>streak. StreakOk'
    BY Periods DEF JudgeSpent, StreakOk
  <2>rest. RestOk'
    BY DEF JudgeSpent, RestOk, TaskAt, locks
  <2>un. Unearned'
    BY DEF JudgeSpent, Unearned, Carriers
  <2> QED
    BY <2>choice, <2>pool, <2>probe, <2>win, <2>streak, <2>rest, <2>un
<1>3. CASE Judge
  <2> USE <1>3
  <2> DEFINE c == probe.active
  <2>1. win.probed \in Judgements /\ (win.probed # "hold" => c \in Carriers)
    BY DEF WinOk
  <2>2. /\ mpc = "judge" /\ mpc' = "decide" /\ streak' = streak /\ broken' = broken
        /\ win' = [win EXCEPT !.probed = "hold"]
        /\ UNCHANGED <<reaching, baseline, locks>>
    BY DEF Judge
  <2>choice. ChoiceOk'
    <3>1. CASE win.probed = "move"
      BY <2>1, <3>1, Preferred DEF Judge
    <3>2. CASE win.probed # "move"
      <4>1. UNCHANGED choice
        BY <2>1, <3>2 DEF Judge, Judgements
      <4> QED
        BY <4>1, ChoiceKept
    <3> QED
      BY <3>1, <3>2
  <2>pool. PoolOk'
    <3>1. UNCHANGED pool \/ \E from, target, pinned :
             target \in Carriers /\ BeginHandoverOn(from, target, None, pinned)
      BY <1>0, <2>1 DEF Judge, Judgements
    <3> QED
      BY <3>1, PoolKept, HandoverBegun
  <2>probe. ProbeOk'
    <3>1. CASE win.probed = "hold"
      BY <3>1 DEF Judge, ProbeOk
    <3>2. CASE win.probed = "move"
      <4>1. probe' = [probe EXCEPT !.active = None, !.left = 0]
        BY <3>2 DEF Judge
      <4>2. 0 \in 0..ProbeMax
        BY Periods
      <4> QED
        BY <4>1, <4>2 DEF ProbeOk, ProbeKinds
    <3>3. CASE win.probed = "revert"
      <4>1. probe' = [NoProbe EXCEPT !.backoff = Backoff]
        BY <3>3 DEF Judge
      <4>2. probe' = [active |-> None, left |-> 0, backoff |-> Backoff]
        BY <4>1 DEF NoProbe
      <4>3. Backoff \in 0..Backoff /\ 0 \in 0..ProbeMax
        BY Periods
      <4> QED
        BY <4>2, <4>3 DEF ProbeOk, ProbeKinds
    <3> QED
      BY <2>1, <3>1, <3>2, <3>3 DEF Judgements
  <2>win. WinOk'
    BY <2>2 DEF WinOk, Judgements
  <2>streak. StreakOk'
    BY <2>2 DEF StreakOk
  <2>rest. RestOk'
    BY <2>2 DEF RestOk, TaskAt, locks
  <2>un. Unearned'
    BY <2>2 DEF Unearned
  <2> QED
    BY <2>choice, <2>pool, <2>probe, <2>win, <2>streak, <2>rest, <2>un
<1>4. CASE Decide
  <2> USE <1>4
  <2>choice. ChoiceOk'
    BY ChoiceKept DEF Decide
  <2>pool. PoolOk'
    BY PoolKept DEF Decide
  <2>probe. ProbeOk'
    BY DEF Decide, ProbeOk
  <2>win. WinOk'
    BY DEF Decide, WinOk, NoWindow, Judgements, Carriers
  <2>streak. StreakOk'
    BY Periods DEF Decide, StreakOk, Streak, StreakFull
  <2>rest. RestOk'
    BY DEF Decide, RestOk, TaskAt, locks
  <2>un. Unearned'
    <3>1. broken => streak' = 0
      BY DEF Unearned, Decide, Streak, Convicts
    <3>2. broken' => broken /\ streak' > 0
      BY DEF Decide
    <3> QED
      BY <3>1, <3>2 DEF Unearned
  <2> QED
    BY <2>choice, <2>pool, <2>probe, <2>win, <2>streak, <2>rest, <2>un
<1>5. CASE StepRunning
  <2> USE <1>5
  <2>choice. ChoiceOk'
    BY ChoiceKept DEF StepRunning
  <2>pool. PoolOk'
    BY PoolKept DEF StepRunning
  <2>probe. ProbeOk'
    BY DEF StepRunning, ProbeOk
  <2>win. WinOk'
    BY DEF StepRunning, WinOk, NoWindow, Judgements, Carriers
  <2>streak. StreakOk'
    <3>1. streak' \in {0, streak}
      BY DEF StepRunning
    <3> QED
      BY <3>1, Periods DEF StreakOk
  <2>rest. RestOk'
    BY DEF StepRunning, RestOk, TaskAt, locks
  <2>un. Unearned'
    <3>1. ~broken
      BY DEF Unearned, StepRunning, AsksProbe, Convicts
    <3> QED
      BY <3>1 DEF StepRunning, Unearned
  <2> QED
    BY <2>choice, <2>pool, <2>probe, <2>win, <2>streak, <2>rest, <2>un
<1>6. CASE StepBacksOff
  <2> USE <1>6
  <2>choice. ChoiceOk'
    BY ChoiceKept DEF StepBacksOff
  <2>pool. PoolOk'
    BY PoolKept DEF StepBacksOff
  <2>probe. ProbeOk'
    BY DEF StepBacksOff, ProbeOk
  <2>win. WinOk'
    BY DEF StepBacksOff, WinOk, NoWindow, Judgements, Carriers
  <2>streak. StreakOk'
    <3>1. streak' \in {0, streak}
      BY DEF StepBacksOff
    <3> QED
      BY <3>1, Periods DEF StreakOk
  <2>rest. RestOk'
    BY DEF StepBacksOff, RestOk, TaskAt, locks
  <2>un. Unearned'
    <3>1. ~broken
      BY DEF Unearned, StepBacksOff, AsksProbe, Convicts
    <3> QED
      BY <3>1 DEF StepBacksOff, Unearned
  <2> QED
    BY <2>choice, <2>pool, <2>probe, <2>win, <2>streak, <2>rest, <2>un
<1>7. CASE StepLocks
  <2> USE <1>7
  <2>choice. ChoiceOk'
    BY ChoiceKept DEF StepLocks
  <2>pool. PoolOk'
    BY PoolKept DEF StepLocks
  <2>probe. ProbeOk'
    BY DEF StepLocks, ProbeOk
  <2>win. WinOk'
    BY DEF StepLocks, WinOk, NoWindow, Judgements, Carriers
  <2>streak. StreakOk'
    BY Periods DEF StepLocks, StreakOk
  <2>rest. RestOk'
    BY DEF StepLocks, RestOk, TaskAt, locks
  <2>un. Unearned'
    <3>1. ~broken
      BY DEF Unearned, StepLocks, AsksProbe, Convicts
    <3> QED
      BY <3>1 DEF StepLocks, Unearned
  <2> QED
    BY <2>choice, <2>pool, <2>probe, <2>win, <2>streak, <2>rest, <2>un
<1>8. CASE StepBegins
  <2> USE <1>8
  <2>choice. ChoiceOk'
    BY ChoiceKept DEF StepBegins
  <2>pool. PoolOk'
    BY <1>0, HandoverBegun DEF StepBegins
  <2>probe. ProbeOk'
    <3>1. probe' = probe \/ probe' = [active |-> Other(Born), left |-> ProbeMax, backoff |-> 0]
      BY DEF StepBegins
    <3> QED
      BY <1>0, <3>1, Periods DEF ProbeOk, ProbeKinds
  <2>win. WinOk'
    <3>1. mpc = "want_state" /\ (win' = win \/ win' = NoWindow)
      BY DEF StepBegins
    <3> QED
      BY <3>1 DEF WinOk, NoWindow, Judgements
  <2>streak. StreakOk'
    <3>1. streak' \in {0, streak}
      BY DEF StepBegins
    <3> QED
      BY <3>1, Periods DEF StreakOk
  <2>rest. RestOk'
    BY DEF StepBegins, RestOk, TaskAt, locks
  <2>un. Unearned'
    BY DEF StepBegins, Unearned, Carriers
  <2> QED
    BY <2>choice, <2>pool, <2>probe, <2>win, <2>streak, <2>rest, <2>un
<1>9. CASE Convict
  <2> USE <1>9
  <2>choice. ChoiceOk'
    BY <1>0, Preferred DEF Convict
  <2>pool. PoolOk'
    <3>1. UNCHANGED pool \/ \E pinned : BeginHandoverOn("Kcp", "Tcp", win.guilty, pinned)
      BY DEF Convict
    <3> QED
      BY <1>0, <3>1, PoolKept, HandoverBegun
  <2>probe. ProbeOk'
    BY DEF Convict, ProbeOk
  <2>win. WinOk'
    BY DEF Convict, WinOk, NoWindow, Judgements, Carriers
  <2>streak. StreakOk'
    BY Periods DEF Convict, StreakOk
  <2>rest. RestOk'
    BY DEF Convict, RestOk, TaskAt, locks
  <2>un. Unearned'
    BY DEF Convict, Unearned, Carriers
  <2> QED
    BY <2>choice, <2>pool, <2>probe, <2>win, <2>streak, <2>rest, <2>un
<1>10. CASE RestOfTick
  <2> USE <1>10
  <2>choice. ChoiceOk'
    BY ChoiceKept DEF RestOfTick
  <2>pool. PoolOk'
    BY TickKeepsPool DEF RestOfTick
  <2>probe. ProbeOk'
    BY DEF RestOfTick, ProbeOk
  <2>win. WinOk'
    BY DEF RestOfTick, WinOk, NoWindow, Judgements, Carriers
  <2>streak. StreakOk'
    BY Periods DEF RestOfTick, StreakOk
  <2>rest. RestOk'
    <3>1. mpc' \in {"rule", chosen} \/ (move'.phase = "dialing" /\ mpc' = move'.target)
      BY DEF RestOfTick, WantedCarrier
    <3>2. move'.phase = "dialing" => move'.target \in Carriers
      BY <2>pool DEF PoolOk, MovesOn, NoMove, Moving, None
    <3>3. mpc' \in TaskAt
      BY <3>1, <3>2 DEF ChoiceOk, TaskAt
    <3> QED
      BY <3>3 DEF RestOfTick, RestOk, locks
  <2>un. Unearned'
    BY DEF RestOfTick, Unearned, Carriers
  <2> QED
    BY <2>choice, <2>pool, <2>probe, <2>win, <2>streak, <2>rest, <2>un
<1>11. CASE RepairOk
  <2> USE <1>11
  <2>choice. ChoiceOk'
    BY ChoiceKept DEF RepairOk
  <2>pool. PoolOk'
    <3>1. PICK t \in Tunnels \ Held : slots' = [slots EXCEPT ![t] = Fresh(mpc)]
      BY DEF RepairOk
    <3>2. Fresh(mpc) \in SlotKinds /\ Fresh(mpc).phase = "serving"
      BY Frees DEF RepairOk
    <3>3. slots' \in [Tunnels -> SlotKinds] /\ \A u \in Tunnels : slots'[u].phase = "draining" => slots[u].phase = "draining"
      BY <3>1, <3>2 DEF PoolOk
    <3>4. move' = move \/ (move' = NoMove /\ move.phase = "dialing")
      BY DEF RepairOk
    <3> QED
      BY <3>3, <3>4 DEF PoolOk
  <2>probe. ProbeOk'
    BY DEF RepairOk, ProbeOk
  <2>win. WinOk'
    BY DEF RepairOk, WinOk, NoWindow, Judgements, Carriers
  <2>streak. StreakOk'
    BY Periods DEF RepairOk, StreakOk
  <2>rest. RestOk'
    BY DEF RepairOk, RestOk, TaskAt, locks
  <2>un. Unearned'
    BY DEF RepairOk, Unearned, Carriers
  <2> QED
    BY <2>choice, <2>pool, <2>probe, <2>win, <2>streak, <2>rest, <2>un
<1>12. CASE RepairRefused
  <2> USE <1>12
  <2>choice. ChoiceOk'
    BY Failed DEF RepairRefused
  <2>pool. PoolOk'
    BY PoolKept DEF RepairRefused
  <2>probe. ProbeOk'
    BY DEF RepairRefused, ProbeOk
  <2>win. WinOk'
    BY DEF RepairRefused, WinOk, NoWindow, Judgements, Carriers
  <2>streak. StreakOk'
    BY Periods DEF RepairRefused, StreakOk
  <2>rest. RestOk'
    BY DEF RepairRefused, RestOk, TaskAt, locks
  <2>un. Unearned'
    BY DEF RepairRefused, Unearned, Carriers
  <2> QED
    BY <2>choice, <2>pool, <2>probe, <2>win, <2>streak, <2>rest, <2>un
<1>13. CASE RepairTimesOut
  <2> USE <1>13
  <2>choice. ChoiceOk'
    BY ChoiceKept DEF RepairTimesOut
  <2>pool. PoolOk'
    BY PoolKept DEF RepairTimesOut
  <2>probe. ProbeOk'
    BY DEF RepairTimesOut, ProbeOk
  <2>win. WinOk'
    BY DEF RepairTimesOut, WinOk, NoWindow, Judgements, Carriers
  <2>streak. StreakOk'
    BY Periods DEF RepairTimesOut, StreakOk
  <2>rest. RestOk'
    BY DEF RepairTimesOut, RestOk, TaskAt, locks
  <2>un. Unearned'
    BY DEF RepairTimesOut, Unearned, Carriers
  <2> QED
    BY <2>choice, <2>pool, <2>probe, <2>win, <2>streak, <2>rest, <2>un
<1>14. CASE ReachSwap
  <2> USE <1>14
  <2>choice. ChoiceOk'
    BY <1>0, Periods DEF ReachSwap, ChoiceOk
  <2>pool. PoolOk'
    BY PoolKept DEF ReachSwap
  <2>probe. ProbeOk'
    BY DEF ReachSwap, ProbeOk
  <2>win. WinOk'
    BY DEF ReachSwap, WinOk, NoWindow, Judgements, Carriers
  <2>streak. StreakOk'
    BY Periods DEF ReachSwap, StreakOk
  <2>rest. RestOk'
    BY DEF ReachSwap, RestOk, TaskAt, locks
  <2>un. Unearned'
    BY DEF ReachSwap, Unearned, Carriers
  <2> QED
    BY <2>choice, <2>pool, <2>probe, <2>win, <2>streak, <2>rest, <2>un
<1>15. CASE OtherChannel
  <2> USE <1>15
  <2>choice. ChoiceOk'
    <3>1. OnKcpFailure \/ ReachedKcp
      BY DEF OtherChannel
    <3>2. CASE ReachedKcp
      BY <3>2, Periods DEF ReachedKcp, ChoiceOk, choice
    <3> QED
      BY <3>1, <3>2, Failed
  <2>pool. PoolOk'
    BY PoolKept DEF OtherChannel
  <2>probe. ProbeOk'
    BY DEF OtherChannel, ProbeOk
  <2>win. WinOk'
    BY DEF OtherChannel, WinOk, NoWindow, Judgements, Carriers
  <2>streak. StreakOk'
    BY Periods DEF OtherChannel, StreakOk
  <2>rest. RestOk'
    BY DEF OtherChannel, RestOk, TaskAt, locks, ReachedKcp
  <2>un. Unearned'
    BY DEF OtherChannel, Unearned, Carriers
  <2> QED
    BY <2>choice, <2>pool, <2>probe, <2>win, <2>streak, <2>rest, <2>un
<1>16. CASE TimePasses
  <2> USE <1>16
  <2>clock. ChoiceOk' /\ ProbeOk' /\ probe'.active = probe.active
    BY ClockRuns
  <2>choice. ChoiceOk'
    BY <2>clock
  <2>pool. PoolOk'
    BY PoolKept DEF TimePasses
  <2>probe. ProbeOk'
    BY <2>clock
  <2>win. WinOk'
    BY <2>clock DEF TimePasses, WinOk
  <2>streak. StreakOk'
    BY Periods DEF TimePasses, StreakOk
  <2>rest. RestOk'
    BY DEF TimePasses, RestOk, TaskAt, locks
  <2>un. Unearned'
    BY DEF TimePasses, Unearned, Carriers
  <2> QED
    BY <2>choice, <2>pool, <2>probe, <2>win, <2>streak, <2>rest, <2>un
<1>17. ASSUME NEW c \in Carriers, LanePolicy(c) PROVE CarrierInv'
  <2>choice. ChoiceOk'
    BY <1>17, Preferred DEF LanePolicy
  <2>pool. PoolOk'
    BY <1>17, PoolKept DEF LanePolicy
  <2> QED
    BY <1>17, <2>choice, <2>pool DEF LanePolicy, ProbeOk, WinOk, StreakOk, RestOk, Unearned, locks
<1>18. ASSUME NEW o \in Openers, ReserveLocks(o) \/ ReserveReads(o) PROVE CarrierInv'
  <2>1. /\ UNCHANGED choice /\ UNCHANGED pool /\ stateBy' \in {o, ""}
        /\ UNCHANGED <<reaching, baseline, probe, streak, mpc, win, probeBy, broken>>
    BY <1>18 DEF ReserveLocks, ReserveReads
  <2>2. ChoiceOk' /\ PoolOk'
    BY <2>1, ChoiceKept, PoolKept
  <2> QED
    BY <2>1, <2>2 DEF ProbeOk, WinOk, StreakOk, RestOk, Unearned
<1>19. ASSUME UNCHANGED <<choice, pool, reaching, baseline, probe, streak, mpc, win, locks, broken>>
      PROVE  CarrierInv'
  <2>1. ChoiceOk' /\ PoolOk'
    BY <1>19, ChoiceKept, PoolKept
  <2> QED
    BY <1>19, <2>1 DEF ProbeOk, WinOk, StreakOk, RestOk, Unearned, locks
<1>20. CASE UNCHANGED carrierVars
  BY <1>19, <1>20 DEF carrierVars
<1>21. CASE \E u \in UdpFaults \cup {"up"} : UdpChanges(u)
  BY <1>19, <1>21 DEF UdpChanges
<1> QED
  BY <1>1, <1>2, <1>3, <1>4, <1>5, <1>6, <1>7, <1>8, <1>9, <1>10, <1>11, <1>12, <1>13,
     <1>14, <1>15, <1>16, <1>17, <1>18, <1>20, <1>21 DEF CarrierNext, Maintenance

(* The invariant implies the model's own.                                  *)
LEMMA InvTypes == CarrierInv => CarrierTypeOK
<1> SUFFICES ASSUME CarrierInv PROVE CarrierTypeOK
  OBVIOUS
<1>1. ASSUME NEW t \in Tunnels
      PROVE  /\ slots[t] = Absent \/ slots[t] \in [carrier : Carriers, phase : {"serving", "draining"}]
             /\ slots[t].phase = "draining" => move.tunnel = t
  BY DEF CarrierInv, PoolOk, SlotKinds
<1>2. probe.left <= ProbeMax /\ probe.backoff <= Backoff
  BY Periods DEF CarrierInv, ProbeOk, ProbeKinds
<1> QED
  BY <1>1, <1>2 DEF CarrierInv, CarrierTypeOK, ChoiceOk, StreakOk, RestOk

(* A step that leaves TCP within the hold is the swap of a dial that read  *)
(* the hold earlier.                                                       *)
LEMMA HoldStep ==
  ASSUME CarrierInv, [CarrierNext]_carrierVars,
         heldFor > 0, chosen = "Tcp", chosen' = "Kcp"
  PROVE  reaching
<1>1. ASSUME NEW c, Prefer(c) PROVE FALSE
  BY <1>1 DEF Prefer, Prefers, choice, CarrierInv, ChoiceOk
<1>2. ASSUME OnKcpFailure PROVE FALSE
  BY <1>2 DEF OnKcpFailure, choice
<1>3. ASSUME ReachedKcp PROVE FALSE
  BY <1>3 DEF ReachedKcp, choice
<1>4. ASSUME UNCHANGED chosen PROVE FALSE
  BY <1>4
<1>5. CASE Judge
  BY <1>1, <1>4, <1>5 DEF Judge, choice, CarrierInv, WinOk, Judgements
<1>6. CASE Convict
  BY <1>1, <1>6 DEF Convict
<1>7. CASE RepairRefused
  BY <1>2, <1>7 DEF RepairRefused
<1>8. CASE OtherChannel
  BY <1>2, <1>3, <1>8 DEF OtherChannel
<1>9. CASE \E c \in Carriers : LanePolicy(c)
  BY <1>1, <1>9 DEF LanePolicy
<1>10. CASE ReachSwap
  BY <1>10 DEF ReachSwap
<1>11. CASE \/ RuleSamples \/ JudgeSpent \/ Decide \/ StepRunning \/ StepBacksOff \/ StepLocks \/ StepBegins
            \/ RestOfTick \/ RepairOk \/ RepairTimesOut
  BY <1>4, <1>11 DEF RuleSamples, JudgeSpent, Decide, StepRunning, StepBacksOff, StepLocks, StepBegins,
     RestOfTick, RepairOk, RepairTimesOut, choice
<1>12. CASE TimePasses \/ (\E o \in Openers : ReserveLocks(o) \/ ReserveReads(o))
             \/ (\E u \in UdpFaults \cup {"up"} : UdpChanges(u)) \/ UNCHANGED carrierVars
  BY <1>4, <1>12 DEF TimePasses, ReserveLocks, ReserveReads, UdpChanges, carrierVars, choice
<1> QED
  BY <1>5, <1>6, <1>7, <1>8, <1>9, <1>10, <1>11, <1>12 DEF CarrierNext, Maintenance

(* The two steps that pass a verdict on are taken on a convicting window.  *)
LEMMA VerdictStep ==
  ASSUME CarrierInv, [CarrierNext]_carrierVars, mpc # "convict", mpc' = "convict"
  PROVE  ~broken
<1>1. CASE StepBacksOff \/ StepBegins
  BY <1>1 DEF StepBacksOff, StepBegins, CarrierInv, Unearned, Convicts, AsksProbe
<1>2. CASE RestOfTick
  <2>1. mpc' \in {"rule", chosen} \/ (move'.phase = "dialing" /\ mpc' = move'.target)
    BY <1>2 DEF RestOfTick, WantedCarrier
  <2>2. PoolOk'
    BY CarrierStep DEF CarrierInv
  <2>3. move'.phase = "dialing" => move'.target \in Carriers
    BY <2>2 DEF PoolOk, MovesOn, NoMove, Moving, None
  <2> QED
    BY <2>1, <2>3 DEF CarrierInv, ChoiceOk, Carriers
<1>3. CASE \/ RuleSamples \/ JudgeSpent \/ Judge \/ Decide \/ StepRunning \/ StepLocks \/ Convict
           \/ RepairOk \/ RepairRefused \/ RepairTimesOut
  BY <1>3 DEF RuleSamples, JudgeSpent, Judge, Decide, StepRunning, StepLocks, Convict, RepairOk,
     RepairRefused, RepairTimesOut
<1>4. CASE \/ ReachSwap \/ OtherChannel \/ TimePasses \/ \E c \in Carriers : LanePolicy(c)
           \/ (\E o \in Openers : ReserveLocks(o) \/ ReserveReads(o))
           \/ (\E u \in UdpFaults \cup {"up"} : UdpChanges(u)) \/ UNCHANGED carrierVars
  BY <1>4 DEF ReachSwap, OtherChannel, TimePasses, LanePolicy, ReserveLocks, ReserveReads, UdpChanges, carrierVars
<1> QED
  BY <1>1, <1>2, <1>3, <1>4 DEF CarrierNext, Maintenance

(* For every pool, every set of openers and all the periods: a deliberate  *)
(* switch to TCP stands for its hold, except against a dial that read the  *)
(* hold before the switch, and the rule convicts only on a streak that no  *)
(* quiet window interrupted (CarrierChoice, carrier_rule_step).            *)

(* For any tunnels, number of confirming windows and lengths of the hold,  *)
(* the retry, the probe and its backoff: every variable keeps its shape; a *)
(* deliberate switch to TCP stands for its hold, undone only by a          *)
(* reached_kcp that read the hold before it; and the rule moves the pool   *)
(* only on a streak no quiet window interrupted (carrier.rs 262-288,       *)
(* multiplex.rs 1189-1254).                                                *)
THEOREM SwitchesAreEarned == CarrierSpec => SwitchesEarned
<1>1. CarrierInit => CarrierInv
  BY CarrierBegins
<1>2. CarrierInv /\ [CarrierNext]_carrierVars => CarrierInv'
  BY CarrierStep
<1>3. CarrierInv => CarrierTypeOK
  BY InvTypes
<1>4. CarrierInv /\ [CarrierNext]_carrierVars
      => [heldFor > 0 /\ chosen = "Tcp" /\ chosen' = "Kcp" => reaching]_carrierVars
  BY HoldStep
<1>5. CarrierInv /\ [CarrierNext]_carrierVars
      => [mpc # "convict" /\ mpc' = "convict" => ~broken]_carrierVars
  BY VerdictStep
<1> QED
  BY <1>1, <1>2, <1>3, <1>4, <1>5, PTL DEF CarrierSpec, SwitchesEarned, HeldSwitchStays, MoveEarned
=============================================================================
