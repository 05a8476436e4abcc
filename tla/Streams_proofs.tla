--------------------------- MODULE Streams_proofs ---------------------------
(***************************************************************************)
(* What carries a stream.                                                  *)
(*                                                                         *)
(* Credit conservation of the mux and the exactness of its account, for    *)
(* every window size, stream count and connection limit.                   *)
(*                                                                         *)
(* The reorder loop of a stripe group delivers a prefix of its source, and *)
(* every stripe carries whole frames, for every number of stripes, frame   *)
(* length, capacity and queue length, and whatever breaks.                 *)
(***************************************************************************)
EXTENDS MuxFlowControl, StripeDirection, SequenceTheorems, FiniteSetTheorems,
        WellFoundedInduction, TLAPS

(* A flow that does not exist yet has its initial windows: without this    *)
(* part WindowsBalance is not preserved by Create.                         *)
Pristine ==
  \A f \in Flows : life[f] = "none" =>
    sw[f] = Credit /\ rw[f] = Credit /\ flight[f] = 0 /\ back[f] = 0

FlowInv == FTypeOK /\ Pristine /\ WindowsBalance /\ BufferWithinMax /\ AccountWithinLimit

(* The tunable part of max_connection_receive_window is not negative.      *)
LEMMA LimitIsNat == ConnLimit - MaxStreams * Credit \in Nat
<1>1. MaxStreams * Credit \in Nat
  BY FlowAssumption
<1>2. QED
  BY <1>1, FlowAssumption

(* Auto-tuning never lowers max_receive_window, never passes u32::MAX, and *)
(* charges the account by no more than the limit leaves.                   *)
LEMMA TunedBounds ==
  ASSUME NEW m \in Nat, m <= MaxWindow, NEW a \in Int,
         a <= ConnLimit - MaxStreams * Credit, NEW grow \in BOOLEAN
  PROVE  /\ Tuned(m, a, grow) \in Nat
         /\ m <= Tuned(m, a, grow) /\ Tuned(m, a, grow) <= MaxWindow
         /\ Charge(a, m, Tuned(m, a, grow)) \in Int
         /\ Charge(a, m, Tuned(m, a, grow)) <= ConnLimit - MaxStreams * Credit
<1> DEFINE L == ConnLimit - MaxStreams * Credit
<1>1. L \in Nat
  BY LimitIsNat
<1> HIDE DEF L
<1>2. ASSUME NEW q \in Nat, q = L
      PROVE  /\ Tuned(m, a, grow) \in Nat
             /\ m <= Tuned(m, a, grow) /\ Tuned(m, a, grow) <= MaxWindow
             /\ Tuned(m, a, grow) - m <= q - a
  BY <1>2, FlowAssumption DEF Tuned, NewMax, Least, L
<1>3. QED
  BY <1>1, <1>2 DEF Charge, L

(* The initial state satisfies the invariant.                              *)
LEMMA FlowInit == FInit => FlowInv
<1> SUFFICES ASSUME FInit PROVE FlowInv
  OBVIOUS
<1>1. FTypeOK
  BY FlowAssumption DEF FInit, FTypeOK
<1>2. Pristine /\ WindowsBalance /\ BufferWithinMax
  BY FlowAssumption DEF FInit, Pristine, WindowsBalance, BufferWithinMax, Live
<1>3. AccountWithinLimit
  BY LimitIsNat DEF FInit, AccountWithinLimit
<1>4. QED
  BY <1>1, <1>2, <1>3 DEF FlowInv

(* Every step of the flow control preserves it.                            *)
LEMMA FlowStep == FlowInv /\ [FNext]_fvars => FlowInv'
<1> SUFFICES ASSUME FlowInv, [FNext]_fvars PROVE FlowInv'
  OBVIOUS
<1> USE DEF FlowInv
<1>1. ASSUME NEW i \in StreamIds, Create(i) PROVE FlowInv'
  <2>1. FTypeOK'
    BY <1>1 DEF Create, FTypeOK
  <2>2. WindowsBalance' /\ Pristine'
    <3>1. SUFFICES ASSUME NEW f \in Flows
                   PROVE  /\ Live(f)' => (rw[f] = sw[f] + flight[f] + back[f])'
                          /\ life'[f] = "none" => life[f] = "none"
      BY <1>1 DEF Create, Pristine, WindowsBalance
    <3>2. CASE f[2] = i
      <4>1. f[1] \in Receivers /\ f = <<f[1], i>>
        BY <3>2 DEF Flows
      <4>2. life[f] = "none"
        BY <1>1, <4>1 DEF Create
      <4>3. QED
        BY <1>1, <4>2, FlowAssumption DEF Create, Pristine
    <3>3. CASE f[2] # i
      BY <1>1, <3>3 DEF Create, WindowsBalance, Live
    <3>4. QED
      BY <3>2, <3>3
  <2>3. QED
    BY <1>1, <2>1, <2>2 DEF Create, BufferWithinMax, AccountWithinLimit
<1>2. ASSUME NEW f \in Flows, NEW n \in 1..sw[f], Spend(f, n) PROVE FlowInv'
  <2>1. FTypeOK'
    BY <1>2 DEF Spend, FTypeOK
  <2>2. WindowsBalance' /\ Pristine'
    BY <1>2 DEF Spend, FTypeOK, WindowsBalance, Pristine, Live
  <2>3. QED
    BY <1>2, <2>1, <2>2 DEF Spend, BufferWithinMax, AccountWithinLimit
<1>3. ASSUME NEW f \in Flows, NEW n \in 1..flight[f], Arrive(f, n) PROVE FlowInv'
  <2>1. FTypeOK'
    BY <1>3 DEF Arrive, FTypeOK
  <2>2. WindowsBalance' /\ Pristine'
    BY <1>3 DEF Arrive, FTypeOK, WindowsBalance, Pristine, Live
  <2>3. BufferWithinMax'
    BY <1>3 DEF Arrive, FTypeOK, BufferWithinMax
  <2>4. QED
    BY <1>3, <2>1, <2>2, <2>3 DEF Arrive, AccountWithinLimit
<1>4. ASSUME NEW f \in Flows, NEW n \in 1..back[f], Regain(f, n) PROVE FlowInv'
  <2>1. FTypeOK'
    BY <1>4 DEF Regain, FTypeOK
  <2>2. WindowsBalance' /\ Pristine'
    BY <1>4 DEF Regain, FTypeOK, WindowsBalance, Pristine, Live
  <2>3. QED
    BY <1>4, <2>1, <2>2 DEF Regain, BufferWithinMax, AccountWithinLimit
<1>5. ASSUME NEW f \in Flows, NEW k \in 1..buf[f], Deliver(f, k) PROVE FlowInv'
  <2>1. FTypeOK'
    BY <1>5 DEF Deliver, FTypeOK
  <2>2. BufferWithinMax'
    BY <1>5 DEF Deliver, FTypeOK, BufferWithinMax
  <2>3. QED
    BY <1>5, <2>1, <2>2 DEF Deliver, WindowsBalance, Pristine, AccountWithinLimit, Live
<1>6. ASSUME NEW f \in Flows, NEW k \in 0..buf[f], NEW grow \in BOOLEAN,
             DeliverAndGrant(f, k, grow)
      PROVE  FlowInv'
  <2> DEFINE rcvr == f[1]
             b == buf[f] - k
             m == Tuned(maxw[f], acc[rcvr], grow)
             credit == Owed(m, rw[f], b)
  <2>1. rcvr \in Receivers
    BY DEF Flows
  <2>2. b \in Nat /\ b <= buf[f]
    BY DEF FTypeOK
  <2>3. /\ m \in Nat /\ maxw[f] <= m /\ m <= MaxWindow
        /\ Charge(acc[rcvr], maxw[f], m) \in Int
        /\ Charge(acc[rcvr], maxw[f], m) <= ConnLimit - MaxStreams * Credit
    BY <2>1, TunedBounds DEF FTypeOK, BufferWithinMax, AccountWithinLimit
  <2>4. credit \in Nat /\ rw[f] + credit + b <= m
    <3> HIDE DEF m, b
    <3>1. rw[f] + b <= m /\ rw[f] \in Nat /\ m \in Nat /\ b \in Nat
      BY <2>2, <2>3 DEF FTypeOK, BufferWithinMax
    <3>2. QED
      BY <3>1 DEF Owed, credit
  <2>5. /\ Live(f)
        /\ buf' = [buf EXCEPT ![f] = b]
        /\ maxw' = [maxw EXCEPT ![f] = m]
        /\ acc' = [acc EXCEPT ![rcvr] = Charge(acc[rcvr], maxw[f], m)]
        /\ rw' = [rw EXCEPT ![f] = rw[f] + credit]
        /\ back' = [back EXCEPT ![f] = back[f] + credit]
        /\ UNCHANGED <<life, sw, flight>>
    BY <1>6 DEF DeliverAndGrant
  <2> HIDE DEF rcvr, b, m, credit
  <2>6. FTypeOK'
    BY <2>1, <2>2, <2>3, <2>4, <2>5 DEF FTypeOK
  <2>7. WindowsBalance' /\ Pristine'
    BY <2>4, <2>5 DEF FTypeOK, WindowsBalance, Pristine, Live
  <2>8. BufferWithinMax'
    <3>1. SUFFICES ASSUME NEW g \in Flows
                   PROVE  (rw[g] + buf[g] <= maxw[g] /\ Credit <= maxw[g] /\ maxw[g] <= MaxWindow)'
      BY DEF BufferWithinMax
    <3>2. CASE g = f
      <4>1. rw'[f] = rw[f] + credit /\ buf'[f] = b /\ maxw'[f] = m
        BY <2>5 DEF FTypeOK
      <4>2. Credit <= maxw[f] /\ maxw[f] \in Nat /\ rw[f] \in Nat
        BY DEF BufferWithinMax, FTypeOK
      <4>3. QED
        BY <2>2, <2>3, <2>4, <3>2, <4>1, <4>2, FlowAssumption
    <3>3. CASE g # f
      BY <2>5, <3>3 DEF FTypeOK, BufferWithinMax
    <3>4. QED
      BY <3>2, <3>3
  <2>9. AccountWithinLimit'
    BY <2>1, <2>3, <2>5 DEF FTypeOK, AccountWithinLimit
  <2>10. QED
    BY <2>6, <2>7, <2>8, <2>9
<1>7. ASSUME NEW f \in Flows, Release(f) PROVE FlowInv'
  <2>1. f[1] \in Receivers
    BY DEF Flows
  <2>2. Refund(acc[f[1]], maxw[f]) \in Int /\ Refund(acc[f[1]], maxw[f]) <= acc[f[1]]
    BY <2>1, FlowAssumption DEF Refund, FTypeOK, BufferWithinMax
  <2>3. FTypeOK'
    BY <1>7, <2>1, <2>2 DEF Release, FTypeOK
  <2>4. WindowsBalance' /\ Pristine' /\ BufferWithinMax'
    BY <1>7 DEF Release, FTypeOK, WindowsBalance, Pristine, BufferWithinMax, Live
  <2>5. AccountWithinLimit'
    <3>1. SUFFICES ASSUME NEW q \in Receivers
                   PROVE  acc'[q] <= ConnLimit - MaxStreams * Credit
      BY DEF AccountWithinLimit
    <3>2. acc[q] <= ConnLimit - MaxStreams * Credit /\ acc[q] \in Int
      BY DEF AccountWithinLimit, FTypeOK
    <3>3. acc'[q] \in Int /\ acc'[q] <= acc[q]
      BY <1>7, <2>1, <2>2, <3>2 DEF Release, FTypeOK
    <3>4. QED
      BY <3>2, <3>3, LimitIsNat
  <2>6. QED
    BY <2>3, <2>4, <2>5
<1>8. ASSUME NEW S \in SUBSET Flows, Cut(S) PROVE FlowInv'
  <2>1. FTypeOK'
    BY <1>8 DEF Cut, FTypeOK
  <2>2. WindowsBalance' /\ Pristine'
    BY <1>8 DEF Cut, FTypeOK, WindowsBalance, Pristine, Live
  <2>3. BufferWithinMax' /\ AccountWithinLimit'
    BY <1>8, FlowAssumption DEF Cut, FTypeOK, BufferWithinMax, AccountWithinLimit
  <2>4. QED
    BY <2>1, <2>2, <2>3
<1>9. ASSUME UNCHANGED fvars PROVE FlowInv'
  BY <1>9 DEF fvars, FTypeOK, WindowsBalance, Pristine, BufferWithinMax, AccountWithinLimit, Live
<1>10. QED
  BY <1>1, <1>2, <1>3, <1>4, <1>5, <1>6, <1>7, <1>8, <1>9 DEF FNext

(* FlowInv is an inductive invariant of the flow control.                  *)
THEOREM FlowInvariant == FSpec => []FlowInv
  BY FlowInit, FlowStep, PTL DEF FSpec

(* The windows, buffers and counters keep their types in every run.        *)
THEOREM FlowTypes == FSpec => []FTypeOK
<1>1. FlowInv => FTypeOK
  BY DEF FlowInv
<1>2. QED
  BY <1>1, FlowInvariant, PTL

(* Credit is conserved: whatever order frames and updates cross in, the    *)
(* receiver's window is the sender's window plus what is in flight.        *)
THEOREM CreditIsConserved == FSpec => []WindowsBalance
<1>1. FlowInv => WindowsBalance
  BY DEF FlowInv
<1>2. QED
  BY <1>1, FlowInvariant, PTL

(* No data frame ever exceeds the receive window it arrives at, and no     *)
(* window update overflows the send window.                                *)
THEOREM NothingOverruns == FSpec => []InFlightFits
<1>1. ASSUME FlowInv PROVE InFlightFits
  <2>1. SUFFICES ASSUME NEW f \in Flows, Live(f)
                 PROVE  flight[f] <= rw[f] /\ sw[f] + back[f] <= MaxWindow
    BY DEF InFlightFits
  <2>2. /\ rw[f] = sw[f] + flight[f] + back[f]
        /\ rw[f] + buf[f] <= maxw[f] /\ maxw[f] <= MaxWindow
    BY <1>1, <2>1 DEF FlowInv, WindowsBalance, BufferWithinMax
  <2>3. {sw[f], rw[f], maxw[f], buf[f], flight[f], back[f]} \subseteq Nat
    BY <1>1 DEF FlowInv, FTypeOK
  <2>4. QED
    BY <2>2, <2>3, FlowAssumption
<1>2. QED
  BY <1>1, FlowInvariant, PTL

(* The auto-tuner's `limit - reserved - accumulated` never underflows, and *)
(* a stream never buffers past its maximum.                                *)
THEOREM TuningStaysWithinLimit == FSpec => [](AccountWithinLimit /\ BufferWithinMax)
<1>1. FlowInv => AccountWithinLimit /\ BufferWithinMax
  BY DEF FlowInv
<1>2. QED
  BY <1>1, FlowInvariant, PTL

-----------------------------------------------------------------------------
(* A set that holds zero and, with a number, its successor up to a bound   *)
(* holds every number up to the bound.                                     *)
LEMMA CountsUp ==
  ASSUME NEW n \in Nat, NEW S, 0 \in S, \A i \in 0..n : i \in S /\ i < n => i + 1 \in S
  PROVE  0..n \subseteq S
<1> DEFINE R == {ss \in Nat \X Nat : ss[1] < ss[2]}
           T == {i \in 0..n : i \notin S}
<1>1. SUFFICES ASSUME T # {} PROVE FALSE
  OBVIOUS
<1>2. IsWellFoundedOn(R, Nat)
  BY NatLessThanWellFounded, Zenon DEF OpToRel
<1>3. T \subseteq Nat
  OBVIOUS
<1>4. \E i \in T : \A j \in T : ~(<<j, i>> \in R)
  <2> HIDE DEF R, T
  <2> QED
    BY <1>1, <1>2, <1>3, WFMin
<1>5. PICK i \in T : \A j \in T : ~(<<j, i>> \in R)
  BY <1>4
<1>6. i \in 0..n /\ i # 0 /\ i - 1 \in 0..n /\ i - 1 < n
  OBVIOUS
<1>7. i - 1 \in S
  <2>1. i - 1 \in T => <<i - 1, i>> \in R
    BY <1>6
  <2> QED
    BY <2>1, <1>5, <1>6
<1>8. (i - 1) + 1 \in S
  BY <1>6, <1>7
<1> QED
  BY <1>6, <1>8

(* A property of finite sets that passes from a set's smaller subsets to   *)
(* the set.                                                                *)
LEMMA SetsGrow ==
  ASSUME NEW S, IsFiniteSet(S), NEW P,
         \A s \in SUBSET S : (\A x \in s : s \ {x} \in P) => s \in P
  PROVE  SUBSET S \subseteq P
<1> DEFINE n == Cardinality(S)
           Small(k) == {s \in SUBSET S : Cardinality(s) <= k}
           Good == {k \in 0..n : Small(k) \subseteq P}
<1>1. n \in Nat /\ \A s \in SUBSET S : IsFiniteSet(s) /\ Cardinality(s) \in Nat /\ Cardinality(s) <= n
  BY FS_Subset, FS_CardinalityType
<1>2. 0 \in Good
  <2>1. ASSUME NEW s \in Small(0) PROVE s \in P
    <3>1. s = {}
      BY <1>1, FS_EmptySet
    <3> QED
      BY <3>1
  <2> QED
    BY <2>1, <1>1
<1>3. ASSUME NEW k \in 0..n, k \in Good, k < n
      PROVE  k + 1 \in Good
  <2>1. ASSUME NEW s \in Small(k + 1) PROVE s \in P
    <3>1. ASSUME NEW x \in s PROVE s \ {x} \in P
      <4>1. Cardinality(s \ {x}) = Cardinality(s) - 1 /\ s \ {x} \in SUBSET S
        BY <1>1, FS_RemoveElement
      <4>2. s \ {x} \in Small(k)
        BY <4>1, <1>1
      <4> QED
        BY <4>2, <1>3
    <3> QED
      BY <3>1
  <2>2. k + 1 \in 0..n /\ Small(k + 1) \subseteq P
    BY <2>1, <1>1, <1>3
  <2> HIDE DEF Small
  <2> QED
    BY <2>2
<1> HIDE DEF Good
<1>4. 0..n \subseteq Good
  BY <1>1, <1>2, <1>3, CountsUp
<1>5. n \in Good
  BY <1>1, <1>4
<1> QED
  BY <1>5, <1>1 DEF Good

-----------------------------------------------------------------------------
(* Sums. MapThenSumSet folds the terms in an order that CHOOSE picks, with *)
(* a function defined by recursion on sets: Summing is its equation, which *)
(* has one solution on the subsets of a finite set. The lemmas say that    *)
(* the order is of no consequence: any element can be taken out first.     *)
Some(s) == CHOOSE x \in s : TRUE
Summing(g, v, D) == g = [s \in D |-> IF s = {} THEN 0 ELSE v[Some(s)] + g[s \ {Some(s)}]]

LEMMA SomeIsIn ==
  ASSUME NEW s, s # {}
  PROVE  Some(s) \in s
BY DEF Some

LEMMA SummingExists ==
  ASSUME NEW S, IsFiniteSet(S), NEW v
  PROVE  \E g : Summing(g, v, SUBSET S)
<1> DEFINE n == Cardinality(S)
           Small(k) == {s \in SUBSET S : Cardinality(s) <= k}
           Good == {k \in 0..n : \E g : Summing(g, v, Small(k))}
<1>1. n \in Nat /\ \A s \in SUBSET S : IsFiniteSet(s) /\ Cardinality(s) \in Nat /\ Cardinality(s) <= n
  BY FS_Subset, FS_CardinalityType
<1>2. 0 \in Good
  <2>1. Small(0) = {{}}
    BY <1>1, FS_EmptySet
  <2>2. Summing([s \in {{}} |-> 0], v, {{}})
    BY DEF Summing
  <2>3. 0 \in 0..n
    BY <1>1
  <2>4. \E g : Summing(g, v, {{}})
    BY <2>2
  <2> HIDE DEF Small
  <2> QED
    BY <2>1, <2>3, <2>4
<1>3. ASSUME NEW k \in 0..n, k \in Good, k < n
      PROVE  k + 1 \in Good
  <2>1. PICK g : Summing(g, v, Small(k))
    BY <1>3
  <2> DEFINE h == [s \in Small(k + 1) |-> IF s = {} THEN 0 ELSE v[Some(s)] + g[s \ {Some(s)}]]
  <2>2. Small(k) \subseteq Small(k + 1)
    BY <1>1
  <2>3. \A s \in Small(k) : g[s] = IF s = {} THEN 0 ELSE v[Some(s)] + g[s \ {Some(s)}]
    BY <2>1 DEF Summing
  <2>4. \A s \in Small(k) : h[s] = g[s]
    BY <2>2, <2>3
  <2>5. ASSUME NEW s \in Small(k + 1), s # {}
        PROVE  s \ {Some(s)} \in Small(k)
    <3>1. Cardinality(s \ {Some(s)}) = Cardinality(s) - 1
      BY <2>5, <1>1, SomeIsIn, FS_RemoveElement
    <3> QED
      BY <3>1, <1>1
  <2>6. ASSUME NEW s \in Small(k + 1)
        PROVE  h[s] = IF s = {} THEN 0 ELSE v[Some(s)] + h[s \ {Some(s)}]
    <3>1. CASE s = {}
      BY <3>1
    <3>2. CASE s # {}
      BY <3>2, <2>4, <2>5
    <3> QED
      BY <3>1, <3>2
  <2>7. Summing(h, v, Small(k + 1))
    BY <2>6 DEF Summing
  <2>8. k + 1 \in 0..n
    BY <1>1, <1>3
  <2> HIDE DEF h, Small
  <2> QED
    BY <2>7, <2>8
<1> HIDE DEF Good
<1>4. 0..n \subseteq Good
  BY <1>1, <1>2, <1>3, CountsUp
<1>5. n \in Good
  BY <1>1, <1>4
<1>6. Small(n) = SUBSET S
  BY <1>1
<1> QED
  BY <1>5, <1>6 DEF Good

LEMMA SumIs ==
  ASSUME NEW S, IsFiniteSet(S), NEW v
  PROVE  \E g : Summing(g, v, SUBSET S) /\ SumOver(v, S) = g[S]
<1> DEFINE g == CHOOSE f : Summing(f, v, SUBSET S)
<1>1. Summing(g, v, SUBSET S)
  BY SummingExists
<1>2. SumOver(v, S) = g[S]
  BY DEF SumOver, MapThenSumSet, MapThenFoldSet, Summing, Some
<1> QED
  BY <1>1, <1>2

(* Two ways to sum over subsets agree where both are defined.              *)
LEMMA SumsAgree ==
  ASSUME NEW S, IsFiniteSet(S), NEW T \in SUBSET S, NEW v, NEW g, NEW h,
         Summing(g, v, SUBSET S), Summing(h, v, SUBSET T)
  PROVE  g[T] = h[T]
<1> DEFINE P == {s \in SUBSET T : g[s] = h[s]}
<1>1. IsFiniteSet(T)
  BY FS_Subset
<1>2. ASSUME NEW s \in SUBSET T, \A x \in s : s \ {x} \in P
      PROVE  s \in P
  <2>1. g[s] = IF s = {} THEN 0 ELSE v[Some(s)] + g[s \ {Some(s)}]
    BY DEF Summing
  <2>2. h[s] = IF s = {} THEN 0 ELSE v[Some(s)] + h[s \ {Some(s)}]
    BY DEF Summing
  <2>3. s # {} => g[s \ {Some(s)}] = h[s \ {Some(s)}]
    BY <1>2, SomeIsIn
  <2>4. g[s] = h[s]
    BY <2>1, <2>2, <2>3
  <2> QED
    BY <2>4
<1> HIDE DEF P
<1>3. SUBSET T \subseteq P
  BY <1>1, <1>2, SetsGrow
<1> QED
  BY <1>3 DEF P

LEMMA SumStep ==
  ASSUME NEW S, IsFiniteSet(S), NEW v
  PROVE  SumOver(v, S) = IF S = {} THEN 0 ELSE v[Some(S)] + SumOver(v, S \ {Some(S)})
<1>1. PICK g : Summing(g, v, SUBSET S) /\ SumOver(v, S) = g[S]
  BY SumIs
<1>2. g[S] = IF S = {} THEN 0 ELSE v[Some(S)] + g[S \ {Some(S)}]
  BY <1>1 DEF Summing
<1>3. IsFiniteSet(S \ {Some(S)}) /\ S \ {Some(S)} \in SUBSET S
  BY FS_Subset
<1>4. PICK h : Summing(h, v, SUBSET (S \ {Some(S)})) /\ SumOver(v, S \ {Some(S)}) = h[S \ {Some(S)}]
  BY <1>3, SumIs
<1>5. g[S \ {Some(S)}] = h[S \ {Some(S)}]
  BY <1>1, <1>3, <1>4, SumsAgree
<1> QED
  BY <1>1, <1>2, <1>4, <1>5

LEMMA SumIsInt ==
  ASSUME NEW S, IsFiniteSet(S), NEW v, \A x \in S : v[x] \in Int
  PROVE  SumOver(v, S) \in Int
<1> DEFINE P == {s \in SUBSET S : SumOver(v, s) \in Int}
<1>1. ASSUME NEW s \in SUBSET S, \A x \in s : s \ {x} \in P
      PROVE  s \in P
  <2>1. SumOver(v, s) = IF s = {} THEN 0 ELSE v[Some(s)] + SumOver(v, s \ {Some(s)})
    BY FS_Subset, SumStep
  <2>2. s # {} => v[Some(s)] \in Int /\ SumOver(v, s \ {Some(s)}) \in Int
    BY <1>1, SomeIsIn
  <2>3. SumOver(v, s) \in Int
    BY <2>1, <2>2
  <2> QED
    BY <2>3
<1> HIDE DEF P
<1>2. SUBSET S \subseteq P
  BY <1>1, SetsGrow
<1> QED
  BY <1>2 DEF P

(* The sum does not depend on the order: any element may be taken first.   *)
LEMMA SumSplits ==
  ASSUME NEW S, IsFiniteSet(S), NEW v, \A x \in S : v[x] \in Int, NEW x \in S
  PROVE  SumOver(v, S) = v[x] + SumOver(v, S \ {x})
<1> DEFINE P == {s \in SUBSET S : \A y \in s : SumOver(v, s) = v[y] + SumOver(v, s \ {y})}
<1>1. \A s \in SUBSET S : IsFiniteSet(s) /\ SumOver(v, s) \in Int
  BY FS_Subset, SumIsInt
<1>2. ASSUME NEW s \in SUBSET S, \A z \in s : s \ {z} \in P
      PROVE  s \in P
  <2>1. ASSUME NEW y \in s
        PROVE  SumOver(v, s) = v[y] + SumOver(v, s \ {y})
    <3> DEFINE z == Some(s)
    <3>1. z \in s
      BY SomeIsIn
    <3>2. SumOver(v, s) = v[z] + SumOver(v, s \ {z})
      BY <1>1, <3>1, SumStep
    <3> HIDE DEF z
    <3>3. CASE y = z
      BY <3>2, <3>3
    <3>4. CASE y # z
      <4>1. SumOver(v, s \ {z}) = v[y] + SumOver(v, (s \ {z}) \ {y})
        BY <1>2, <3>1, <3>4
      <4>2. SumOver(v, s \ {y}) = v[z] + SumOver(v, (s \ {y}) \ {z})
        BY <1>2, <3>1, <3>4
      <4>3. (s \ {z}) \ {y} = (s \ {y}) \ {z}
        OBVIOUS
      <4>4. v[y] \in Int /\ v[z] \in Int /\ SumOver(v, (s \ {y}) \ {z}) \in Int
        BY <1>1, <3>1
      <4> DEFINE R == SumOver(v, (s \ {y}) \ {z})
      <4>5. SumOver(v, s \ {z}) = v[y] + R /\ SumOver(v, s \ {y}) = v[z] + R /\ R \in Int
        BY <4>1, <4>2, <4>3, <4>4
      <4> HIDE DEF R
      <4> QED
        BY <3>2, <4>4, <4>5
    <3> QED
      BY <3>3, <3>4
  <2> QED
    BY <2>1
<1> HIDE DEF P
<1>3. SUBSET S \subseteq P
  BY <1>2, SetsGrow
<1> QED
  BY <1>3 DEF P

(* Terms that differ by c each give sums that differ by c times as many.   *)
LEMMA SumShifts ==
  ASSUME NEW S, IsFiniteSet(S), NEW v, NEW w, NEW c \in Int,
         \A x \in S : v[x] \in Int /\ w[x] = v[x] + c
  PROVE  SumOver(w, S) = SumOver(v, S) + c * Cardinality(S)
<1> DEFINE P == {s \in SUBSET S : SumOver(w, s) = SumOver(v, s) + c * Cardinality(s)}
<1>1. \A s \in SUBSET S : IsFiniteSet(s) /\ SumOver(v, s) \in Int /\ Cardinality(s) \in Nat
  BY FS_Subset, SumIsInt, FS_CardinalityType
<1>2. ASSUME NEW s \in SUBSET S, \A z \in s : s \ {z} \in P
      PROVE  s \in P
  <2> DEFINE z == Some(s)
             t == s \ {z}
  <2>1. CASE s = {}
    <3>1. SumOver(w, s) = 0 /\ SumOver(v, s) = 0 /\ Cardinality(s) = 0
      BY <2>1, <1>1, SumStep, FS_EmptySet
    <3>2. c * 0 = 0
      OBVIOUS
    <3> QED
      BY <3>1, <3>2
  <2>2. CASE s # {}
    <3>1. z \in s /\ t \in SUBSET S
      BY <2>2, SomeIsIn
    <3>2. /\ SumOver(w, s) = w[z] + SumOver(w, t)
          /\ SumOver(v, s) = v[z] + SumOver(v, t)
      BY <2>2, <1>1, SumStep
    <3>3. SumOver(w, t) = SumOver(v, t) + c * Cardinality(t)
      BY <1>2, <3>1
    <3>4. Cardinality(s) = Cardinality(t) + 1 /\ Cardinality(t) \in Nat
      BY <1>1, <3>1, FS_RemoveElement
    <3>5. v[z] \in Int /\ w[z] = v[z] + c /\ SumOver(v, t) \in Int
      BY <1>1, <3>1
    <3> HIDE DEF z, t
    <3>6. c * (Cardinality(t) + 1) = c * Cardinality(t) + c /\ c * Cardinality(t) \in Int
      BY <3>4
    <3>7. SumOver(w, s) = SumOver(v, s) + c * Cardinality(s)
      <4> DEFINE p == c * Cardinality(t)
      <4>1. p \in Int /\ c * Cardinality(s) = p + c /\ SumOver(w, t) = SumOver(v, t) + p
        BY <3>3, <3>4, <3>6
      <4> HIDE DEF p
      <4> QED
        BY <3>2, <3>5, <4>1
    <3> QED
      BY <3>7
  <2> QED
    BY <2>1, <2>2
<1> HIDE DEF P
<1>3. SUBSET S \subseteq P
  BY <1>2, SetsGrow
<1> QED
  BY <1>3 DEF P

(* Only the terms over S matter.                                           *)
LEMMA SumSame ==
  ASSUME NEW S, IsFiniteSet(S), NEW v, NEW w, \A x \in S : v[x] \in Int /\ w[x] = v[x]
  PROVE  SumOver(w, S) = SumOver(v, S)
<1>1. SumOver(w, S) = SumOver(v, S) + 0 * Cardinality(S)
  BY SumShifts
<1>2. SumOver(v, S) \in Int /\ Cardinality(S) \in Nat
  BY SumIsInt, FS_CardinalityType
<1>3. 0 * Cardinality(S) = 0
  BY <1>2
<1> QED
  BY <1>1, <1>2, <1>3

-----------------------------------------------------------------------------
(* The account: what a controller holds beyond the credit it started with. *)
Beyond(r) == [i \in StreamIds |-> maxw[<<r, i>>] - Credit]

(* The account of one side, and what keeps it: it is over finitely many    *)
(* controllers, no more than max_num_streams, and a flow that does not     *)
(* exist yet counts for nothing.                                           *)
SideExact(r) ==
  /\ IsFiniteSet(Controllers(r)) /\ Cardinality(Controllers(r)) <= MaxStreams
  /\ acc[r] = SumOver(Beyond(r), Controllers(r))
AccountInv ==
  /\ \A r \in Receivers : SideExact(r)
  /\ \A f \in Flows : life[f] = "none" => maxw[f] = Credit

(* One term more, one term less, one term that changed.                    *)
LEMMA SumGrows ==
  ASSUME NEW S, IsFiniteSet(S), NEW v, NEW i, i \notin S, \A x \in S \cup {i} : v[x] \in Int
  PROVE  SumOver(v, S \cup {i}) = v[i] + SumOver(v, S)
<1>1. IsFiniteSet(S \cup {i}) /\ (S \cup {i}) \ {i} = S /\ i \in S \cup {i}
  BY FS_AddElement
<1> QED
  BY <1>1, SumSplits

LEMMA SumChanges ==
  ASSUME NEW S, IsFiniteSet(S), NEW v, NEW w, NEW i \in S,
         \A x \in S : v[x] \in Int /\ w[x] \in Int /\ (x # i => w[x] = v[x])
  PROVE  SumOver(w, S) = SumOver(v, S) + (w[i] - v[i])
<1>1. IsFiniteSet(S \ {i})
  BY FS_Subset
<1>2. SumOver(v, S) = v[i] + SumOver(v, S \ {i}) /\ SumOver(w, S) = w[i] + SumOver(w, S \ {i})
  BY SumSplits
<1>3. SumOver(w, S \ {i}) = SumOver(v, S \ {i}) /\ SumOver(v, S \ {i}) \in Int
  BY <1>1, SumSame, SumIsInt
<1> QED
  BY <1>2, <1>3

LEMMA BeyondIs ==
  ASSUME FTypeOK, NEW r \in Receivers
  PROVE  \A i \in StreamIds : Beyond(r)[i] = maxw[<<r, i>>] - Credit /\ Beyond(r)[i] \in Int
                              /\ maxw[<<r, i>>] \in Nat
BY FlowAssumption DEF Beyond, FTypeOK, Flows

LEMMA AccountInit == FInit => AccountInv
<1> SUFFICES ASSUME FInit PROVE AccountInv
  OBVIOUS
<1>1. ASSUME NEW r \in Receivers PROVE SideExact(r)
  <2>1. Controllers(r) = {}
    BY DEF FInit, Controllers, Flows
  <2>2. IsFiniteSet({}) /\ Cardinality({}) = 0
    BY FS_EmptySet
  <2>3. SumOver(Beyond(r), {}) = 0
    BY <2>2, SumStep
  <2> QED
    BY <2>1, <2>2, <2>3, FlowAssumption DEF SideExact, FInit
<1> QED
  BY <1>1 DEF AccountInv, FInit

(* A step that moves no maximum, no account and no controller.             *)
LEMMA SideStays ==
  ASSUME NEW r \in Receivers, SideExact(r), Controllers(r)' = Controllers(r),
         acc'[r] = acc[r], \A i \in StreamIds : maxw'[<<r, i>>] = maxw[<<r, i>>]
  PROVE  SideExact(r)'
<1>1. Beyond(r)' = Beyond(r)
  BY DEF Beyond
<1> QED
  BY <1>1 DEF SideExact

LEMMA AccountStep == FlowInv /\ FlowInv' /\ AccountInv /\ [FNext]_fvars => AccountInv'
<1> SUFFICES ASSUME FlowInv, FlowInv', AccountInv, [FNext]_fvars PROVE AccountInv'
  OBVIOUS
<1>0. FTypeOK /\ FTypeOK'
  BY DEF FlowInv
<1>1. ASSUME NEW i \in StreamIds, Create(i) PROVE AccountInv'
  <2>1. ASSUME NEW r \in Receivers PROVE SideExact(r)'
    <3>1. life[<<r, i>>] = "none" /\ Cardinality(Controllers(r)) < MaxStreams /\ <<r, i>> \in Flows
      BY <1>1 DEF Create, Flows
    <3>2. i \notin Controllers(r) /\ Controllers(r) \subseteq StreamIds
      BY <3>1 DEF Controllers
    <3>3. Controllers(r)' = Controllers(r) \cup {i}
      BY <1>0, <1>1, <3>1 DEF Create, Controllers, Flows, FTypeOK
    <3>4. Beyond(r)' = Beyond(r) /\ acc' = acc
      BY <1>1 DEF Create, Beyond
    <3>5. Beyond(r)[i] = 0
      BY <3>1, <1>0, BeyondIs, FlowAssumption DEF AccountInv
    <3>6. /\ IsFiniteSet(Controllers(r)) /\ Cardinality(Controllers(r)) \in Nat
          /\ acc[r] = SumOver(Beyond(r), Controllers(r))
      BY FS_CardinalityType DEF AccountInv, SideExact
    <3>7. \A x \in Controllers(r) \cup {i} : Beyond(r)[x] \in Int
      BY <1>0, <3>2, BeyondIs
    <3>8. /\ IsFiniteSet(Controllers(r) \cup {i})
          /\ Cardinality(Controllers(r) \cup {i}) = Cardinality(Controllers(r)) + 1
      BY <3>2, <3>6, FS_AddElement
    <3>9. SumOver(Beyond(r), Controllers(r) \cup {i}) = SumOver(Beyond(r), Controllers(r))
      <4>1. SumOver(Beyond(r), Controllers(r) \cup {i}) = Beyond(r)[i] + SumOver(Beyond(r), Controllers(r))
        BY <3>2, <3>6, <3>7, SumGrows
      <4>2. SumOver(Beyond(r), Controllers(r)) \in Int
        BY <3>6, <3>7, SumIsInt
      <4> QED
        BY <4>1, <4>2, <3>5
    <3> QED
      BY <3>1, <3>3, <3>4, <3>6, <3>8, <3>9, FlowAssumption DEF SideExact
  <2>2. \A f \in Flows : life'[f] = "none" => maxw'[f] = Credit
    BY <1>1 DEF Create, AccountInv
  <2> QED
    BY <2>1, <2>2 DEF AccountInv
<1>2. ASSUME UNCHANGED <<life, maxw, acc>> PROVE AccountInv'
  <2>1. ASSUME NEW r \in Receivers PROVE SideExact(r)'
    BY <1>2, SideStays DEF AccountInv, Controllers
  <2> QED
    BY <1>2, <2>1 DEF AccountInv
<1>3. ASSUME NEW f \in Flows, NEW k \in 0..buf[f], NEW grow \in BOOLEAN, DeliverAndGrant(f, k, grow)
      PROVE  AccountInv'
  <2> DEFINE q == f[1]
             j == f[2]
             m == Tuned(maxw[f], acc[q], grow)
  <2>1. q \in Receivers /\ j \in StreamIds /\ f = <<q, j>>
    BY DEF Flows
  <2>2. life[f] = "live" /\ life' = life /\ maxw' = [maxw EXCEPT ![f] = m]
        /\ acc' = [acc EXCEPT ![q] = acc[q] + (m - maxw[f])]
    BY <1>3 DEF DeliverAndGrant, Live, Charge
  <2>3. maxw'[f] = m /\ \A g \in Flows : g # f => maxw'[g] = maxw[g]
    BY <1>0, <2>2 DEF FTypeOK
  <2> HIDE DEF m
  <2>4. ASSUME NEW r \in Receivers PROVE SideExact(r)'
    <3>1. CASE r # q
      <4>1. acc'[r] = acc[r] /\ Controllers(r)' = Controllers(r)
        BY <3>1, <2>2, <1>0 DEF FTypeOK, Controllers
      <4>2. \A i \in StreamIds : <<r, i>> \in Flows /\ <<r, i>> # f
        BY <3>1, <2>1 DEF Flows
      <4> QED
        BY <4>1, <4>2, <2>3, SideStays DEF AccountInv
    <3>2. CASE r = q
      <4>1. Controllers(r)' = Controllers(r) /\ j \in Controllers(r) /\ Controllers(r) \subseteq StreamIds
        BY <3>2, <2>1, <2>2 DEF Controllers
      <4>2. acc'[r] = acc[r] + (maxw'[f] - maxw[f])
        BY <3>2, <2>1, <2>2, <2>3, <1>0 DEF FTypeOK
      <4>3. \A x \in StreamIds : /\ Beyond(r)[x] \in Int /\ Beyond(r)'[x] \in Int
                                 /\ Beyond(r)[x] = maxw[<<r, x>>] - Credit
                                 /\ Beyond(r)'[x] = maxw'[<<r, x>>] - Credit
        BY <1>0, FlowAssumption DEF Beyond, FTypeOK, Flows
      <4>4. \A x \in StreamIds : x # j => Beyond(r)'[x] = Beyond(r)[x]
        <5> SUFFICES ASSUME NEW x \in StreamIds, x # j
                     PROVE  Beyond(r)'[x] = Beyond(r)[x]
          OBVIOUS
        <5>1. <<r, x>> \in Flows /\ <<r, x>> # f
          BY <2>1 DEF Flows
        <5>2. maxw'[<<r, x>>] = maxw[<<r, x>>]
          BY <5>1, <2>3
        <5> QED
          BY <4>3, <5>2
      <4>5. IsFiniteSet(Controllers(r)) /\ acc[r] = SumOver(Beyond(r), Controllers(r))
            /\ Cardinality(Controllers(r)) <= MaxStreams
        BY DEF AccountInv, SideExact
      <4>6. SumOver(Beyond(r)', Controllers(r)) = SumOver(Beyond(r), Controllers(r)) + (Beyond(r)'[j] - Beyond(r)[j])
        <5> DEFINE v == Beyond(r)
                   w == Beyond(r)'
                   S == Controllers(r)
        <5>1. \A x \in S : v[x] \in Int /\ w[x] \in Int /\ (x # j => w[x] = v[x])
          BY <4>1, <4>3, <4>4
        <5>2. IsFiniteSet(S) /\ j \in S
          BY <4>1, <4>5
        <5> HIDE DEF v, w, S
        <5>3. SumOver(w, S) = SumOver(v, S) + (w[j] - v[j])
          BY <5>1, <5>2, SumChanges
        <5> QED
          BY <5>3 DEF v, w, S
      <4>7. Beyond(r)'[j] - Beyond(r)[j] = maxw'[f] - maxw[f]
        <5>1. maxw'[f] \in Nat /\ maxw[f] \in Nat
          BY <1>0 DEF FTypeOK
        <5>2. Beyond(r)[j] = maxw[f] - Credit /\ Beyond(r)'[j] = maxw'[f] - Credit
          BY <4>3, <2>1, <3>2
        <5> QED
          BY <5>1, <5>2, FlowAssumption
      <4> QED
        BY <4>1, <4>2, <4>5, <4>6, <4>7 DEF SideExact
    <3> QED
      BY <3>1, <3>2
  <2>5. ASSUME NEW g \in Flows, life'[g] = "none" PROVE maxw'[g] = Credit
    BY <2>5, <2>2, <2>3 DEF AccountInv
  <2> QED
    BY <2>4, <2>5 DEF AccountInv
<1>4. ASSUME NEW f \in Flows, Release(f) PROVE AccountInv'
  <2> DEFINE q == f[1]
             j == f[2]
  <2>1. q \in Receivers /\ j \in StreamIds /\ f = <<q, j>>
    BY DEF Flows
  <2>2. life[f] = "cut" /\ life' = [life EXCEPT ![f] = "gone"] /\ maxw' = maxw
        /\ acc' = [acc EXCEPT ![q] = acc[q] - (maxw[f] - Credit)]
    BY <1>4 DEF Release, Refund
  <2>3. life'[f] = "gone" /\ \A g \in Flows : g # f => life'[g] = life[g]
    BY <1>0, <2>2 DEF FTypeOK
  <2>4. ASSUME NEW r \in Receivers PROVE SideExact(r)'
    <3>1. \A i \in StreamIds : <<r, i>> \in Flows /\ (<<r, i>> = f <=> r = q /\ i = j)
      BY <2>1 DEF Flows
    <3>2. CASE r # q
      <4>1. acc'[r] = acc[r] /\ Controllers(r)' = Controllers(r)
        BY <3>1, <3>2, <2>2, <2>3, <1>0 DEF FTypeOK, Controllers
      <4> QED
        BY <4>1, <2>2, SideStays DEF AccountInv
    <3>3. CASE r = q
      <4>1. /\ Controllers(r)' = Controllers(r) \ {j} /\ j \in Controllers(r)
            /\ Controllers(r) \subseteq StreamIds
        BY <3>1, <3>3, <2>1, <2>2, <2>3 DEF Controllers
      <4>2. Beyond(r)' = Beyond(r) /\ Beyond(r)[j] = maxw[f] - Credit
        BY <2>1, <2>2, <3>3 DEF Beyond
      <4>3. acc'[r] = acc[r] - Beyond(r)[j]
        BY <4>2, <3>3, <2>1, <2>2, <1>0 DEF FTypeOK
      <4>4. IsFiniteSet(Controllers(r)) /\ acc[r] = SumOver(Beyond(r), Controllers(r))
            /\ Cardinality(Controllers(r)) <= MaxStreams
        BY DEF AccountInv, SideExact
      <4>5. \A x \in Controllers(r) : Beyond(r)[x] \in Int
        BY <1>0, <4>1, BeyondIs
      <4>6. SumOver(Beyond(r), Controllers(r)) = Beyond(r)[j] + SumOver(Beyond(r), Controllers(r) \ {j})
        BY <4>1, <4>4, <4>5, SumSplits
      <4>7. /\ IsFiniteSet(Controllers(r) \ {j}) /\ Cardinality(Controllers(r) \ {j}) <= MaxStreams
            /\ SumOver(Beyond(r), Controllers(r) \ {j}) \in Int
        <5>1. IsFiniteSet(Controllers(r) \ {j}) /\ Cardinality(Controllers(r) \ {j}) \in Nat
              /\ Cardinality(Controllers(r)) \in Nat
              /\ Cardinality(Controllers(r) \ {j}) <= Cardinality(Controllers(r))
          BY <4>4, FS_Subset, FS_CardinalityType
        <5> QED
          BY <5>1, <4>4, <4>5, SumIsInt, FlowAssumption
      <4>8. Beyond(r)[j] \in Int
        BY <4>1, <4>5
      <4>9. acc'[r] = SumOver(Beyond(r), Controllers(r) \ {j})
        BY <4>3, <4>4, <4>6, <4>7, <4>8
      <4> QED
        BY <4>1, <4>2, <4>7, <4>9 DEF SideExact
    <3> QED
      BY <3>2, <3>3
  <2>5. ASSUME NEW g \in Flows, life'[g] = "none" PROVE maxw'[g] = Credit
    BY <2>5, <2>2, <2>3 DEF AccountInv
  <2> QED
    BY <2>4, <2>5 DEF AccountInv
<1>5. ASSUME NEW S \in SUBSET Flows, Cut(S) PROVE AccountInv'
  <2>1. ASSUME NEW r \in Receivers PROVE SideExact(r)'
    <3>1. Controllers(r)' = Controllers(r)
      BY <1>5 DEF Cut, Controllers, Flows, Live
    <3> QED
      BY <1>5, <3>1, SideStays DEF Cut, AccountInv
  <2>2. \A f \in Flows : life'[f] = "none" => maxw'[f] = Credit
    BY <1>5 DEF Cut, AccountInv
  <2> QED
    BY <2>1, <2>2 DEF AccountInv
<1> QED
  BY <1>1, <1>2, <1>3, <1>4, <1>5 DEF FNext, fvars, Spend, Arrive, Regain, Deliver

(* The sum of the windows is the account and a DEFAULT_CREDIT per stream.  *)
LEMMA AccountMeans == FlowInv /\ AccountInv => AccountExact
<1> SUFFICES ASSUME FlowInv, AccountInv, NEW r \in Receivers
             PROVE  /\ acc[r] = SumOver(Beyond(r), Controllers(r))
                    /\ SumOver([i \in StreamIds |-> maxw[<<r, i>>]], Controllers(r)) <= ConnLimit
  BY DEF AccountExact, Beyond
<1> DEFINE C == Controllers(r)
           w == [i \in StreamIds |-> maxw[<<r, i>>]]
           n == Cardinality(C)
<1>1. /\ IsFiniteSet(C) /\ n <= MaxStreams /\ n \in Nat /\ C \subseteq StreamIds
      /\ acc[r] = SumOver(Beyond(r), C)
  BY FS_CardinalityType DEF AccountInv, SideExact, Controllers
<1>2. \A x \in C : Beyond(r)[x] \in Int /\ w[x] = Beyond(r)[x] + Credit
  BY <1>1, BeyondIs, FlowAssumption DEF FlowInv
<1> HIDE DEF C, w, n
<1>3. SumOver(w, C) = acc[r] + Credit * n
  BY <1>1, <1>2, SumShifts, FlowAssumption DEF n
<1>4. Credit * n \in Int /\ Credit * n <= MaxStreams * Credit
  <2>1. \A a, b, c \in Nat : b <= c => a * b <= c * a /\ a * b \in Int
    OBVIOUS
  <2> QED
    BY <1>1, <2>1, FlowAssumption
<1>5. acc[r] \in Int /\ acc[r] <= ConnLimit - MaxStreams * Credit
  BY DEF FlowInv, FTypeOK, AccountWithinLimit
<1>6. SumOver(w, C) <= ConnLimit
  <2> DEFINE p == Credit * n
             l == MaxStreams * Credit
  <2>1. p \in Int /\ l \in Int /\ p <= l /\ acc[r] <= ConnLimit - l /\ SumOver(w, C) = acc[r] + p /\ ConnLimit \in Int
    BY <1>3, <1>4, <1>5, FlowAssumption
  <2> HIDE DEF p, l
  <2> QED
    BY <2>1, <1>5
<1> QED
  BY <1>1, <1>6 DEF C, w

(* For any number of streams: the account of auto-tuned windows is at all  *)
(* times the sum of what the controllers hold beyond DEFAULT_CREDIT, so    *)
(* that FlowController::drop never subtracts what was not added, and the   *)
(* windows promised together stay within max_connection_receive_window.    *)
THEOREM AccountIsExact == FSpec => []AccountExact
<1>1. FSpec => [](FlowInv /\ AccountInv)
  BY FlowInit, FlowStep, AccountInit, AccountStep, PTL DEF FSpec
<1> QED
  BY <1>1, AccountMeans, PTL

-----------------------------------------------------------------------------
(* What a frame says about itself is what the source yielded.              *)
Faithful(e) == e.seq < Len(source) /\ e.body = source[e.seq + 1]

AllFaithful(q) == \A j \in 1..Len(q) : Faithful(q[j])

(* The parts of the state the ordering argument is about.                  *)
Shape ==
  /\ source \in Seq(Chunks)
  /\ next \in Nat /\ off \in [Stripes -> Nat]
  /\ phase \in {"read", "send", "parked", "finish", "done", "failed"}
  /\ pipe \in [Stripes -> Seq(Units)] /\ hand \in [Stripes -> Seq(Units)]
  /\ rx \in Seq(Events) /\ pending \subseteq Events
  /\ want \in Nat /\ out \in Seq(Chunks)

Sending == phase \in {"send", "parked"} => source # <<>>

Travelling ==
  /\ \A s \in Stripes : AllFaithful(pipe[s]) /\ AllFaithful(hand[s])
  /\ \A j \in 1..Len(rx) : rx[j] # Broken => Faithful(rx[j])
  /\ \A e \in pending : Faithful(e)

Counted == Len(out) = want

OrderInv == Shape /\ Sending /\ Travelling /\ Counted /\ InOrder

-----------------------------------------------------------------------------
(* Sequence facts the steps rest on.                                       *)

(* Appending an element keeps every element in place.                      *)
LEMMA AppendFacts ==
  ASSUME NEW S, NEW q \in Seq(S), NEW x \in S
  PROVE  /\ Append(q, x) \in Seq(S) /\ Len(Append(q, x)) = Len(q) + 1
         /\ \A j \in 1..Len(q) : Append(q, x)[j] = q[j]
         /\ Append(q, x)[Len(q) + 1] = x
  OBVIOUS

(* The tail of a non-empty sequence holds its other elements.              *)
LEMMA TailFacts ==
  ASSUME NEW S, NEW q \in Seq(S), q # <<>>
  PROVE  /\ Head(q) \in S /\ Head(q) = q[1] /\ 1 \in 1..Len(q)
         /\ Tail(q) \in Seq(S) /\ Len(Tail(q)) = Len(q) - 1
         /\ \A j \in 1..Len(Tail(q)) : Tail(q)[j] = q[j + 1] /\ j + 1 \in 1..Len(q)
  OBVIOUS

(* A stripe index the round-robin computes is a stripe.                    *)
LEMMA IdxIsStripe == ASSUME next \in Nat PROVE Idx \in Stripes
  BY StripeAssumption DEF Idx, Stripes

LEMMA OrderInit == Init => OrderInv
<1> SUFFICES ASSUME Init PROVE OrderInv
  OBVIOUS
<1>1. Shape
  BY DEF Init, Shape
<1>2. Sending /\ Travelling /\ Counted /\ InOrder
  BY DEF Init, Sending, Travelling, Counted, InOrder, AllFaithful
<1>3. QED
  BY <1>1, <1>2 DEF OrderInv

(* A chunk read later does not change what earlier frames say.             *)
LEMMA ReadSourceKeeps == OrderInv /\ ReadSource => OrderInv'
<1> SUFFICES ASSUME OrderInv, ReadSource PROVE OrderInv'
  OBVIOUS
<1> USE DEF OrderInv
<1>1. PICK b \in Chunks : source' = Append(source, b)
  BY DEF ReadSource
<1>2. /\ source' \in Seq(Chunks) /\ Len(source') = Len(source) + 1 /\ source' # <<>>
      /\ \A j \in 1..Len(source) : source'[j] = source[j]
  BY <1>1, AppendFacts DEF Shape
<1>3. ASSUME NEW e, e.seq \in Nat, Faithful(e) PROVE Faithful(e)'
  <2>1. Len(source) \in Nat /\ e.seq + 1 \in 1..Len(source)
    BY <1>3 DEF Faithful, Shape
  <2>2. source'[e.seq + 1] = source[e.seq + 1] /\ e.seq < Len(source')
    BY <1>2, <1>3, <2>1
  <2>3. QED
    BY <1>3, <2>2 DEF Faithful
<1>4. UNCHANGED <<next, off, pipe, hand, rx, pending, want, out>> /\ phase' = "send"
  BY DEF ReadSource, pvars, rvars
<1>5. Shape'
  BY <1>2, <1>4 DEF Shape
<1>6. Travelling'
  <2>1. ASSUME NEW s \in Stripes PROVE AllFaithful(pipe[s])' /\ AllFaithful(hand[s])'
    <3>1. pipe[s] \in Seq(Units) /\ hand[s] \in Seq(Units)
      BY DEF Shape
    <3>2. AllFaithful(pipe[s]) /\ AllFaithful(hand[s])
      BY DEF Travelling
    <3>3. \A u \in Units : u.seq \in Nat
      BY DEF Units
    <3>4. QED
      BY <1>3, <1>4, <3>1, <3>2, <3>3 DEF AllFaithful
  <2>2. \A e \in Events : e.seq \in Nat
    BY DEF Events
  <2>3. \A j \in 1..Len(rx) : rx[j] \in Events
    BY DEF Shape
  <2>4. (\A j \in 1..Len(rx) : rx[j] # Broken => Faithful(rx[j]))'
    BY <1>3, <1>4, <2>2, <2>3 DEF Travelling, Broken
  <2>5. (\A e \in pending : Faithful(e))'
    BY <1>3, <1>4, <2>2 DEF Travelling, Shape
  <2>6. QED
    BY <2>1, <2>4, <2>5 DEF Travelling
<1>7. Sending' /\ Counted' /\ InOrder'
  <2>1. Len(source) \in Nat /\ Len(out) \in Nat /\ Len(out) <= Len(source)
    BY DEF Shape, InOrder
  <2>2. \A j \in 1..Len(out) : out[j] = source'[j]
    BY <1>2, <2>1 DEF InOrder
  <2>3. InOrder'
    BY <1>2, <1>4, <2>1, <2>2 DEF InOrder
  <2>4. QED
    BY <1>2, <1>4, <2>3 DEF Sending, Counted
<1>8. QED
  BY <1>5, <1>6, <1>7

(* The units of the frame being sent carry its number and its chunk.       *)
LEMMA PollWriteKeeps == OrderInv /\ PollWriteReady => OrderInv'
<1> SUFFICES ASSUME OrderInv, PollWriteReady PROVE OrderInv'
  OBVIOUS
<1> USE DEF OrderInv
<1> DEFINE s == Idx
<1>1. s \in Stripes
  BY IdxIsStripe DEF Shape
<1>2. PICK n \in 1..(FrameLen - off[s]) :
        /\ pipe' = [pipe EXCEPT ![s] = pipe[s] \o UnitsFrom(off[s], n)]
        /\ AfterWrite(s, off[s] + n)
  BY DEF PollWriteReady
<1>3. UNCHANGED <<source, hand, rx, pending, want, out>> /\ phase = "send"
  BY DEF PollWriteReady, rvars
<1>4. source # <<>> /\ Len(source) \in Nat \ {0}
  BY <1>3 DEF Sending, Shape
<1> HIDE DEF s
<1>5. n \in Nat /\ off[s] \in Nat
  BY <1>1, <1>2, StripeAssumption DEF Shape
<1> DEFINE u == UnitsFrom(off[s], n)
<1>6. u \in Seq(Units) /\ AllFaithful(u)
  <2>1. Seq0 \in Nat /\ Seq0 < Len(source) /\ source[Len(source)] \in Chunks
    BY <1>4 DEF Seq0, Shape
  <2>2. u \in Seq(Units) /\ Len(u) = n
    BY <1>5, <2>1 DEF UnitsFrom, Unit, Units
  <2>3. \A j \in 1..n : u[j].seq = Seq0 /\ u[j].body = source[Len(source)]
    BY <1>5 DEF UnitsFrom, Unit
  <2>4. QED
    BY <1>4, <2>1, <2>2, <2>3 DEF AllFaithful, Faithful, Seq0
<1> HIDE DEF u
<1>7. pipe[s] \o u \in Seq(Units) /\ AllFaithful(pipe[s] \o u)
  <2>1. pipe[s] \in Seq(Units) /\ AllFaithful(pipe[s])
    BY <1>1 DEF Shape, Travelling
  <2>2. /\ Len(pipe[s] \o u) = Len(pipe[s]) + Len(u)
        /\ \A j \in 1..(Len(pipe[s]) + Len(u)) :
             (pipe[s] \o u)[j] = IF j <= Len(pipe[s]) THEN pipe[s][j] ELSE u[j - Len(pipe[s])]
    BY <1>6, <2>1
  <2>3. ASSUME NEW j \in 1..Len(pipe[s] \o u) PROVE Faithful((pipe[s] \o u)[j])
    <3>1. Len(pipe[s]) \in Nat /\ Len(u) \in Nat
      BY <1>6, <2>1
    <3>2. CASE j <= Len(pipe[s])
      BY <2>1, <2>2, <3>1, <3>2 DEF AllFaithful
    <3>3. CASE j > Len(pipe[s])
      <4>1. j - Len(pipe[s]) \in 1..Len(u) /\ (pipe[s] \o u)[j] = u[j - Len(pipe[s])]
        BY <2>2, <3>1, <3>3
      <4>2. QED
        BY <1>6, <4>1 DEF AllFaithful
    <3>4. QED
      BY <2>2, <3>1, <3>2, <3>3
  <2>4. pipe[s] \o u \in Seq(Units)
    BY <1>6, <2>1
  <2>5. QED
    BY <2>3, <2>4 DEF AllFaithful
<1>8. pipe' = [pipe EXCEPT ![s] = pipe[s] \o u]
  BY <1>2 DEF u
<1>9. next' \in Nat /\ off' \in [Stripes -> Nat] /\ phase' \in {"read", "send"}
  <2>1. s + 1 \in Nat /\ off[s] + n \in Nat
    BY <1>1, <1>5, StripeAssumption DEF Stripes
  <2>2. CASE off[s] + n = FrameLen
    <3>1. off' = [off EXCEPT ![s] = 0] /\ next' = s + 1 /\ phase' = "read"
      BY <1>2, <2>2 DEF AfterWrite
    <3>2. QED
      BY <1>1, <2>1, <3>1 DEF Shape
  <2>3. CASE off[s] + n # FrameLen
    <3>1. off' = [off EXCEPT ![s] = off[s] + n] /\ next' = next /\ phase' = phase
      BY <1>2, <2>3 DEF AfterWrite
    <3>2. QED
      BY <1>1, <1>3, <2>1, <3>1 DEF Shape
  <2>4. QED
    BY <2>2, <2>3
<1>10. Shape'
  BY <1>1, <1>3, <1>7, <1>8, <1>9 DEF Shape
<1>11. Travelling'
  <2>1. ASSUME NEW r \in Stripes PROVE AllFaithful(pipe'[r]) /\ AllFaithful(hand'[r])
    <3>1. AllFaithful(hand[r]) /\ hand'[r] = hand[r]
      BY <1>3 DEF Travelling
    <3>2. AllFaithful(pipe'[r])
      BY <1>1, <1>7, <1>8 DEF Travelling, Shape
    <3>3. QED
      BY <3>1, <3>2
  <2>2. UNCHANGED <<source, rx, pending>>
    BY <1>3
  <2>3. QED
    BY <2>1, <2>2 DEF Travelling, AllFaithful, Faithful
<1>12. Sending' /\ Counted' /\ InOrder'
  BY <1>3, <1>4 DEF Sending, Counted, InOrder
<1>13. QED
  BY <1>10, <1>11, <1>12

(* A reader moves units, unchanged, from its stripe to its hand.           *)
LEMMA ReadUnitKeeps ==
  ASSUME OrderInv, NEW s \in Stripes, ReadUnit(s) PROVE OrderInv'
<1> USE DEF OrderInv
<1>1. /\ pipe[s] # <<>> /\ hand' = [hand EXCEPT ![s] = Append(hand[s], Head(pipe[s]))]
      /\ pipe' = [pipe EXCEPT ![s] = Tail(pipe[s])]
      /\ UNCHANGED <<source, phase, next, off, rx, pending, want, out>>
  BY DEF ReadUnit
<1>2. pipe[s] \in Seq(Units) /\ hand[s] \in Seq(Units)
  BY DEF Shape
<1>3. AllFaithful(pipe[s]) /\ AllFaithful(hand[s])
  BY DEF Travelling
<1>4. Tail(pipe[s]) \in Seq(Units) /\ AllFaithful(Tail(pipe[s]))
  BY <1>1, <1>2, <1>3, TailFacts DEF AllFaithful
<1>5. Head(pipe[s]) \in Units /\ Faithful(Head(pipe[s]))
  BY <1>1, <1>2, <1>3, TailFacts DEF AllFaithful
<1>6. Append(hand[s], Head(pipe[s])) \in Seq(Units) /\ AllFaithful(Append(hand[s], Head(pipe[s])))
  BY <1>2, <1>3, <1>5, AppendFacts DEF AllFaithful
<1>7. Shape'
  BY <1>1, <1>4, <1>6 DEF Shape
<1>8. Travelling'
  <2>1. ASSUME NEW r \in Stripes PROVE AllFaithful(pipe'[r]) /\ AllFaithful(hand'[r])
    BY <1>1, <1>4, <1>6 DEF Travelling, Shape
  <2>2. UNCHANGED <<source, rx, pending>>
    BY <1>1
  <2>3. QED
    BY <2>1, <2>2 DEF Travelling, AllFaithful, Faithful
<1>9. QED
  BY <1>1, <1>7, <1>8 DEF Sending, Counted, InOrder

(* The event a reader forwards says what the frame's header said.          *)
LEMMA ForwardFrameKeeps ==
  ASSUME OrderInv, NEW s \in Stripes, ForwardFrame(s) PROVE OrderInv'
<1> USE DEF OrderInv
<1> DEFINE e == Event(hand[s][1].seq, hand[s][1].body)
<1>1. /\ Len(hand[s]) = FrameLen /\ rx' = Append(rx, e)
      /\ hand' = [hand EXCEPT ![s] = <<>>]
      /\ UNCHANGED <<source, phase, next, off, pipe, pending, want, out>>
  BY DEF ForwardFrame, svars, pvars
<1>2. hand[s] \in Seq(Units) /\ 1 \in 1..Len(hand[s])
  BY <1>1, StripeAssumption DEF Shape
<1>3. hand[s][1] \in Units /\ Faithful(hand[s][1])
  BY <1>2 DEF Travelling, AllFaithful
<1>4. e \in Events /\ Faithful(e)
  BY <1>3 DEF Event, Events, Units, Faithful
<1> HIDE DEF e
<1>5. rx' \in Seq(Events) /\ Len(rx') = Len(rx) + 1
  BY <1>1, <1>4, AppendFacts DEF Shape
<1>6. \A j \in 1..Len(rx') : rx'[j] # Broken => Faithful(rx'[j])
  <2>1. /\ \A j \in 1..Len(rx) : rx'[j] = rx[j]
        /\ rx'[Len(rx) + 1] = e /\ Len(rx) \in Nat
    BY <1>1, <1>4, AppendFacts DEF Shape
  <2>2. QED
    BY <1>4, <1>5, <2>1 DEF Travelling
<1>7. Shape'
  BY <1>1, <1>5 DEF Shape
<1>8. AllFaithful(<<>>)
  BY DEF AllFaithful
<1>9. Travelling'
  <2>1. ASSUME NEW r \in Stripes PROVE AllFaithful(pipe'[r]) /\ AllFaithful(hand'[r])
    BY <1>1, <1>8 DEF Travelling, Shape
  <2>2. UNCHANGED <<source, pending>>
    BY <1>1
  <2>3. QED
    BY <1>6, <2>1, <2>2 DEF Travelling, AllFaithful, Faithful
<1>10. QED
  BY <1>1, <1>7, <1>9 DEF Sending, Counted, InOrder

(* A delivered frame is the next chunk of the source.                      *)
LEMMA DeliverKeeps ==
  ASSUME OrderInv, NEW e \in Events, Faithful(e), e.seq = want,
         out' = Append(out, e.body), want' = want + 1, UNCHANGED source
  PROVE  want' \in Nat /\ out' \in Seq(Chunks) /\ Counted' /\ InOrder'
<1> USE DEF OrderInv
<1>1. want \in Nat /\ Len(source) \in Nat /\ want < Len(source) /\ e.body = source[want + 1]
  BY DEF Faithful, Shape
<1>2. e.body \in Chunks
  BY <1>1 DEF Shape
<1>3. /\ out' \in Seq(Chunks) /\ Len(out') = want + 1
      /\ \A j \in 1..want : out'[j] = out[j]
      /\ out'[want + 1] = e.body
  BY <1>2, AppendFacts DEF Shape, Counted
<1>4. \A j \in 1..(want + 1) : out'[j] = source[j]
  BY <1>1, <1>3 DEF InOrder, Counted
<1>5. QED
  BY <1>1, <1>3, <1>4 DEF Counted, InOrder

LEMMA TakeFrameKeeps == OrderInv /\ TakeFrame => OrderInv'
<1> SUFFICES ASSUME OrderInv, TakeFrame PROVE OrderInv'
  OBVIOUS
<1> USE DEF OrderInv
<1> DEFINE e == Head(rx)
<1>1. /\ rx # <<>> /\ e # Broken /\ rx' = Tail(rx)
      /\ UNCHANGED <<source, phase, next, off, pipe, hand>>
  BY DEF TakeFrame, svars, pvars
<1>2. /\ e \in Events /\ e = rx[1] /\ 1 \in 1..Len(rx) /\ Tail(rx) \in Seq(Events)
      /\ \A j \in 1..Len(Tail(rx)) : Tail(rx)[j] = rx[j + 1] /\ j + 1 \in 1..Len(rx)
  BY <1>1, TailFacts DEF Shape
<1>3. Faithful(e)
  BY <1>1, <1>2 DEF Travelling
<1>4. \A j \in 1..Len(rx') : rx'[j] # Broken => Faithful(rx'[j])
  BY <1>1, <1>2 DEF Travelling
<1> HIDE DEF e
<1>5. CASE e.seq = want
  <2>1. out' = Append(out, e.body) /\ want' = want + 1 /\ UNCHANGED pending
    BY <1>5 DEF TakeFrame, e
  <2>2. want' \in Nat /\ out' \in Seq(Chunks) /\ Counted' /\ InOrder'
    BY <1>1, <1>2, <1>3, <1>5, <2>1, DeliverKeeps
  <2>3. Shape'
    BY <1>1, <1>2, <2>1, <2>2 DEF Shape
  <2>4. Travelling'
    BY <1>1, <1>4, <2>1 DEF Travelling, AllFaithful, Faithful
  <2>5. QED
    BY <1>1, <2>2, <2>3, <2>4 DEF Sending
<1>6. CASE e.seq # want
  <2>1. pending' \subseteq pending \cup {e} /\ UNCHANGED <<out, want>>
    BY <1>6 DEF TakeFrame, Kept, e
  <2>2. Shape'
    BY <1>1, <1>2, <2>1 DEF Shape
  <2>3. Travelling'
    BY <1>1, <1>3, <1>4, <2>1 DEF Travelling, AllFaithful, Faithful
  <2>4. QED
    BY <1>1, <2>1, <2>2, <2>3 DEF Sending, Counted, InOrder
<1>7. QED
  BY <1>5, <1>6

LEMMA DrainKeeps == OrderInv /\ Drain => OrderInv'
<1> SUFFICES ASSUME OrderInv, Drain PROVE OrderInv'
  OBVIOUS
<1> USE DEF OrderInv
<1>1. PICK e \in pending : /\ e.seq = want /\ out' = Append(out, e.body)
                           /\ want' = want + 1 /\ pending' = pending \ {e}
  BY DEF Drain
<1>2. UNCHANGED <<source, phase, next, off, pipe, hand, rx>>
  BY DEF Drain, svars, pvars
<1>3. e \in Events /\ Faithful(e)
  BY DEF Shape, Travelling
<1>4. want' \in Nat /\ out' \in Seq(Chunks) /\ Counted' /\ InOrder'
  BY <1>1, <1>2, <1>3, DeliverKeeps
<1>5. Shape'
  BY <1>1, <1>2, <1>4 DEF Shape
<1>6. Travelling'
  BY <1>1, <1>2 DEF Travelling, AllFaithful, Faithful
<1>7. QED
  BY <1>2, <1>4, <1>5, <1>6 DEF Sending

(* Steps that drop units or events, or touch none of them.                 *)
LEMMA ShrinkKeeps ==
  ASSUME OrderInv, UNCHANGED <<source, hand, pending, want, out>>,
         next' \in Nat, off' = off,
         phase' \in {"read", "send", "parked", "finish", "done", "failed"},
         phase' \in {"send", "parked"} => phase \in {"send", "parked"},
         pipe' \in [Stripes -> Seq(Units)],
         \A s \in Stripes : AllFaithful(pipe'[s]),
         rx' \in Seq(Events),
         \A j \in 1..Len(rx') : rx'[j] # Broken => Faithful(rx'[j])
  PROVE  OrderInv'
<1> USE DEF OrderInv
<1>1. Shape'
  BY DEF Shape
<1>2. Travelling'
  BY DEF Travelling, AllFaithful, Faithful
<1>3. Sending' /\ Counted' /\ InOrder'
  BY DEF Sending, Counted, InOrder
<1>4. QED
  BY <1>1, <1>2, <1>3

LEMMA SenderQuietKeeps ==
  ASSUME OrderInv,
         \/ SourceEnds \/ FinishStripe \/ PollWritePending \/ PollWriteError
         \/ Repoll \/ SourceFails
  PROVE  OrderInv'
<1>1. /\ UNCHANGED <<source, off, pipe, hand, rx, pending, want, out>>
      /\ next' \in Nat
      /\ phase' \in {"read", "send", "parked", "finish", "done", "failed"}
      /\ phase' \in {"send", "parked"} => phase \in {"send", "parked"}
  <2>1. next \in Nat /\ Idx + 1 \in Nat
    BY IdxIsStripe, StripeAssumption DEF OrderInv, Shape, Stripes
  <2>2. CASE SourceEnds
    BY <2>2 DEF SourceEnds, pvars, rvars
  <2>3. CASE FinishStripe
    BY <2>1, <2>3 DEF FinishStripe, rvars
  <2>4. CASE PollWritePending
    BY <2>1, <2>4 DEF PollWritePending, pvars, rvars
  <2>5. CASE PollWriteError
    BY <2>1, <2>5 DEF PollWriteError, FailSend, rvars
  <2>6. CASE Repoll
    BY <2>1, <2>6 DEF Repoll, pvars, rvars
  <2>7. CASE SourceFails
    BY <2>1, <2>7 DEF SourceFails, FailSend, rvars
  <2>8. QED
    BY <2>2, <2>3, <2>4, <2>5, <2>6, <2>7
<1>2. /\ pipe \in [Stripes -> Seq(Units)] /\ rx \in Seq(Events)
      /\ \A s \in Stripes : AllFaithful(pipe[s])
      /\ \A j \in 1..Len(rx) : rx[j] # Broken => Faithful(rx[j])
  BY DEF OrderInv, Shape, Travelling
<1>3. QED
  BY <1>1, <1>2, ShrinkKeeps

(* Cutting a stripe keeps a prefix of what it carried.                     *)
LEMMA CutKeeps ==
  ASSUME OrderInv, NEW s \in Stripes, CutStripe(s) PROVE OrderInv'
<1>1. PICK n \in 0..Len(pipe[s]) : pipe' = [pipe EXCEPT ![s] = SubSeq(pipe[s], 1, n)]
  BY DEF CutStripe
<1>2. pipe[s] \in Seq(Units) /\ AllFaithful(pipe[s])
  BY DEF OrderInv, Shape, Travelling
<1>3. /\ SubSeq(pipe[s], 1, n) \in Seq(Units) /\ Len(SubSeq(pipe[s], 1, n)) = n
      /\ \A j \in 1..n : SubSeq(pipe[s], 1, n)[j] = pipe[s][j] /\ j \in 1..Len(pipe[s])
  BY <1>2
<1>4. AllFaithful(SubSeq(pipe[s], 1, n))
  BY <1>2, <1>3 DEF AllFaithful
<1>5. pipe' \in [Stripes -> Seq(Units)] /\ \A t \in Stripes : AllFaithful(pipe'[t])
  BY <1>1, <1>3, <1>4 DEF OrderInv, Shape, Travelling
<1>6. UNCHANGED <<source, phase, next, off, hand, rx, pending, want, out>>
  BY DEF CutStripe, rvars
<1>7. QED
  BY <1>5, <1>6, ShrinkKeeps DEF OrderInv, Shape, Travelling

LEMMA StripeEndsKeeps ==
  ASSUME OrderInv, NEW s \in Stripes, StripeEnds(s) PROVE OrderInv'
<1>1. UNCHANGED <<source, phase, next, off, pipe, hand, pending, want, out>>
  BY DEF StripeEnds, svars, pvars
<1>2. rx' = rx \/ rx' = Append(rx, Broken)
  BY DEF StripeEnds
<1>3. Broken \in Events /\ rx \in Seq(Events)
  BY DEF Broken, Events, OrderInv, Shape
<1>4. rx' \in Seq(Events) /\ \A j \in 1..Len(rx') : rx'[j] # Broken => Faithful(rx'[j])
  <2>1. CASE rx' = rx
    BY <1>3, <2>1 DEF OrderInv, Travelling
  <2>2. CASE rx' = Append(rx, Broken)
    BY <1>3, <2>2, AppendFacts DEF OrderInv, Travelling
  <2>3. QED
    BY <1>2, <2>1, <2>2
<1>5. QED
  BY <1>1, <1>4, ShrinkKeeps DEF OrderInv, Shape, Travelling

LEMMA RecvQuietKeeps ==
  ASSUME OrderInv, DrainEnds \/ TakeBroken \/ RecvEnds \/ DestFails
  PROVE  OrderInv'
<1>1. UNCHANGED <<source, phase, next, off, hand, pending, want, out>>
  BY DEF DrainEnds, TakeBroken, RecvEnds, DestFails, svars, pvars
<1>2. pipe' = pipe \/ pipe' = [s \in Stripes |-> <<>>]
  BY DEF DrainEnds, TakeBroken, RecvEnds, DestFails, FailRecv, DropReaders, pvars
<1>3. rx' = rx \/ (rx # <<>> /\ rx' = Tail(rx))
  BY DEF DrainEnds, TakeBroken, RecvEnds, DestFails
<1>4. pipe' \in [Stripes -> Seq(Units)] /\ \A s \in Stripes : AllFaithful(pipe'[s])
  <2>1. CASE pipe' = pipe
    BY <2>1 DEF OrderInv, Shape, Travelling
  <2>2. CASE pipe' = [s \in Stripes |-> <<>>]
    BY <2>2 DEF AllFaithful
  <2>3. QED
    BY <1>2, <2>1, <2>2
<1>5. rx' \in Seq(Events) /\ \A j \in 1..Len(rx') : rx'[j] # Broken => Faithful(rx'[j])
  <2>1. rx \in Seq(Events) /\ \A j \in 1..Len(rx) : rx[j] # Broken => Faithful(rx[j])
    BY DEF OrderInv, Shape, Travelling
  <2>2. CASE rx # <<>> /\ rx' = Tail(rx)
    BY <2>1, <2>2, TailFacts
  <2>3. QED
    BY <1>3, <2>1, <2>2
<1>6. QED
  BY <1>1, <1>4, <1>5, ShrinkKeeps DEF OrderInv, Shape

LEMMA OrderStep == OrderInv /\ [Next]_vars => OrderInv'
<1> SUFFICES ASSUME OrderInv, [Next]_vars PROVE OrderInv'
  OBVIOUS
<1>1. CASE ReadSource
  BY <1>1, ReadSourceKeeps
<1>2. CASE PollWriteReady
  BY <1>2, PollWriteKeeps
<1>3. CASE \/ SourceEnds \/ FinishStripe \/ PollWritePending \/ PollWriteError
           \/ Repoll \/ SourceFails
  BY <1>3, SenderQuietKeeps
<1>4. ASSUME NEW s \in Stripes, ReadUnit(s) \/ ForwardFrame(s) \/ StripeEnds(s) \/ CutStripe(s)
      PROVE  OrderInv'
  BY <1>4, ReadUnitKeeps, ForwardFrameKeeps, StripeEndsKeeps, CutKeeps
<1>5. CASE TakeFrame \/ Drain
  BY <1>5, TakeFrameKeeps, DrainKeeps
<1>6. CASE DrainEnds \/ TakeBroken \/ RecvEnds \/ DestFails
  BY <1>6, RecvQuietKeeps
<1>7. CASE UNCHANGED vars
  BY <1>7, ShrinkKeeps DEF vars, svars, pvars, rvars, OrderInv, Shape, Travelling
<1>8. QED
  BY <1>1, <1>2, <1>3, <1>4, <1>5, <1>6, <1>7 DEF Next, Sender, Receiver

(* Whatever stripes the frames took, and whatever broke, the destination   *)
(* has received a prefix of the source.                                    *)
THEOREM StripesPreserveOrder == Spec => []InOrder
<1>1. OrderInv => InOrder
  BY DEF OrderInv
<1>2. QED
  BY OrderInit, OrderStep, <1>1, PTL DEF Spec

-----------------------------------------------------------------------------
(* Frames stay whole.  What is on its way on a stripe, and what it needs:  *)
(* while the stripe is open the sender's offset is how far the last frame  *)
(* has got, and only the stripe being polled holds a frame half written.   *)

Line(s) == hand[s] \o pipe[s]

(* How far into a frame the units after n units are.                       *)
Position(n) == n % FrameLen

Whole(w) ==
  \A j \in 1..Len(w) :
    /\ w[j].part = Position(j - 1) + 1
    /\ w[j].part > 1 => w[j].seq = w[j - 1].seq

AllWhole == \A s \in Stripes : Whole(Line(s))

Ranges ==
  /\ next \in 0..K /\ tried \in 0..K /\ off \in [Stripes -> 0..FrameLen]
  /\ phase = "send" => tried < K
  /\ armed \subseteq Stripes /\ woken \in BOOLEAN
  /\ shut \in [Stripes -> {"open", "fin", "eof", "error"}]
  /\ reader \in [Stripes -> {"reading", "ended"}]
  /\ recv \in {"recv", "drain", "clean", "failed"}

HalfWritten(s) ==
  phase \in {"send", "parked"} /\ Idx = s /\ Line(s)[Len(Line(s))].seq = Seq0

Committed ==
  \A s \in Stripes : shut[s] = "open" =>
    /\ off[s] = Position(Len(Line(s)))
    /\ off[s] > 0 => HalfWritten(s)

FrameInv == OrderInv /\ Ranges /\ Committed /\ AllWhole

(* Euclid: a number is its quotient times the divisor, plus the remainder. *)
LEMMA Division ==
  ASSUME NEW a \in Nat, NEW F \in Nat \ {0}
  PROVE  a = F * (a \div F) + (a % F) /\ a % F \in 0..(F - 1) /\ a \div F \in Nat
  OBVIOUS

(* A larger quotient gives a product larger by at least the divisor.       *)
LEMMA NextMultiple ==
  ASSUME NEW F \in Nat \ {0}, NEW p \in Int, NEW q \in Int, p < q
  PROVE  F * p + F <= F * q
  OBVIOUS

(* The remainder is the only one: any such decomposition shows it.         *)
LEMMA RemainderIs ==
  ASSUME NEW a \in Nat, NEW F \in Nat \ {0}, NEW p \in Nat, NEW r \in 0..(F - 1),
         a = F * p + r
  PROVE  a % F = r
<1> DEFINE q == a \div F
           s == a % F
<1>1. a = F * q + s /\ s \in 0..(F - 1) /\ q \in Nat
  BY Division
<1> HIDE DEF q, s
<1>2. F * p \in Int /\ F * q \in Int
  BY <1>1
<1>3. CASE p < q
  <2>1. F * p + F <= F * q
    BY <1>1, <1>3, NextMultiple
  <2>2. QED
    BY <1>1, <1>2, <2>1
<1>4. CASE q < p
  <2>1. F * q + F <= F * p
    BY <1>1, <1>4, NextMultiple
  <2>2. QED
    BY <1>1, <1>2, <2>1
<1>5. CASE p = q
  BY <1>1, <1>2, <1>5 DEF s
<1>6. QED
  BY <1>1, <1>3, <1>4, <1>5

(* Adding up to the end of a frame counts on, and wraps at its end.        *)
LEMMA RemainderOfSum ==
  \A a, i \in Nat, F \in Nat \ {0} : (a % F) + i <= F =>
    (a + i) % F = (IF (a % F) + i = F THEN 0 ELSE (a % F) + i)
<1> SUFFICES ASSUME NEW a \in Nat, NEW i \in Nat, NEW F \in Nat \ {0}, (a % F) + i <= F
             PROVE  (a + i) % F = (IF (a % F) + i = F THEN 0 ELSE (a % F) + i)
  BY Zenon
<1> DEFINE p == a \div F
           r == a % F
           b == a + i
<1>1. a = F * p + r /\ r \in 0..(F - 1) /\ p \in Nat
  BY Division
<1>2. r + i <= F /\ b = a + i /\ b \in Nat
  OBVIOUS
<1> HIDE DEF p, r, b
<1>3. F * p \in Int /\ F * (p + 1) = F * p + F /\ p + 1 \in Nat
  BY <1>1
<1>4. CASE r + i = F
  <2>1. b = F * (p + 1) + 0
    BY <1>1, <1>2, <1>3, <1>4
  <2> DEFINE p1 == p + 1
  <2>2. b = F * p1 + 0 /\ p1 \in Nat /\ 0 \in 0..(F - 1)
    BY <2>1, <1>3
  <2> HIDE DEF p1
  <2>3. b % F = 0
    BY ONLY <1>2, <2>2, RemainderIs, F \in Nat \ {0}
  <2>4. QED
    BY <2>3, <1>4 DEF b, r
<1>5. CASE r + i # F
  <2> DEFINE t == r + i
  <2>1. b = F * p + t /\ t \in 0..(F - 1)
    BY <1>1, <1>2, <1>3, <1>5
  <2> HIDE DEF t
  <2>3. b % F = t
    BY <1>1, <1>2, <2>1, RemainderIs
  <2>4. QED
    BY <2>3, <1>5 DEF b, r, t
<1>6. QED
  BY <1>4, <1>5

(* One frame further on, the position inside the frame is the same.        *)
LEMMA RemainderOfNext ==
  ASSUME NEW a \in Nat, NEW F \in Nat \ {0}
  PROVE  (a + F) % F = a % F
<1> DEFINE p == a \div F
           r == a % F
           b == a + F
           p1 == p + 1
<1>1. a = F * p + r /\ r \in 0..(F - 1) /\ p \in Nat
  BY Division
<1>2. b = a + F /\ b \in Nat
  OBVIOUS
<1> HIDE DEF r, b
<1>3. F * p \in Int /\ F * p1 = F * p + F /\ p1 \in Nat
  BY <1>1
<1>4. b = F * p1 + r
  BY <1>1, <1>2, <1>3
<1> HIDE DEF p, p1
<1>5. b % F = r
  BY <1>1, <1>2, <1>3, <1>4, RemainderIs
<1>6. QED
  BY <1>5 DEF b, r

(* The same for positions, which the rest of the proof keeps opaque.       *)
LEMMA PositionFacts ==
  /\ Position(0) = 0
  /\ \A a \in Nat : Position(a) \in 0..(FrameLen - 1)
  BY StripeAssumption DEF Position

LEMMA PositionOfSum ==
  ASSUME NEW a \in Nat, NEW i \in Nat, Position(a) + i <= FrameLen
  PROVE  Position(a + i) = IF Position(a) + i = FrameLen THEN 0 ELSE Position(a) + i
<1>1. FrameLen \in Nat \ {0} /\ (a % FrameLen) + i <= FrameLen
  BY StripeAssumption DEF Position
<1>2. (a + i) % FrameLen
        = IF (a % FrameLen) + i = FrameLen THEN 0 ELSE (a % FrameLen) + i
  BY <1>1, RemainderOfSum, Zenon
<1>3. QED
  BY <1>2 DEF Position

LEMMA PositionOfNext ==
  ASSUME NEW a \in Nat
  PROVE  Position(a + FrameLen) = Position(a)
  BY StripeAssumption, RemainderOfNext DEF Position

(* The n units u go on with frame x where the whole frames of w stop, at   *)
(* offset o.                                                               *)
Continues(u, n, w, o, x) ==
  /\ w \in Seq(Units) /\ o \in Nat /\ n \in Nat \ {0} /\ x \in Nat
  /\ u \in Seq(Units) /\ Len(u) = n /\ o + n <= FrameLen
  /\ \A j \in 1..n : u[j].part = o + j /\ u[j].seq = x
  /\ Whole(w) /\ o = Position(Len(w)) /\ (o > 0 => w[Len(w)].seq = x)

(* A frame's units written after what a stripe carries: the line stays     *)
(* whole, and its length says how much of the frame has been written.      *)
LEMMA WholeWritten ==
  ASSUME NEW u, NEW n, NEW w, NEW o, NEW x, Continues(u, n, w, o, x)
  PROVE  /\ w \o u \in Seq(Units) /\ Whole(w \o u)
         /\ Position(Len(w \o u)) = IF o + n = FrameLen THEN 0 ELSE o + n
         /\ (w \o u)[Len(w \o u)].seq = x
<1> /\ w \in Seq(Units) /\ o \in Nat /\ n \in Nat \ {0} /\ x \in Nat
    /\ u \in Seq(Units) /\ Len(u) = n /\ o + n <= FrameLen
    /\ \A j \in 1..n : u[j].part = o + j /\ u[j].seq = x
    /\ Whole(w) /\ o = Position(Len(w)) /\ (o > 0 => w[Len(w)].seq = x)
  BY DEF Continues
<1> DEFINE v == w \o u
           L == Len(w)
<1>1. L \in Nat /\ v \in Seq(Units) /\ Len(v) = L + n
  OBVIOUS
<1>2. /\ \A j \in 1..L : v[j] = w[j]
      /\ \A i \in 1..n : v[L + i] = u[i] /\ L + i \in 1..(L + n)
      /\ \A j \in 1..(L + n) : j \in 1..L \/ (j - L \in 1..n /\ j = L + (j - L))
  OBVIOUS
<1>3. FrameLen \in Nat \ {0}
  BY StripeAssumption
<1> HIDE DEF v
<1>4. \A i \in 1..n : Position(L + (i - 1)) = o + (i - 1)
  <2> SUFFICES ASSUME NEW i \in 1..n PROVE Position(L + (i - 1)) = o + (i - 1)
    OBVIOUS
  <2> DEFINE k == i - 1
  <2>1. k \in Nat /\ o + k < FrameLen /\ Position(L) = o
    BY <1>3
  <2> HIDE DEF k, L
  <2>2. Position(L) + k <= FrameLen /\ Position(L) + k # FrameLen
    BY <1>3, <2>1
  <2>3. Position(L + k)
          = IF Position(L) + k = FrameLen THEN 0 ELSE Position(L) + k
    BY <1>1, <1>3, <2>1, <2>2, PositionOfSum
  <2>4. QED
    BY <2>1, <2>2, <2>3 DEF k
<1>5. ASSUME NEW j \in 1..(L + n)
      PROVE  /\ v[j].part = Position(j - 1) + 1
             /\ v[j].part > 1 => v[j].seq = v[j - 1].seq
  <2>1. CASE j \in 1..L
    <3>1. /\ w[j].part = Position(j - 1) + 1
          /\ w[j].part > 1 => w[j].seq = w[j - 1].seq
      BY <2>1 DEF Whole
    <3>2. w[j].part > 1 => j - 1 \in 1..L
      <4>1. CASE j = 1
        <5>1. Position(j - 1) = 0
          BY PositionFacts, <4>1, <1>3
        <5>2. QED
          BY <3>1, <5>1
      <4>2. CASE j # 1
        BY <2>1, <4>2, <1>1
      <4>3. QED
        BY <4>1, <4>2
    <3>3. v[j] = w[j] /\ (w[j].part > 1 => v[j - 1] = w[j - 1])
      BY <1>2, <2>1, <3>2
    <3>4. QED
      BY <3>1, <3>3
  <2>2. CASE j - L \in 1..n
    <3> DEFINE i == j - L
    <3>1. i \in 1..n /\ j = L + i /\ j - 1 = L + (i - 1)
      BY <1>1, <2>2
    <3> HIDE DEF i, L
    <3>2. v[j] = u[i] /\ u[i].part = o + i /\ u[i].seq = x
      BY <1>2, <3>1
    <3>3. Position(j - 1) = o + (i - 1)
      BY <1>4, <3>1
    <3>4. v[j].part = Position(j - 1) + 1
      BY <3>1, <3>2, <3>3
    <3>5. CASE i = 1
      <4>1. v[j].part > 1 => o > 0 /\ L > 0
        <5>1. L = 0 => Position(L) = 0
          BY PositionFacts, <1>3
        <5>2. QED
          BY <1>1, <3>2, <3>5, <5>1 DEF L
      <4>2. L > 0 => j - 1 = L /\ v[j - 1] = w[L]
        BY <1>1, <1>2, <3>1, <3>5
      <4>3. QED
        BY <3>2, <3>4, <4>1, <4>2 DEF L
    <3>6. CASE i # 1
      <4>1. i - 1 \in 1..n /\ j - 1 = L + (i - 1)
        BY <3>1, <3>6
      <4>2. v[j - 1] = u[i - 1] /\ u[i - 1].seq = x
        BY <1>2, <4>1
      <4>3. QED
        BY <3>2, <3>4, <4>2
    <3>7. QED
      BY <3>5, <3>6
  <2>3. QED
    BY <1>2, <2>1, <2>2
<1>6. Whole(v)
  BY <1>1, <1>5 DEF Whole
<1>7. v[Len(v)].seq = x
  BY <1>1, <1>2
<1>8. Position(Len(v)) = IF o + n = FrameLen THEN 0 ELSE o + n
  <2>1. Position(L) = o
    OBVIOUS
  <2> HIDE DEF L
  <2>2. n \in Nat /\ Position(L) + n <= FrameLen
    BY <2>1
  <2>3. Position(L + n)
          = IF Position(L) + n = FrameLen THEN 0 ELSE Position(L) + n
    BY <1>1, <1>3, <2>2, PositionOfSum
  <2>4. QED
    BY <1>1, <2>1, <2>3
<1>9. QED
  BY <1>1, <1>6, <1>7, <1>8 DEF v

(* A prefix of a line of whole frames is one.                              *)
LEMMA WholePrefix ==
  ASSUME NEW w \in Seq(Units), Whole(w), NEW v \in Seq(Units), Len(v) <= Len(w),
         \A j \in 1..Len(v) : v[j] = w[j]
  PROVE  Whole(v)
<1> SUFFICES ASSUME NEW j \in 1..Len(v)
             PROVE  /\ v[j].part = Position(j - 1) + 1
                    /\ v[j].part > 1 => v[j].seq = v[j - 1].seq
  BY DEF Whole
<1>1. j \in 1..Len(w) /\ v[j] = w[j]
  OBVIOUS
<1>2. /\ w[j].part = Position(j - 1) + 1
      /\ w[j].part > 1 => w[j].seq = w[j - 1].seq
  BY <1>1 DEF Whole
<1>3. CASE j = 1
  <2>1. Position(j - 1) = 0
    BY PositionFacts, <1>3, StripeAssumption
  <2>2. QED
    BY <1>1, <1>2, <2>1
<1>4. CASE j # 1
  <2>1. j - 1 \in 1..Len(v)
    BY <1>4
  <2>2. v[j - 1] = w[j - 1]
    BY <2>1
  <2>3. QED
    BY <1>1, <1>2, <2>2
<1>5. QED
  BY <1>3, <1>4

(* What is left of a line once its first frame has gone.                   *)
LEMMA WholeAfterFrame ==
  ASSUME NEW w \in Seq(Units), Whole(w), NEW v \in Seq(Units),
         Len(w) = Len(v) + FrameLen, \A j \in 1..Len(v) : v[j] = w[j + FrameLen]
  PROVE  /\ Whole(v) /\ Position(Len(v)) = Position(Len(w))
         /\ Position(Len(v)) > 0 => v[Len(v)] = w[Len(w)]
<1> DEFINE L == Len(v)
<1>1. FrameLen \in Nat \ {0} /\ L \in Nat
  BY StripeAssumption
<1>2. Position(L) = Position(Len(w))
  <2>1. Len(w) = L + FrameLen
    OBVIOUS
  <2> HIDE DEF L
  <2>2. Position(L + FrameLen) = Position(L)
    BY <1>1, PositionOfNext
  <2>3. QED
    BY <2>1, <2>2
<1>3. Position(L) > 0 => v[L] = w[Len(w)]
  <2>1. L = 0 => Position(L) = 0
    BY PositionFacts, <1>1
  <2>2. QED
    BY <1>1, <2>1
<1>4. ASSUME NEW j \in 1..L
      PROVE  /\ v[j].part = Position(j - 1) + 1
             /\ v[j].part > 1 => v[j].seq = v[j - 1].seq
  <2> DEFINE i == j + FrameLen
             k == j - 1
  <2>1. i \in 1..Len(w) /\ v[j] = w[i] /\ k \in Nat /\ i - 1 = k + FrameLen
    BY <1>1
  <2>2. /\ w[i].part = Position(i - 1) + 1
        /\ w[i].part > 1 => w[i].seq = w[i - 1].seq
    BY <2>1 DEF Whole
  <2> HIDE DEF i, k
  <2>3. Position(k + FrameLen) = Position(k)
    BY <1>1, <2>1, PositionOfNext
  <2>4. v[j].part = Position(j - 1) + 1
    BY <2>1, <2>2, <2>3 DEF k
  <2>5. CASE j = 1
    <3>1. Position(k) = 0
      BY PositionFacts, <1>1, <2>5 DEF k
    <3>2. QED
      BY <2>4, <2>5, <3>1 DEF k
  <2>6. CASE j # 1
    <3>1. j - 1 \in 1..L /\ (j - 1) + FrameLen = i - 1
      BY <1>1, <2>6 DEF i
    <3>2. v[j - 1] = w[i - 1]
      BY <3>1
    <3>3. QED
      BY <2>1, <2>2, <2>4, <3>2
  <2>7. QED
    BY <2>5, <2>6
<1>5. QED
  BY <1>2, <1>3, <1>4 DEF Whole

-----------------------------------------------------------------------------
(* Every step keeps the frames whole.                                      *)

LEMMA LineFacts ==
  ASSUME OrderInv, NEW s \in Stripes
  PROVE  /\ Line(s) \in Seq(Units) /\ Len(Line(s)) = Len(hand[s]) + Len(pipe[s])
         /\ hand[s] \in Seq(Units) /\ pipe[s] \in Seq(Units)
         /\ \A j \in 1..Len(hand[s]) : Line(s)[j] = hand[s][j]
         /\ \A j \in 1..Len(pipe[s]) : Line(s)[Len(hand[s]) + j] = pipe[s][j]
<1>1. hand[s] \in Seq(Units) /\ pipe[s] \in Seq(Units)
  BY DEF OrderInv, Shape
<1> DEFINE h == hand[s]
           q == pipe[s]
<1> HIDE DEF h, q
<1>2. h \in Seq(Units) /\ q \in Seq(Units) /\ Len(h) \in Nat /\ Len(q) \in Nat
  BY <1>1 DEF h, q
<1>3. /\ h \o q \in Seq(Units) /\ Len(h \o q) = Len(h) + Len(q)
      /\ \A j \in 1..(Len(h) + Len(q)) :
           (h \o q)[j] = IF j <= Len(h) THEN h[j] ELSE q[j - Len(h)]
  BY <1>2
<1>4. /\ \A j \in 1..Len(h) : (h \o q)[j] = h[j]
      /\ \A j \in 1..Len(q) : (h \o q)[Len(h) + j] = q[j]
  BY <1>2, <1>3
<1>5. QED
  BY <1>1, <1>3, <1>4 DEF Line, h, q

LEMMA FrameInit == Init => FrameInv
<1> SUFFICES ASSUME Init PROVE FrameInv
  OBVIOUS
<1>1. OrderInv
  BY OrderInit
<1>2. Ranges
  <2>1. K \in Nat \ {0} /\ FrameLen \in Nat /\ woken \in BOOLEAN
    BY StripeAssumption DEF Init
  <2>2. QED
    BY <2>1 DEF Init, Ranges
<1>3. \A s \in Stripes : Line(s) = <<>> /\ Len(Line(s)) = 0 /\ off[s] = 0
  BY DEF Init, Line
<1>4. Committed /\ AllWhole
  BY <1>3, PositionFacts DEF Committed, AllWhole, Whole
<1>5. QED
  BY <1>1, <1>2, <1>4 DEF FrameInv

(* Steps that write nothing: the lines of the stripes that stay open are   *)
(* as they were, and a half-written frame stays the one being sent.        *)
LEMMA CommittedKeeps ==
  ASSUME FrameInv, off' = off,
         \A s \in Stripes : shut'[s] = "open" =>
           /\ shut[s] = "open" /\ hand'[s] \o pipe'[s] = Line(s)
           /\ off[s] > 0 => phase' \in {"send", "parked"} /\ Idx' = Idx /\ source' = source
  PROVE  Committed'
<1> SUFFICES ASSUME NEW s \in Stripes, shut'[s] = "open"
             PROVE  LET w == hand'[s] \o pipe'[s]
                    IN  /\ off'[s] = Position(Len(w))
                        /\ off'[s] > 0 => /\ phase' \in {"send", "parked"} /\ Idx' = s
                                          /\ w[Len(w)].seq = Seq0'
  BY DEF Committed, HalfWritten, Line, Position
<1> DEFINE w == Line(s)
<1>1. /\ off[s] = Position(Len(w))
      /\ off[s] > 0 => Idx = s /\ w[Len(w)].seq = Seq0
  BY DEF FrameInv, Committed, HalfWritten
<1>2. hand'[s] \o pipe'[s] = w
  OBVIOUS
<1>3. off[s] > 0 => Seq0' = Seq0
  BY DEF Seq0
<1> HIDE DEF w
<1>4. QED
  BY <1>1, <1>2, <1>3

LEMMA QuietFrames ==
  ASSUME FrameInv, hand' = hand, pipe' = pipe, off' = off,
         \A s \in Stripes : shut'[s] = "open" =>
           /\ shut[s] = "open"
           /\ off[s] > 0 => phase' \in {"send", "parked"} /\ Idx' = Idx /\ source' = source
  PROVE  Committed' /\ AllWhole'
<1>1. \A s \in Stripes : hand'[s] \o pipe'[s] = Line(s) /\ Line(s)' = Line(s)
  BY DEF Line
<1>2. Committed'
  BY <1>1, CommittedKeeps
<1>3. AllWhole'
  BY <1>1 DEF AllWhole, Whole, Position, FrameInv
<1>4. QED
  BY <1>2, <1>3

(* Outside of a send no open stripe holds a part of a frame.               *)
LEMMA NothingCommitted ==
  ASSUME FrameInv, phase \notin {"send", "parked"}, NEW s \in Stripes, shut[s] = "open"
  PROVE  ~(off[s] > 0)
  BY DEF FrameInv, Committed, HalfWritten

LEMMA SenderQuietFrames ==
  ASSUME FrameInv,
         \/ ReadSource \/ SourceEnds \/ FinishStripe \/ PollWritePending
         \/ PollWriteError \/ Repoll \/ SourceFails
  PROVE  Ranges' /\ Committed' /\ AllWhole'
<1> USE DEF FrameInv
<1>1. /\ hand' = hand /\ pipe' = pipe /\ off' = off
      /\ UNCHANGED <<reader, recv>>
  BY DEF ReadSource, SourceEnds, FinishStripe, PollWritePending, PollWriteError, Repoll,
         SourceFails, pvars, rvars
<1>2. Idx \in Stripes /\ K \in Nat \ {0} /\ next \in 0..K /\ tried \in 0..K
  BY IdxIsStripe, StripeAssumption DEF Ranges, OrderInv, Shape
<1>3. CASE ReadSource
  <2>1. /\ phase = "read" /\ shut' = shut /\ tried' = 0 /\ next' = next
        /\ woken' \in BOOLEAN /\ armed' = armed
    BY <1>3 DEF ReadSource, pvars
  <2>2. Ranges'
    BY <1>1, <1>2, <2>1 DEF Ranges
  <2>3. QED
    BY <1>1, <2>1, <2>2, NothingCommitted, QuietFrames
<1>4. CASE SourceEnds
  <2>1. phase = "read" /\ phase' = "finish" /\ next' = 0 /\ UNCHANGED <<shut, tried, armed, woken>>
    BY <1>4 DEF SourceEnds, pvars
  <2>2. Ranges'
    BY <1>1, <1>2, <2>1 DEF Ranges
  <2>3. QED
    BY <1>1, <2>1, <2>2, NothingCommitted, QuietFrames
<1>5. CASE FinishStripe
  <2>1. /\ phase = "finish" /\ phase' \in {"finish", "done"} /\ next' \in 0..K
        /\ UNCHANGED <<tried, armed, woken>>
    BY <1>2, <1>5 DEF FinishStripe
  <2>2. shut' = [shut EXCEPT ![next] = IF shut[next] = "open" THEN "fin" ELSE shut[next]]
    BY <1>5 DEF FinishStripe
  <2>3. /\ shut' \in [Stripes -> {"open", "fin", "eof", "error"}]
        /\ \A s \in Stripes : shut'[s] = "open" => shut[s] = "open"
    BY <2>2 DEF Ranges
  <2>4. Ranges'
    BY <1>1, <2>1, <2>3 DEF Ranges
  <2>5. QED
    BY <1>1, <2>1, <2>3, <2>4, NothingCommitted, QuietFrames
<1>6. CASE PollWritePending
  <2> DEFINE s == Idx
  <2>1. /\ phase = "send" /\ shut[s] = "open" /\ armed' = armed \cup {s}
        /\ UNCHANGED <<source, woken, shut>>
    BY <1>6 DEF PollWritePending, pvars
  <2>2. tried + 1 \in 0..K /\ tried < K /\ s + 1 \in 0..K
    BY <1>2, <2>1 DEF Ranges, Stripes
  <2>3. CASE off[s] > 0
    <3>1. phase' = "parked" /\ UNCHANGED <<next, tried>>
      BY <1>6, <2>3 DEF PollWritePending
    <3>2. Ranges'
      BY <1>1, <1>2, <2>1, <3>1 DEF Ranges
    <3>3. Idx' = Idx
      BY <3>1 DEF Idx
    <3>4. QED
      BY <1>1, <2>1, <3>1, <3>2, <3>3, QuietFrames
  <2>4. CASE ~(off[s] > 0)
    <3>1. /\ next' = s + 1 /\ tried' = tried + 1
          /\ phase' = IF tried + 1 = K THEN "parked" ELSE phase
      BY <1>6, <2>4 DEF PollWritePending
    <3>2. \A t \in Stripes : shut[t] = "open" => ~(off[t] > 0)
      BY <2>4 DEF Committed, HalfWritten
    <3>3. phase' = "send" => tried' < K
      BY <1>2, <2>2, <3>1
    <3>4. Ranges'
      BY <1>1, <1>2, <2>1, <2>2, <3>1, <3>3 DEF Ranges
    <3>5. QED
      BY <1>1, <2>1, <3>2, <3>4, QuietFrames
  <2>5. QED
    BY <2>3, <2>4
<1>7. CASE PollWriteError \/ SourceFails
  <2>1. /\ phase' = "failed" /\ UNCHANGED <<next, tried, armed, woken>>
        /\ shut' = [s \in Stripes |-> IF shut[s] = "open" THEN "eof" ELSE shut[s]]
    BY <1>7 DEF PollWriteError, SourceFails, FailSend
  <2>2. /\ shut' \in [Stripes -> {"open", "fin", "eof", "error"}]
        /\ \A s \in Stripes : shut'[s] # "open"
    BY <2>1 DEF Ranges
  <2>3. Ranges'
    BY <1>1, <1>2, <2>1, <2>2 DEF Ranges
  <2>4. QED
    BY <1>1, <2>2, <2>3, QuietFrames
<1>8. CASE Repoll
  <2>1. /\ phase' = "send" /\ tried' = 0 /\ woken' \in BOOLEAN
        /\ UNCHANGED <<source, next, armed, shut>>
    BY <1>8 DEF Repoll, pvars
  <2>2. Ranges' /\ Idx' = Idx
    BY <1>1, <1>2, <2>1 DEF Ranges, Idx
  <2>3. QED
    BY <1>1, <2>1, <2>2, QuietFrames
<1>9. QED
  BY <1>3, <1>4, <1>5, <1>6, <1>7, <1>8

(* A reader moves one unit of the line from the stripe to its hand.        *)
LEMMA ReadUnitFrames ==
  ASSUME FrameInv, NEW s \in Stripes, ReadUnit(s)
  PROVE  Ranges' /\ Committed' /\ AllWhole'
<1> USE DEF FrameInv
<1> DEFINE h == hand[s]
           q == pipe[s]
<1>1. /\ q # <<>> /\ hand' = [hand EXCEPT ![s] = Append(h, Head(q))]
      /\ pipe' = [pipe EXCEPT ![s] = Tail(q)]
      /\ UNCHANGED <<source, phase, next, tried, off, shut, reader, recv>>
      /\ armed' = armed \ {s} /\ woken' \in BOOLEAN
  BY DEF ReadUnit, Wake
<1>2. hand \in [Stripes -> Seq(Units)] /\ pipe \in [Stripes -> Seq(Units)]
  BY DEF OrderInv, Shape
<1>3. h \in Seq(Units) /\ q \in Seq(Units)
  BY <1>2
<1> HIDE DEF h, q
<1>4. Append(h, Head(q)) \o Tail(q) = h \o q
  <2> DEFINE g == Append(h, Head(q))
             r == Tail(q)
  <2>1. /\ g \in Seq(Units) /\ Len(g) = Len(h) + 1 /\ g[Len(h) + 1] = q[1]
        /\ \A j \in 1..Len(h) : g[j] = h[j]
    BY <1>1, <1>3, AppendFacts, TailFacts
  <2>2. /\ r \in Seq(Units) /\ Len(r) = Len(q) - 1 /\ Len(q) \in Nat \ {0} /\ Len(h) \in Nat
        /\ \A j \in 1..Len(r) : r[j] = q[j + 1]
    BY <1>1, <1>3, TailFacts
  <2> HIDE DEF g, r
  <2>3. /\ g \o r \in Seq(Units) /\ h \o q \in Seq(Units)
        /\ Len(g \o r) = Len(h) + Len(q) /\ Len(h \o q) = Len(h) + Len(q)
    <3>1. h \o q \in Seq(Units) /\ Len(h \o q) = Len(h) + Len(q)
      BY <1>3
    <3>2. g \o r \in Seq(Units) /\ Len(g \o r) = Len(g) + Len(r)
      <4>1. g \in Seq(Units) /\ r \in Seq(Units)
        BY <2>1, <2>2
      <4>2. QED
        BY <4>1, ConcatProperties
    <3>3. Len(g) + Len(r) = Len(h) + Len(q)
      BY <2>1, <2>2
    <3>4. QED
      BY <3>1, <3>2, <3>3
  <2>4. ASSUME NEW j \in 1..(Len(h) + Len(q)) PROVE (g \o r)[j] = (h \o q)[j]
    <3>1. (h \o q)[j] = IF j <= Len(h) THEN h[j] ELSE q[j - Len(h)]
      BY <1>3, <2>4
    <3>2. (g \o r)[j] = IF j <= Len(g) THEN g[j] ELSE r[j - Len(g)]
      BY <2>1, <2>2, <2>4
    <3>3. CASE j <= Len(h)
      BY <2>1, <2>2, <3>1, <3>2, <3>3
    <3>4. CASE j = Len(h) + 1
      BY <2>1, <2>2, <3>1, <3>2, <3>4
    <3>5. CASE j > Len(h) + 1
      <4>1. j - Len(g) \in 1..Len(r) /\ (j - Len(g)) + 1 = j - Len(h)
        BY <2>1, <2>2, <2>4, <3>5
      <4>2. r[j - Len(g)] = q[j - Len(h)]
        BY <2>2, <4>1
      <4>3. QED
        BY <2>1, <2>2, <3>1, <3>2, <3>5, <4>2
    <3>6. j <= Len(h) \/ j = Len(h) + 1 \/ j > Len(h) + 1
      BY <2>2, <2>4
    <3>7. QED
      BY <3>3, <3>4, <3>5, <3>6
  <2>5. g \o r = h \o q
    BY <2>3, <2>4, SeqEqual
  <2>6. QED
    BY <2>5 DEF g, r
<1>5. \A t \in Stripes : hand'[t] \o pipe'[t] = Line(t)
  BY <1>1, <1>2, <1>4 DEF Line, h, q
<1>6. AllWhole'
  <2>1. \A t \in Stripes : Whole(hand'[t] \o pipe'[t])
    BY <1>5 DEF AllWhole
  <2>2. QED
    BY <2>1 DEF AllWhole, Line, Whole, Position
<1>7. Committed'
  <2>1. Idx' = Idx
    BY <1>1 DEF Idx
  <2>2. QED
    BY <1>1, <1>5, <2>1, CommittedKeeps DEF Committed, HalfWritten
<1>8. Ranges'
  BY <1>1 DEF Ranges
<1>9. QED
  BY <1>6, <1>7, <1>8

(* A forwarded frame leaves the line one frame shorter.                    *)
LEMMA ForwardFrames ==
  ASSUME FrameInv, NEW s \in Stripes, ForwardFrame(s)
  PROVE  Ranges' /\ Committed' /\ AllWhole'
<1> USE DEF FrameInv
<1>1. /\ Len(hand[s]) = FrameLen /\ hand' = [hand EXCEPT ![s] = <<>>]
      /\ UNCHANGED <<source, phase, next, tried, off, armed, woken, pipe, shut, reader, recv>>
  BY DEF ForwardFrame, svars, pvars
<1>2. hand \in [Stripes -> Seq(Units)]
  BY DEF OrderInv, Shape
<1> DEFINE w == Line(s)
           v == pipe[s]
<1>3. /\ w \in Seq(Units) /\ v \in Seq(Units) /\ Len(w) = Len(v) + FrameLen
      /\ \A j \in 1..Len(v) : v[j] = w[j + FrameLen]
  <2>1. Len(v) \in Nat /\ FrameLen \in Nat
    BY LineFacts, StripeAssumption
  <2>2. w \in Seq(Units) /\ v \in Seq(Units) /\ Len(w) = FrameLen + Len(v)
    BY <1>1, LineFacts
  <2>3. \A j \in 1..Len(v) : v[j] = w[FrameLen + j] /\ FrameLen + j = j + FrameLen
    <3>1. \A j \in 1..Len(v) : w[Len(hand[s]) + j] = v[j]
      BY LineFacts
    <3> HIDE DEF v, w
    <3>2. QED
      BY <1>1, <2>1, <3>1
  <2>4. QED
    BY <2>1, <2>2, <2>3
<1>4. Whole(w) /\ (shut[s] = "open" => off[s] = Position(Len(w)))
  BY DEF AllWhole, Committed
<1> HIDE DEF w
<1>5. hand'[s] \o pipe'[s] = v
  BY <1>1, <1>2, <1>3
<1> HIDE DEF v
<1>6. /\ Whole(v) /\ Position(Len(v)) = Position(Len(w))
      /\ Position(Len(v)) > 0 => v[Len(v)] = w[Len(w)]
  BY <1>3, <1>4, WholeAfterFrame
<1>7. \A t \in Stripes : t # s => hand'[t] \o pipe'[t] = Line(t)
  BY <1>1, <1>2 DEF Line
<1>8. AllWhole'
  <2>1. \A t \in Stripes : Whole(hand'[t] \o pipe'[t])
    BY <1>5, <1>6, <1>7 DEF AllWhole
  <2>2. QED
    BY <2>1 DEF AllWhole, Line, Whole, Position
<1>9. Committed'
  <2>1. Idx' = Idx /\ Seq0' = Seq0
    BY <1>1 DEF Idx, Seq0
  <2>2. ASSUME NEW t \in Stripes, shut'[t] = "open"
        PROVE  LET z == hand'[t] \o pipe'[t]
               IN  /\ off'[t] = Position(Len(z))
                   /\ off'[t] > 0 => /\ phase' \in {"send", "parked"} /\ Idx' = t
                                     /\ z[Len(z)].seq = Seq0'
    <3>1. /\ off[t] = Position(Len(Line(t)))
          /\ off[t] > 0 => /\ phase \in {"send", "parked"} /\ Idx = t
                           /\ Line(t)[Len(Line(t))].seq = Seq0
      BY <1>1, <2>2 DEF Committed, HalfWritten
    <3>2. CASE t = s
      <4>1. /\ off[s] = Position(Len(w))
            /\ off[s] > 0 => /\ phase \in {"send", "parked"} /\ Idx = s
                             /\ w[Len(w)].seq = Seq0
        BY <3>1, <3>2 DEF w
      <4>2. QED
        BY <1>1, <1>5, <1>6, <2>1, <3>2, <4>1
    <3>3. CASE t # s
      BY <1>1, <1>7, <2>1, <3>1, <3>3
    <3>4. QED
      BY <3>2, <3>3
  <2>3. QED
    BY <2>2 DEF Committed, HalfWritten, Line, Position
<1>10. Ranges'
  BY <1>1 DEF Ranges
<1>11. QED
  BY <1>8, <1>9, <1>10

(* A stripe that breaks loses the end of its line, and is not open any     *)
(* more.                                                                   *)
LEMMA CutFrames ==
  ASSUME FrameInv, UNCHANGED <<off, hand>>,
         NEW S \in SUBSET Stripes,
         \A s \in S : shut'[s] # "open" /\ pipe'[s] \in Seq(Units)
                        /\ Len(pipe'[s]) <= Len(pipe[s])
                        /\ \A j \in 1..Len(pipe'[s]) : pipe'[s][j] = pipe[s][j],
         \A s \in Stripes \ S : shut'[s] = shut[s] /\ pipe'[s] = pipe[s],
         UNCHANGED <<source, phase, next>>
  PROVE  Committed' /\ AllWhole'
<1> USE DEF FrameInv
<1>1. Committed'
  <2>1. \A s \in Stripes : shut'[s] = "open" => s \notin S /\ hand'[s] \o pipe'[s] = Line(s)
    BY DEF Line
  <2>2. Idx' = Idx
    BY DEF Idx
  <2>3. QED
    BY <2>1, <2>2, CommittedKeeps DEF Committed, HalfWritten
<1>2. ASSUME NEW s \in Stripes PROVE Whole(hand'[s] \o pipe'[s])
  <2>1. CASE s \notin S
    BY <2>1 DEF AllWhole, Line
  <2>2. CASE s \in S
    <3> DEFINE h == hand[s]
               q == pipe[s]
               r == pipe'[s]
               w == Line(s)
    <3>1. /\ h \in Seq(Units) /\ q \in Seq(Units) /\ w \in Seq(Units)
          /\ Len(w) = Len(h) + Len(q)
          /\ \A j \in 1..Len(h) : w[j] = h[j]
          /\ \A j \in 1..Len(q) : w[Len(h) + j] = q[j]
      BY LineFacts
    <3>2. /\ r \in Seq(Units) /\ Len(r) <= Len(q) /\ \A j \in 1..Len(r) : r[j] = q[j]
          /\ Whole(w)
      BY <2>2 DEF AllWhole
    <3>3. hand'[s] \o pipe'[s] = h \o r
      OBVIOUS
    <3> HIDE DEF h, q, r, w
    <3>4. /\ h \o r \in Seq(Units) /\ Len(h \o r) = Len(h) + Len(r)
          /\ \A j \in 1..(Len(h) + Len(r)) :
               (h \o r)[j] = IF j <= Len(h) THEN h[j] ELSE r[j - Len(h)]
      BY <3>1, <3>2
    <3>5. ASSUME NEW j \in 1..(Len(h) + Len(r)) PROVE (h \o r)[j] = w[j]
      <4>1. Len(h) \in Nat /\ Len(r) \in Nat /\ Len(q) \in Nat
        BY <3>1, <3>2
      <4>2. CASE j <= Len(h)
        BY <3>1, <3>4, <4>1, <4>2
      <4>3. CASE j > Len(h)
        <5>1. j - Len(h) \in 1..Len(r) /\ j - Len(h) \in 1..Len(q) /\ Len(h) + (j - Len(h)) = j
          BY <3>2, <4>1, <4>3
        <5>2. w[j] = q[j - Len(h)] /\ r[j - Len(h)] = q[j - Len(h)]
          BY <3>1, <3>2, <5>1
        <5>3. QED
          BY <3>4, <4>1, <4>3, <5>2
      <4>4. QED
        BY <4>1, <4>2, <4>3
    <3>6. Len(h \o r) <= Len(w)
      BY <3>1, <3>2, <3>4
    <3>7. Whole(h \o r)
      BY <3>1, <3>2, <3>4, <3>5, <3>6, WholePrefix
    <3>8. QED
      BY <3>3, <3>7
  <2>3. QED
    BY <2>1, <2>2
<1>3. AllWhole'
  BY <1>2 DEF AllWhole, Line, Whole, Position
<1>4. QED
  BY <1>1, <1>3

LEMMA BreakFrames ==
  ASSUME FrameInv, (\E s \in Stripes : CutStripe(s)) \/ TakeBroken \/ DestFails
  PROVE  Ranges' /\ Committed' /\ AllWhole'
<1> USE DEF FrameInv
<1>1. pipe \in [Stripes -> Seq(Units)] /\ shut \in [Stripes -> {"open", "fin", "eof", "error"}]
  BY DEF OrderInv, Shape, Ranges
<1>2. ASSUME NEW s \in Stripes, CutStripe(s) PROVE Ranges' /\ Committed' /\ AllWhole'
  <2>1. /\ UNCHANGED <<source, phase, next, tried, off, hand, reader, recv>>
        /\ armed' = armed \ {s} /\ woken' \in BOOLEAN
    BY <1>2 DEF CutStripe, Wake, rvars
  <2>2. PICK how \in {"eof", "error"} : shut' = [shut EXCEPT ![s] = how]
    BY <1>2 DEF CutStripe
  <2>3. PICK n \in 0..Len(pipe[s]) : pipe' = [pipe EXCEPT ![s] = SubSeq(pipe[s], 1, n)]
    BY <1>2 DEF CutStripe
  <2> DEFINE q == pipe[s]
             r == SubSeq(q, 1, n)
  <2>4. r \in Seq(Units) /\ Len(r) = n /\ n <= Len(q) /\ \A j \in 1..n : r[j] = q[j]
    BY <1>1
  <2>5. /\ shut'[s] # "open" /\ pipe'[s] = r
        /\ \A t \in Stripes \ {s} : shut'[t] = shut[t] /\ pipe'[t] = pipe[t]
    BY <1>1, <2>2, <2>3
  <2>6. Ranges'
    BY <1>1, <2>1, <2>2 DEF Ranges
  <2> HIDE DEF r
  <2>7. \A t \in {s} : /\ shut'[t] # "open" /\ pipe'[t] \in Seq(Units)
                       /\ Len(pipe'[t]) <= Len(pipe[t])
                       /\ \A j \in 1..Len(pipe'[t]) : pipe'[t][j] = pipe[t][j]
    BY <2>4, <2>5
  <2>8. {s} \in SUBSET Stripes
    OBVIOUS
  <2>9. Committed' /\ AllWhole'
    BY <2>1, <2>5, <2>7, <2>8, CutFrames
  <2>10. QED
    BY <2>6, <2>9
<1>3. CASE TakeBroken \/ DestFails
  <2>1. /\ UNCHANGED <<source, phase, next, tried, off, hand, reader>>
        /\ recv' = "failed" /\ armed' = {} /\ woken' \in BOOLEAN
        /\ pipe' = [s \in Stripes |-> <<>>]
        /\ shut' = [s \in Stripes |-> IF shut[s] = "open" THEN "eof" ELSE shut[s]]
    BY <1>3 DEF TakeBroken, DestFails, FailRecv, DropReaders
  <2>2. Ranges'
    BY <1>1, <2>1 DEF Ranges
  <2>3. \A t \in Stripes : /\ shut'[t] # "open" /\ pipe'[t] \in Seq(Units)
                           /\ Len(pipe'[t]) <= Len(pipe[t])
                           /\ \A j \in 1..Len(pipe'[t]) : pipe'[t][j] = pipe[t][j]
    BY <1>1, <2>1
  <2>4. Stripes \in SUBSET Stripes /\ Stripes \ Stripes = {}
    OBVIOUS
  <2>5. Committed' /\ AllWhole'
    BY <2>1, <2>3, <2>4, CutFrames
  <2>6. QED
    BY <2>2, <2>5
<1>4. QED
  BY <1>2, <1>3

(* The frame being sent goes on where it stopped, on its own stripe.       *)
LEMMA PollWriteFrames ==
  ASSUME FrameInv, PollWriteReady
  PROVE  Ranges' /\ Committed' /\ AllWhole'
<1> USE DEF FrameInv
<1> DEFINE s == Idx
           o == off[s]
<1>1. s \in Stripes /\ Idx = s /\ s + 1 \in 0..K /\ K \in Nat \ {0}
  <2>1. s \in Stripes /\ Idx = s
    BY IdxIsStripe DEF OrderInv, Shape
  <2> HIDE DEF s
  <2>2. s + 1 \in 0..K /\ K \in Nat \ {0}
    BY ONLY <2>1, StripeAssumption DEF Stripes
  <2>3. QED
    BY <2>1, <2>2
<1>2. /\ phase = "send" /\ shut[s] = "open"
      /\ UNCHANGED <<source, tried, armed, woken, shut, hand, reader, recv>>
  BY DEF PollWriteReady, rvars
<1>3. PICK n \in 1..(FrameLen - o) :
        /\ pipe' = [pipe EXCEPT ![s] = pipe[s] \o UnitsFrom(o, n)]
        /\ AfterWrite(s, o + n)
  BY DEF PollWriteReady
<1>4. source # <<>> /\ source \in Seq(Chunks)
  BY <1>2 DEF OrderInv, Sending, Shape
<1> HIDE DEF s
<1> DEFINE w == Line(s)
           u == UnitsFrom(o, n)
           x == Seq0
<1>5. o \in 0..FrameLen /\ FrameLen \in Nat /\ pipe \in [Stripes -> Seq(Units)]
  BY <1>1, StripeAssumption DEF Ranges, OrderInv, Shape
<1>6. o \in Nat /\ n \in Nat \ {0} /\ o + n <= FrameLen
  BY <1>3, <1>5
<1>7. x \in Nat /\ source[Len(source)] \in Chunks
  BY <1>4 DEF Seq0
<1>8. /\ u \in Seq(Units) /\ Len(u) = n
      /\ \A j \in 1..n : u[j].part = o + j /\ u[j].seq = x
  BY <1>6, <1>7 DEF UnitsFrom, Unit, Units
<1>9. /\ w \in Seq(Units) /\ Whole(w) /\ o = Position(Len(w))
      /\ o > 0 => w[Len(w)].seq = x
  BY <1>1, <1>2, LineFacts DEF AllWhole, Committed, HalfWritten
<1>10. hand'[s] \o pipe'[s] = w \o u
  <2> DEFINE h == hand[s]
             q == pipe[s]
  <2>1. pipe'[s] = q \o u /\ hand'[s] = h
    BY <1>1, <1>2, <1>3, <1>5
  <2>2. h \in Seq(Units) /\ q \in Seq(Units)
    BY <1>1, LineFacts
  <2> HIDE DEF h, q, u
  <2>3. h \o (q \o u) = (h \o q) \o u
    <3>1. u \in Seq(Units)
      BY <1>8
    <3>2. QED
      BY ONLY <2>2, <3>1, ConcatAssociative
  <2>4. QED
    BY <2>1, <2>3 DEF Line, h, q
<1>11. \A t \in Stripes : t # s => hand'[t] \o pipe'[t] = Line(t)
  BY <1>1, <1>2, <1>3, <1>5 DEF Line
<1> HIDE DEF w, u, x
<1> DEFINE z == w \o u
<1>12. /\ z \in Seq(Units) /\ Whole(z) /\ z[Len(z)].seq = x
       /\ Position(Len(z)) = IF o + n = FrameLen THEN 0 ELSE o + n
  <2> HIDE DEF o, z
  <2>1. /\ w \o u \in Seq(Units) /\ Whole(w \o u)
        /\ Position(Len(w \o u)) = IF o + n = FrameLen THEN 0 ELSE o + n
        /\ (w \o u)[Len(w \o u)].seq = x
    <3>1. Continues(u, n, w, o, x)
      BY <1>6, <1>7, <1>8, <1>9 DEF Continues
    <3>2. QED
      BY <3>1, WholeWritten
  <2>2. QED
    BY <2>1 DEF z
<1> HIDE DEF z
<1>13. AllWhole'
  <2>1. \A t \in Stripes : Whole(hand'[t] \o pipe'[t])
    BY <1>10, <1>11, <1>12 DEF AllWhole, z
  <2>2. QED
    BY <2>1 DEF AllWhole, Line, Whole, Position
<1>14. /\ off' = [off EXCEPT ![s] = IF o + n = FrameLen THEN 0 ELSE o + n]
       /\ o + n = FrameLen => next' = s + 1 /\ phase' = "read"
       /\ o + n # FrameLen => next' = next /\ phase' = phase
  BY <1>3 DEF AfterWrite
<1>15. Ranges'
  <2>1. off' \in [Stripes -> 0..FrameLen]
    BY <1>1, <1>5, <1>6, <1>14 DEF Ranges
  <2>2. next' \in 0..K /\ phase' \in {"read", "send"} /\ tried \in 0..K /\ tried < K
    BY <1>1, <1>2, <1>14 DEF Ranges
  <2>3. QED
    BY <1>2, <2>1, <2>2 DEF Ranges
<1>16. Seq0' = x
  BY <1>2 DEF Seq0, x
<1>17. ASSUME NEW t \in Stripes, shut'[t] = "open"
       PROVE  LET y == hand'[t] \o pipe'[t]
              IN  /\ off'[t] = Position(Len(y))
                  /\ off'[t] > 0 => /\ phase' \in {"send", "parked"} /\ Idx' = t
                                    /\ y[Len(y)].seq = Seq0'
  <2>1. off \in [Stripes -> 0..FrameLen]
    BY DEF Ranges
  <2>2. CASE t = s
    <3>1. off'[s] = Position(Len(z)) /\ hand'[s] \o pipe'[s] = z
      BY <1>1, <1>10, <1>12, <1>14, <2>1 DEF z
    <3>2. off'[s] > 0 => o + n # FrameLen
      BY <1>1, <1>14, <2>1
    <3>3. off'[s] > 0 => phase' = "send" /\ Idx' = s
      BY <1>1, <1>2, <1>14, <3>2 DEF Idx
    <3>4. QED
      BY <1>12, <1>16, <2>2, <3>1, <3>3
  <2>3. CASE t # s
    <3>1. off[t] = Position(Len(Line(t))) /\ ~(off[t] > 0)
      BY <1>1, <1>2, <1>17, <2>3 DEF Committed, HalfWritten
    <3>2. off'[t] = off[t] /\ hand'[t] \o pipe'[t] = Line(t)
      BY <1>11, <1>14, <2>1, <2>3
    <3>3. QED
      BY <3>1, <3>2
  <2>4. QED
    BY <2>2, <2>3
<1>18. Committed'
  BY <1>17 DEF Committed, HalfWritten, Line, Position
<1>19. QED
  BY <1>13, <1>15, <1>18

LEMMA FrameStep == FrameInv /\ [Next]_vars => FrameInv'
<1> SUFFICES ASSUME FrameInv, [Next]_vars PROVE Ranges' /\ Committed' /\ AllWhole'
  BY OrderStep DEF FrameInv
<1>1. CASE \/ ReadSource \/ SourceEnds \/ FinishStripe \/ PollWritePending
           \/ PollWriteError \/ Repoll \/ SourceFails
  BY <1>1, SenderQuietFrames
<1>2. CASE PollWriteReady
  BY <1>2, PollWriteFrames
<1>3. CASE (\E s \in Stripes : CutStripe(s)) \/ TakeBroken \/ DestFails
  BY <1>3, BreakFrames
<1>4. ASSUME NEW s \in Stripes, ReadUnit(s) \/ ForwardFrame(s)
      PROVE  Ranges' /\ Committed' /\ AllWhole'
  BY <1>4, ReadUnitFrames, ForwardFrames
<1>5. CASE (\E s \in Stripes : StripeEnds(s)) \/ TakeFrame \/ Drain \/ DrainEnds \/ RecvEnds
           \/ UNCHANGED vars
  <2>1. UNCHANGED <<source, phase, next, tried, off, armed, woken, pipe, shut, hand>>
    BY <1>5 DEF StripeEnds, TakeFrame, Drain, DrainEnds, RecvEnds, vars, svars, pvars, rvars
  <2>2. recv' \in {"recv", "drain", "clean", "failed"}
    BY <1>5 DEF StripeEnds, TakeFrame, Drain, DrainEnds, RecvEnds, vars, rvars, FrameInv, Ranges
  <2>3. reader' \in [Stripes -> {"reading", "ended"}]
    BY <1>5 DEF StripeEnds, TakeFrame, Drain, DrainEnds, RecvEnds, vars, rvars, FrameInv, Ranges
  <2>4. Ranges' /\ Idx' = Idx
    BY <2>1, <2>2, <2>3 DEF FrameInv, Ranges, Idx
  <2>5. QED
    BY <2>1, <2>4, QuietFrames DEF FrameInv, Committed, HalfWritten
<1>6. QED
  BY <1>1, <1>2, <1>3, <1>4, <1>5 DEF Next, Sender, Receiver

(* For any number of stripes, any capacity and whatever breaks, the state  *)
(* of a direction keeps its ranges and every stripe carries whole frames,  *)
(* one after the other: a stripe that parks in the middle of a frame gets  *)
(* the rest of it before anything else (poll_send, `committed`).           *)
THEOREM FramesStayWhole == Spec => []StripeSafe
<1>1. FrameInv => StripeSafe
  <2> SUFFICES ASSUME FrameInv PROVE StripeSafe
    OBVIOUS
  <2>1. TypeOK
    BY DEF FrameInv, OrderInv, Shape, Ranges, TypeOK
  <2>2. FramesWhole
    BY DEF FrameInv, AllWhole, Whole, Line, Position, FramesWhole
  <2>3. QED
    BY <2>1, <2>2 DEF StripeSafe
<1>2. QED
  BY FrameInit, FrameStep, <1>1, PTL DEF Spec

=============================================================================
