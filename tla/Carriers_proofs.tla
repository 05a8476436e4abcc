-------------------------- MODULE Carriers_proofs --------------------------
(***************************************************************************)
(* What carries the traffic of a session, proved for every value of the    *)
(* constants.                                                              *)
(*                                                                         *)
(* MuxConnection: both ends of a yamux connection account for the credit   *)
(* and the frames of every stream, never find a protocol error in what the *)
(* other one sends, and implement the windows of MuxFlowControl.           *)
(* KcpListener: a client's first KCP session keeps its route while its     *)
(* pump lives, and the cap of the map is a cap of these sessions.          *)
(***************************************************************************)
EXTENDS MuxConnection, KcpListener, SequenceTheorems, FiniteSetTheorems,
        WellFoundedInduction, TLAPS

-----------------------------------------------------------------------------
(* A set that holds zero and, with a number, its successor up to a bound   *)
(* holds every number up to the bound.                                     *)
LEMMA CountsUp ==
  ASSUME NEW n \in Nat, NEW S, 0 \in S, \A i \in 0..n : i \in S /\ i < n => i + 1 \in S
  PROVE  0..n \subseteq S
<1> DEFINE R == {ss \in Nat \X Nat : ss[1] < ss[2]}
           T == {i \in 0..n : i \notin S}
<1>1. SUFFICES ASSUME T # {} PROVE FALSE
  OBVIOUS
<1>2. IsWellFoundedOn(R, Nat)
  BY NatLessThanWellFounded, Zenon DEF OpToRel
<1>3. T \subseteq Nat
  OBVIOUS
<1>4. \E i \in T : \A j \in T : ~(<<j, i>> \in R)
  <2> HIDE DEF R, T
  <2> QED
    BY <1>1, <1>2, <1>3, WFMin
<1>5. PICK i \in T : \A j \in T : ~(<<j, i>> \in R)
  BY <1>4
<1>6. i \in 0..n /\ i # 0 /\ i - 1 \in 0..n /\ i - 1 < n
  OBVIOUS
<1>7. i - 1 \in S
  <2>1. i - 1 \in T => <<i - 1, i>> \in R
    BY <1>6
  <2> QED
    BY <2>1, <1>5, <1>6
<1>8. (i - 1) + 1 \in S
  BY <1>6, <1>7
<1> QED
  BY <1>6, <1>8

-----------------------------------------------------------------------------
(* Total sums a sequence with a function defined by recursion: Adds is the *)
(* equation of that function, which has exactly one solution.              *)
Adds(g, v) == g = [j \in 0..Len(v) |-> IF j = 0 THEN 0 ELSE g[j - 1] + v[j]]

LEMMA AddsLooks ==
  ASSUME NEW v \in Seq(Nat), NEW g, Adds(g, v)
  PROVE  /\ g[0] = 0
         /\ \A j \in 0..Len(v) : j # 0 => g[j] = g[j - 1] + v[j]
<1>1. Len(v) \in Nat
  OBVIOUS
<1>2. g = [j \in 0..Len(v) |-> IF j = 0 THEN 0 ELSE g[j - 1] + v[j]]
  BY DEF Adds
<1>3. \A j \in 0..Len(v) : g[j] = IF j = 0 THEN 0 ELSE g[j - 1] + v[j]
  BY <1>2, Zenon
<1> QED
  BY <1>1, <1>3

LEMMA AddsNat ==
  ASSUME NEW v \in Seq(Nat), NEW g, Adds(g, v)
  PROVE  \A j \in 0..Len(v) : g[j] \in Nat
<1> DEFINE S == {j \in 0..Len(v) : g[j] \in Nat}
<1>1. Len(v) \in Nat
  OBVIOUS
<1>2. 0 \in S
  BY <1>1, AddsLooks
<1>3. ASSUME NEW i \in 0..Len(v), i \in S /\ i < Len(v) PROVE i + 1 \in S
  <2>1. i + 1 \in 0..Len(v) /\ i + 1 # 0 /\ (i + 1) - 1 = i /\ v[i + 1] \in Nat
    BY <1>1, <1>3
  <2>2. g[i + 1] = g[i] + v[i + 1]
    BY <2>1, AddsLooks
  <2> QED
    BY <2>1, <2>2, <1>3
<1> HIDE DEF S
<1>4. 0..Len(v) \subseteq S
  BY <1>1, <1>2, <1>3, CountsUp
<1> QED
  BY <1>4 DEF S

(* Two sequences that agree on a beginning have the same sums there.       *)
LEMMA AddsAgree ==
  ASSUME NEW v \in Seq(Nat), NEW w \in Seq(Nat), NEW g, NEW h, Adds(g, v), Adds(h, w),
         Len(v) <= Len(w), \A j \in 1..Len(v) : w[j] = v[j]
  PROVE  \A j \in 0..Len(v) : g[j] = h[j]
<1> DEFINE S == {j \in 0..Len(v) : g[j] = h[j]}
<1>1. Len(v) \in Nat /\ Len(w) \in Nat
  OBVIOUS
<1>2. 0 \in S
  BY <1>1, AddsLooks
<1>3. ASSUME NEW i \in 0..Len(v), i \in S /\ i < Len(v) PROVE i + 1 \in S
  <2>1. i + 1 \in 0..Len(v) /\ i + 1 \in 0..Len(w) /\ i + 1 # 0 /\ (i + 1) - 1 = i /\ i + 1 \in 1..Len(v)
    BY <1>1, <1>3
  <2>2. g[i + 1] = g[i] + v[i + 1] /\ h[i + 1] = h[i] + w[i + 1]
    BY <2>1, AddsLooks
  <2> QED
    BY <2>1, <2>2, <1>3
<1> HIDE DEF S
<1>4. 0..Len(v) \subseteq S
  BY <1>1, <1>2, <1>3, CountsUp
<1> QED
  BY <1>4 DEF S

LEMMA AddsExists ==
  ASSUME NEW v \in Seq(Nat)
  PROVE  \E g : Adds(g, v)
<1> DEFINE n == Len(v)
           Eq(g, k) == g = [j \in 0..k |-> IF j = 0 THEN 0 ELSE g[j - 1] + v[j]]
           S == {k \in 0..n : \E g : Eq(g, k)}
<1>1. n \in Nat
  OBVIOUS
<1>2. 0 \in S
  <2>1. Eq([j \in 0..0 |-> 0], 0)
    OBVIOUS
  <2>2. 0 \in 0..n
    BY <1>1
  <2> HIDE DEF Eq
  <2> QED
    BY <2>1, <2>2
<1>3. ASSUME NEW k \in 0..n, k \in S /\ k < n PROVE k + 1 \in S
  <2>1. PICK g : Eq(g, k)
    BY <1>3
  <2> DEFINE h == [j \in 0..(k + 1) |-> IF j = k + 1 THEN g[k] + v[k + 1] ELSE g[j]]
  <2>2. k \in Nat /\ k + 1 \in 0..n
    BY <1>1, <1>3
  <2>3. \A j \in 0..k : h[j] = g[j] /\ g[j] = IF j = 0 THEN 0 ELSE g[j - 1] + v[j]
    BY <2>1, <2>2
  <2>4. h[k + 1] = g[k] + v[k + 1] /\ h[k] = g[k]
    BY <2>2, <2>3
  <2>5. ASSUME NEW j \in 0..(k + 1) PROVE h[j] = IF j = 0 THEN 0 ELSE h[j - 1] + v[j]
    <3>1. CASE j = k + 1
      BY <3>1, <2>2, <2>4
    <3>2. CASE j # k + 1
      <4>1. j \in 0..k /\ (j # 0 => j - 1 \in 0..k)
        BY <3>2, <2>2
      <4> QED
        BY <4>1, <2>3
    <3> QED
      BY <3>1, <3>2
  <2>6. h = [j \in 0..(k + 1) |-> h[j]]
    OBVIOUS
  <2> HIDE DEF h
  <2>7. Eq(h, k + 1)
    BY <2>5, <2>6, Zenon
  <2> HIDE DEF Eq
  <2> QED
    BY <2>2, <2>7
<1> HIDE DEF S
<1>4. n \in S
  <2>1. 0..n \subseteq S
    BY <1>1, <1>2, <1>3, CountsUp
  <2> QED
    BY <2>1, <1>1
<1> QED
  BY <1>4 DEF S, Adds

LEMMA TotalIs ==
  ASSUME NEW v \in Seq(Nat)
  PROVE  \E g : Adds(g, v) /\ Total(v) = g[Len(v)]
<1> DEFINE c == CHOOSE g : Adds(g, v)
<1>1. Adds(c, v)
  BY AddsExists
<1>2. Total(v) = c[Len(v)]
  BY DEF Total, Adds
<1> QED
  BY <1>1, <1>2

LEMMA TotalNat == ASSUME NEW v \in Seq(Nat) PROVE Total(v) \in Nat
<1>1. PICK g : Adds(g, v) /\ Total(v) = g[Len(v)]
  BY TotalIs
<1> QED
  BY <1>1, AddsNat

LEMMA TotalEmpty == Total(<<>>) = 0
<1>1. <<>> \in Seq(Nat) /\ Len(<<>>) = 0
  OBVIOUS
<1>2. PICK g : Adds(g, <<>>) /\ Total(<<>>) = g[Len(<<>>)]
  BY <1>1, TotalIs
<1> QED
  BY <1>1, <1>2, AddsLooks

LEMMA TotalAppend ==
  ASSUME NEW v \in Seq(Nat), NEW x \in Nat
  PROVE  Total(Append(v, x)) = Total(v) + x
<1> DEFINE w == Append(v, x)
<1>1. w \in Seq(Nat) /\ Len(v) \in Nat /\ Len(w) = Len(v) + 1 /\ w[Len(v) + 1] = x
      /\ \A j \in 1..Len(v) : w[j] = v[j]
  OBVIOUS
<1> HIDE DEF w
<1>2. PICK g : Adds(g, v) /\ Total(v) = g[Len(v)]
  BY TotalIs
<1>3. PICK h : Adds(h, w) /\ Total(w) = h[Len(w)]
  BY <1>1, TotalIs
<1>4. g[Len(v)] = h[Len(v)]
  BY <1>1, <1>2, <1>3, AddsAgree
<1>5. Len(w) \in 0..Len(w) /\ Len(w) # 0 /\ Len(w) - 1 = Len(v)
  BY <1>1
<1>6. h[Len(w)] = h[Len(v)] + x
  BY <1>1, <1>3, <1>5, AddsLooks
<1> QED
  BY <1>2, <1>3, <1>4, <1>6 DEF w

LEMMA TotalTail ==
  ASSUME NEW v \in Seq(Nat), v # <<>>
  PROVE  Total(v) = v[1] + Total(Tail(v))
<1> DEFINE w == Tail(v)
<1>1. w \in Seq(Nat) /\ Len(v) \in Nat /\ Len(w) \in Nat /\ Len(v) = Len(w) + 1 /\ v[1] \in Nat
      /\ \A j \in 1..Len(w) : w[j] = v[j + 1]
  OBVIOUS
<1> HIDE DEF w
<1>2. PICK g : Adds(g, v) /\ Total(v) = g[Len(v)]
  BY TotalIs
<1>3. PICK h : Adds(h, w) /\ Total(w) = h[Len(w)]
  BY <1>1, TotalIs
<1> DEFINE S == {j \in 0..Len(w) : g[j + 1] = v[1] + h[j]}
<1>4. 0 \in S
  <2>1. 1 \in 0..Len(v) /\ 1 # 0 /\ 1 - 1 = 0
    BY <1>1
  <2>2. g[1] = g[0] + v[1] /\ g[0] = 0 /\ h[0] = 0
    BY <2>1, <1>1, <1>2, <1>3, AddsLooks
  <2> QED
    BY <1>1, <2>2
<1>5. ASSUME NEW i \in 0..Len(w), i \in S /\ i < Len(w) PROVE i + 1 \in S
  <2>1. i + 1 \in 0..Len(w) /\ i + 1 # 0 /\ (i + 1) - 1 = i /\ i + 1 \in 1..Len(w)
        /\ (i + 1) + 1 \in 0..Len(v) /\ (i + 1) + 1 # 0 /\ ((i + 1) + 1) - 1 = i + 1
    BY <1>1, <1>5
  <2>2. h[i + 1] = h[i] + w[i + 1]
    <3>1. \A j \in 0..Len(w) : j # 0 => h[j] = h[j - 1] + w[j]
      BY <1>1, <1>3, AddsLooks
    <3> QED
      BY <3>1, <2>1
  <2>3. g[(i + 1) + 1] = g[i + 1] + v[(i + 1) + 1]
    <3>1. \A j \in 0..Len(v) : j # 0 => g[j] = g[j - 1] + v[j]
      BY <1>1, <1>2, AddsLooks
    <3> QED
      BY <3>1, <2>1
  <2>4. w[i + 1] = v[(i + 1) + 1] /\ w[i + 1] \in Nat
    <3>1. w[i + 1] = v[(i + 1) + 1]
      <4>1. \A j \in 1..Len(w) : w[j] = v[j + 1]
        BY <1>1
      <4> QED
        BY <4>1, <2>1, Zenon
    <3>2. w[i + 1] \in Nat
      <4>1. w \in Seq(Nat) /\ i + 1 \in 1..Len(w)
        BY <2>1, <1>1
      <4> QED
        BY <4>1
    <3> QED
      BY <3>1, <3>2
  <2>5. h[i] \in Nat
    BY <1>1, <1>3, AddsNat
  <2>6. g[i + 1] = v[1] + h[i]
    BY <1>5
  <2>7. g[(i + 1) + 1] = (v[1] + h[i]) + w[i + 1] /\ h[i + 1] = h[i] + w[i + 1]
    BY <2>2, <2>3, <2>4, <2>6, Zenon
  <2>8. g[(i + 1) + 1] = v[1] + h[i + 1]
    <3> DEFINE x == v[1]
               y == h[i]
               z == w[i + 1]
               a == g[(i + 1) + 1]
               b == h[i + 1]
    <3>1. x \in Nat /\ y \in Nat /\ z \in Nat /\ a = (x + y) + z /\ b = y + z
      BY <2>4, <2>5, <2>7, <1>1, Zenon
    <3> HIDE DEF x, y, z, a, b
    <3>2. a = x + b
      BY <3>1
    <3> QED
      BY <3>2 DEF a, b, x
  <2> QED
    BY <2>1, <2>8
<1> HIDE DEF S
<1>6. Len(w) \in S
  <2>1. 0..Len(w) \subseteq S
    BY <1>1, <1>4, <1>5, CountsUp
  <2> QED
    BY <2>1, <1>1
<1>7. g[Len(w) + 1] = v[1] + h[Len(w)]
  BY <1>6 DEF S
<1> QED
  BY <1>1, <1>2, <1>3, <1>7 DEF w

(* A sum of natural numbers is at least each of them.                      *)
LEMMA TotalCovers ==
  ASSUME NEW v \in Seq(Nat)
  PROVE  \A i \in 1..Len(v) : v[i] <= Total(v)
<1> SUFFICES ASSUME NEW i \in 1..Len(v) PROVE v[i] <= Total(v)
  OBVIOUS
<1>1. PICK g : Adds(g, v) /\ Total(v) = g[Len(v)]
  BY TotalIs
<1> DEFINE S == {j \in 0..Len(v) : j >= i => v[i] <= g[j]}
<1>2. Len(v) \in Nat /\ v[i] \in Nat /\ \A j \in 0..Len(v) : g[j] \in Nat
  BY <1>1, AddsNat
<1>3. 0 \in S
  BY <1>2
<1>4. ASSUME NEW k \in 0..Len(v), k \in S /\ k < Len(v) PROVE k + 1 \in S
  <2>1. k + 1 \in 0..Len(v) /\ k + 1 # 0 /\ (k + 1) - 1 = k /\ v[k + 1] \in Nat /\ g[k] \in Nat
    BY <1>2, <1>4
  <2>2. g[k + 1] = g[k] + v[k + 1]
    BY <2>1, <1>1, AddsLooks
  <2> QED
    BY <2>1, <2>2, <1>2, <1>4
<1> HIDE DEF S
<1>5. Len(v) \in S
  <2>1. 0..Len(v) \subseteq S
    BY <1>2, <1>3, <1>4, CountsUp
  <2> QED
    BY <2>1, <1>2
<1> QED
  BY <1>1, <1>5 DEF S

(* A sum that is not zero has a term that is not.                          *)
LEMMA TotalHasTerm ==
  ASSUME NEW v \in Seq(Nat), \A i \in 1..Len(v) : v[i] = 0
  PROVE  Total(v) = 0
<1>1. PICK g : Adds(g, v) /\ Total(v) = g[Len(v)]
  BY TotalIs
<1> DEFINE S == {j \in 0..Len(v) : g[j] = 0}
<1>2. Len(v) \in Nat
  OBVIOUS
<1>3. 0 \in S
  BY <1>1, <1>2, AddsLooks
<1>4. ASSUME NEW k \in 0..Len(v), k \in S /\ k < Len(v) PROVE k + 1 \in S
  <2>1. k + 1 \in 0..Len(v) /\ k + 1 # 0 /\ (k + 1) - 1 = k /\ v[k + 1] = 0
    BY <1>2, <1>4
  <2>2. g[k + 1] = g[k] + v[k + 1]
    BY <2>1, <1>1, AddsLooks
  <2> QED
    BY <2>1, <2>2, <1>4
<1> HIDE DEF S
<1>5. Len(v) \in S
  <2>1. 0..Len(v) \subseteq S
    BY <1>2, <1>3, <1>4, CountsUp
  <2> QED
    BY <2>1, <1>2
<1> QED
  BY <1>1, <1>5 DEF S

-----------------------------------------------------------------------------
(* What a queue holds of one stream: payload or credit, and announcements. *)
Kinds == {"data", "wu"}
Syn(f, i) == IF f.id = i /\ "SYN" \in f.fl THEN 1 ELSE 0
Syns(s, i) == Total([j \in DOMAIN s |-> Syn(s[j], i)])

LEMMA PartIsNat ==
  ASSUME NEW f \in Frames, NEW k, NEW i
  PROVE  Part(f, k, i) \in Nat /\ Syn(f, i) \in Nat
BY DEF Part, Syn, Frames

Parts(s, k, i) == [j \in DOMAIN s |-> Part(s[j], k, i)]
Marks(s, i) == [j \in DOMAIN s |-> Syn(s[j], i)]

LEMMA MapsTo ==
  ASSUME NEW S, NEW s \in Seq(S), NEW v, v = [j \in DOMAIN s |-> v[j]], \A j \in DOMAIN s : v[j] \in Nat
  PROVE  v \in Seq(Nat) /\ Len(v) = Len(s) /\ DOMAIN v = 1..Len(s)
<1>1. DOMAIN s = 1..Len(s) /\ Len(s) \in Nat
  OBVIOUS
<1>2. v \in [1..Len(s) -> Nat]
  BY <1>1
<1>3. v \in Seq(Nat)
  BY <1>1, <1>2, SeqDef
<1>4. DOMAIN v = 1..Len(s)
  BY <1>2
<1>5. DOMAIN v = 1..Len(v) /\ Len(v) \in Nat
  BY <1>3
<1> QED
  BY <1>1, <1>3, <1>4, <1>5

LEMMA PartsLook ==
  ASSUME NEW s \in Seq(Frames), NEW k, NEW i
  PROVE  /\ Parts(s, k, i) \in Seq(Nat) /\ Len(Parts(s, k, i)) = Len(s)
         /\ Marks(s, i) \in Seq(Nat) /\ Len(Marks(s, i)) = Len(s)
         /\ DOMAIN s = 1..Len(s) /\ Len(s) \in Nat
         /\ \A j \in 1..Len(s) : /\ Parts(s, k, i)[j] = Part(s[j], k, i) /\ Marks(s, i)[j] = Syn(s[j], i)
                                 /\ Part(s[j], k, i) \in Nat /\ Syn(s[j], i) \in Nat
<1>1. \A j \in DOMAIN s : s[j] \in Frames
  OBVIOUS
<1>2. \A j \in DOMAIN s : Part(s[j], k, i) \in Nat /\ Syn(s[j], i) \in Nat
  BY <1>1, PartIsNat
<1>3. \A j \in DOMAIN s : Parts(s, k, i)[j] = Part(s[j], k, i) /\ Marks(s, i)[j] = Syn(s[j], i)
  BY DEF Parts, Marks
<1>4. Parts(s, k, i) = [j \in DOMAIN s |-> Parts(s, k, i)[j]] /\ Marks(s, i) = [j \in DOMAIN s |-> Marks(s, i)[j]]
  BY DEF Parts, Marks
<1>5. Parts(s, k, i) \in Seq(Nat) /\ Len(Parts(s, k, i)) = Len(s)
  BY <1>2, <1>3, <1>4, MapsTo
<1>6. Marks(s, i) \in Seq(Nat) /\ Len(Marks(s, i)) = Len(s)
  BY <1>2, <1>3, <1>4, MapsTo
<1>7. DOMAIN s = 1..Len(s) /\ Len(s) \in Nat
  OBVIOUS
<1> QED
  BY <1>2, <1>3, <1>5, <1>6, <1>7

LEMMA SumsAre ==
  ASSUME NEW s, NEW k, NEW i
  PROVE  Sum(s, k, i) = Total(Parts(s, k, i)) /\ Syns(s, i) = Total(Marks(s, i))
BY DEF Sum, Syns, Parts, Marks

(* A longer and a shorter sequence, element by element.                    *)
LEMMA Longer ==
  ASSUME NEW S, NEW s \in Seq(S), NEW x \in S
  PROVE  /\ Append(s, x) \in Seq(S) /\ Len(Append(s, x)) = Len(s) + 1 /\ Append(s, x)[Len(s) + 1] = x
         /\ \A j \in 1..Len(s) : Append(s, x)[j] = s[j]
OBVIOUS

LEMMA Shorter ==
  ASSUME NEW S, NEW s \in Seq(S), s # <<>>
  PROVE  /\ Tail(s) \in Seq(S) /\ Len(s) \in Nat /\ Len(s) >= 1 /\ Len(Tail(s)) = Len(s) - 1 /\ Head(s) = s[1]
         /\ \A j \in 1..(Len(s) - 1) : Tail(s)[j] = s[j + 1]
OBVIOUS

LEMMA SameAppended ==
  ASSUME NEW n \in Nat, NEW u \in Seq(Nat), NEW v \in Seq(Nat), NEW x \in Nat, Len(v) = n, Len(u) = n + 1,
         u[n + 1] = x, \A j \in 1..n : u[j] = v[j]
  PROVE  u = Append(v, x)
<1> DEFINE w == Append(v, x)
<1>1. w \in Seq(Nat) /\ Len(w) = n + 1 /\ w[n + 1] = x /\ \A j \in 1..n : w[j] = v[j]
  BY Longer
<1> HIDE DEF w
<1>2. \A j \in 1..Len(u) : u[j] = w[j]
  BY <1>1
<1> QED
  BY <1>1, <1>2, SeqEqual DEF w

LEMMA SameTail ==
  ASSUME NEW u \in Seq(Nat), NEW v \in Seq(Nat), v # <<>>, Len(u) = Len(v) - 1,
         \A j \in 1..Len(u) : u[j] = v[j + 1]
  PROVE  u = Tail(v)
<1> DEFINE w == Tail(v)
<1>1. w \in Seq(Nat) /\ Len(w) = Len(u) /\ \A j \in 1..Len(u) : w[j] = v[j + 1]
  BY Shorter
<1> HIDE DEF w
<1> QED
  BY <1>1, SeqEqual DEF w

LEMMA MapAppend ==
  ASSUME NEW s \in Seq(Frames), NEW f \in Frames, NEW k, NEW i
  PROVE  /\ Parts(Append(s, f), k, i) = Append(Parts(s, k, i), Part(f, k, i))
         /\ Marks(Append(s, f), i) = Append(Marks(s, i), Syn(f, i))
<1> DEFINE t == Append(s, f)
           n == Len(s)
<1>1. Part(f, k, i) \in Nat /\ Syn(f, i) \in Nat /\ n \in Nat
  BY PartIsNat
<1>2. t \in Seq(Frames) /\ Len(t) = n + 1 /\ t[n + 1] = f /\ \A j \in 1..n : t[j] = s[j]
  BY Longer
<1> HIDE DEF t
<1>3. /\ Parts(s, k, i) \in Seq(Nat) /\ Len(Parts(s, k, i)) = n /\ Marks(s, i) \in Seq(Nat) /\ Len(Marks(s, i)) = n
      /\ \A j \in 1..n : Parts(s, k, i)[j] = Part(s[j], k, i) /\ Marks(s, i)[j] = Syn(s[j], i)
  BY PartsLook
<1>4. /\ Parts(t, k, i) \in Seq(Nat) /\ Len(Parts(t, k, i)) = n + 1 /\ Marks(t, i) \in Seq(Nat) /\ Len(Marks(t, i)) = n + 1
      /\ \A j \in 1..(n + 1) : Parts(t, k, i)[j] = Part(t[j], k, i) /\ Marks(t, i)[j] = Syn(t[j], i)
  BY <1>2, PartsLook
<1> HIDE DEF n
<1>5. /\ \A j \in 1..n : Parts(t, k, i)[j] = Parts(s, k, i)[j] /\ Marks(t, i)[j] = Marks(s, i)[j]
      /\ Parts(t, k, i)[n + 1] = Part(f, k, i) /\ Marks(t, i)[n + 1] = Syn(f, i)
  BY <1>1, <1>2, <1>3, <1>4
<1>6. Parts(t, k, i) = Append(Parts(s, k, i), Part(f, k, i))
  BY <1>1, <1>3, <1>4, <1>5, SameAppended
<1>7. Marks(t, i) = Append(Marks(s, i), Syn(f, i))
  BY <1>1, <1>3, <1>4, <1>5, SameAppended
<1> QED
  BY <1>6, <1>7 DEF t

LEMMA MapTail ==
  ASSUME NEW s \in Seq(Frames), s # <<>>, NEW k, NEW i
  PROVE  /\ Parts(Tail(s), k, i) = Tail(Parts(s, k, i)) /\ Parts(s, k, i) # <<>> /\ Parts(s, k, i)[1] = Part(Head(s), k, i)
         /\ Marks(Tail(s), i) = Tail(Marks(s, i)) /\ Marks(s, i) # <<>> /\ Marks(s, i)[1] = Syn(Head(s), i)
<1> DEFINE t == Tail(s)
           n == Len(s)
<1>1. t \in Seq(Frames) /\ n \in Nat /\ n >= 1 /\ Len(t) = n - 1 /\ Head(s) = s[1] /\ \A j \in 1..(n - 1) : t[j] = s[j + 1]
  BY Shorter
<1> HIDE DEF t
<1>2. /\ Parts(s, k, i) \in Seq(Nat) /\ Len(Parts(s, k, i)) = n /\ Marks(s, i) \in Seq(Nat) /\ Len(Marks(s, i)) = n
      /\ \A j \in 1..n : Parts(s, k, i)[j] = Part(s[j], k, i) /\ Marks(s, i)[j] = Syn(s[j], i)
  BY PartsLook
<1>3. /\ Parts(t, k, i) \in Seq(Nat) /\ Len(Parts(t, k, i)) = n - 1 /\ Marks(t, i) \in Seq(Nat) /\ Len(Marks(t, i)) = n - 1
      /\ \A j \in 1..(n - 1) : Parts(t, k, i)[j] = Part(t[j], k, i) /\ Marks(t, i)[j] = Syn(t[j], i)
  <2>1. /\ Parts(t, k, i) \in Seq(Nat) /\ Len(Parts(t, k, i)) = Len(t) /\ Marks(t, i) \in Seq(Nat) /\ Len(Marks(t, i)) = Len(t)
        /\ \A j \in 1..Len(t) : Parts(t, k, i)[j] = Part(t[j], k, i) /\ Marks(t, i)[j] = Syn(t[j], i)
    <3>1. t \in Seq(Frames)
      BY <1>1
    <3>2. Parts(t, k, i) \in Seq(Nat) /\ Len(Parts(t, k, i)) = Len(t) /\ Marks(t, i) \in Seq(Nat) /\ Len(Marks(t, i)) = Len(t)
      BY <3>1, PartsLook
    <3>3. ASSUME NEW j \in 1..Len(t) PROVE Parts(t, k, i)[j] = Part(t[j], k, i)
      BY <3>1, PartsLook
    <3>4. ASSUME NEW j \in 1..Len(t) PROVE Marks(t, i)[j] = Syn(t[j], i)
      BY <3>1, PartsLook
    <3> QED
      BY <3>2, <3>3, <3>4
  <2> QED
    BY <2>1, <1>1
<1> HIDE DEF n
<1>4. Parts(s, k, i) # <<>> /\ Marks(s, i) # <<>> /\ Parts(s, k, i)[1] = Part(Head(s), k, i) /\ Marks(s, i)[1] = Syn(Head(s), i)
  BY <1>1, <1>2
<1>5. \A j \in 1..(n - 1) : Parts(t, k, i)[j] = Parts(s, k, i)[j + 1] /\ Marks(t, i)[j] = Marks(s, i)[j + 1]
  <2> SUFFICES ASSUME NEW j \in 1..(n - 1)
               PROVE  Parts(t, k, i)[j] = Parts(s, k, i)[j + 1] /\ Marks(t, i)[j] = Marks(s, i)[j + 1]
    OBVIOUS
  <2>1. j + 1 \in 1..n
    BY <1>1
  <2> QED
    BY <2>1, <1>1, <1>2, <1>3
<1>6. Parts(t, k, i) = Tail(Parts(s, k, i))
  <2> DEFINE u == Parts(t, k, i)
             v == Parts(s, k, i)
  <2>1. u \in Seq(Nat) /\ v \in Seq(Nat) /\ v # <<>> /\ Len(u) = n - 1 /\ Len(v) = n /\ \A j \in 1..(n - 1) : u[j] = v[j + 1]
    BY <1>2, <1>3, <1>4, <1>5
  <2> HIDE DEF u, v
  <2>2. u = Tail(v)
    BY <2>1, SameTail
  <2> QED
    BY <2>2 DEF u, v
<1>7. Marks(t, i) = Tail(Marks(s, i))
  <2> DEFINE u == Marks(t, i)
             v == Marks(s, i)
  <2>1. u \in Seq(Nat) /\ v \in Seq(Nat) /\ v # <<>> /\ Len(u) = n - 1 /\ Len(v) = n /\ \A j \in 1..(n - 1) : u[j] = v[j + 1]
    BY <1>2, <1>3, <1>4, <1>5
  <2> HIDE DEF u, v
  <2>2. u = Tail(v)
    BY <2>1, SameTail
  <2> QED
    BY <2>2 DEF u, v
<1> QED
  BY <1>4, <1>6, <1>7 DEF t

LEMMA SumNat ==
  ASSUME NEW s \in Seq(Frames), NEW k, NEW i
  PROVE  Sum(s, k, i) \in Nat /\ Syns(s, i) \in Nat
BY PartsLook, TotalNat, SumsAre

LEMMA SumEmpty ==
  ASSUME NEW k, NEW i
  PROVE  Sum(<<>>, k, i) = 0 /\ Syns(<<>>, i) = 0
<1>1. [j \in DOMAIN <<>> |-> Part(<<>>[j], k, i)] = <<>> /\ [j \in DOMAIN <<>> |-> Syn(<<>>[j], i)] = <<>>
  OBVIOUS
<1> QED
  BY <1>1, TotalEmpty DEF Sum, Syns

LEMMA SumAppend ==
  ASSUME NEW s \in Seq(Frames), NEW f \in Frames, NEW k, NEW i
  PROVE  /\ Sum(Append(s, f), k, i) = Sum(s, k, i) + Part(f, k, i)
         /\ Syns(Append(s, f), i) = Syns(s, i) + Syn(f, i)
<1>1. Part(f, k, i) \in Nat /\ Syn(f, i) \in Nat
  BY PartIsNat
<1>2. Total(Parts(Append(s, f), k, i)) = Total(Parts(s, k, i)) + Part(f, k, i)
  <2> DEFINE v == Parts(s, k, i)
  <2>1. v \in Seq(Nat)
    BY PartsLook
  <2> HIDE DEF v
  <2>2. Total(Append(v, Part(f, k, i))) = Total(v) + Part(f, k, i)
    BY <1>1, <2>1, TotalAppend
  <2> QED
    BY <2>2, MapAppend DEF v
<1>3. Total(Marks(Append(s, f), i)) = Total(Marks(s, i)) + Syn(f, i)
  <2> DEFINE v == Marks(s, i)
  <2>1. v \in Seq(Nat)
    BY PartsLook
  <2> HIDE DEF v
  <2>2. Total(Append(v, Syn(f, i))) = Total(v) + Syn(f, i)
    BY <1>1, <2>1, TotalAppend
  <2> QED
    BY <2>2, MapAppend DEF v
<1> QED
  BY <1>2, <1>3, SumsAre

LEMMA SumTail ==
  ASSUME NEW s \in Seq(Frames), s # <<>>, NEW k, NEW i
  PROVE  /\ Sum(s, k, i) = Part(Head(s), k, i) + Sum(Tail(s), k, i)
         /\ Syns(s, i) = Syn(Head(s), i) + Syns(Tail(s), i)
         /\ Head(s) \in Frames /\ Tail(s) \in Seq(Frames)
<1>1. Head(s) \in Frames /\ Tail(s) \in Seq(Frames)
  OBVIOUS
<1>2. Total(Parts(s, k, i)) = Part(Head(s), k, i) + Total(Parts(Tail(s), k, i))
  <2> DEFINE v == Parts(s, k, i)
  <2>1. v \in Seq(Nat) /\ v # <<>>
    BY PartsLook, MapTail
  <2> HIDE DEF v
  <2>2. Total(v) = v[1] + Total(Tail(v))
    BY <2>1, TotalTail
  <2> QED
    BY <2>2, MapTail DEF v
<1>3. Total(Marks(s, i)) = Syn(Head(s), i) + Total(Marks(Tail(s), i))
  <2> DEFINE v == Marks(s, i)
  <2>1. v \in Seq(Nat) /\ v # <<>>
    BY PartsLook, MapTail
  <2> HIDE DEF v
  <2>2. Total(v) = v[1] + Total(Tail(v))
    BY <2>1, TotalTail
  <2> QED
    BY <2>2, MapTail DEF v
<1> QED
  BY <1>1, <1>2, <1>3, SumsAre

(* No payload of the stream is ahead of its announcement in a queue.       *)
Lead(q, i) ==
  \A a, b \in DOMAIN q : a < b /\ q[b].id = i /\ "SYN" \in q[b].fl => Part(q[a], "data", i) = 0

LEMMA SumTerm ==
  ASSUME NEW s \in Seq(Frames), NEW k, NEW i
  PROVE  /\ Sum(s, k, i) = 0 => \A j \in DOMAIN s : Part(s[j], k, i) = 0
         /\ (\A j \in DOMAIN s : Syn(s[j], i) = 0) => Syns(s, i) = 0
<1> DEFINE v == Parts(s, k, i)
           w == Marks(s, i)
<1>1. v \in Seq(Nat) /\ w \in Seq(Nat) /\ Len(v) = Len(s) /\ Len(w) = Len(s) /\ DOMAIN s = 1..Len(s)
      /\ \A j \in 1..Len(s) : v[j] = Part(s[j], k, i) /\ w[j] = Syn(s[j], i) /\ Part(s[j], k, i) \in Nat
  BY PartsLook
<1>2. Sum(s, k, i) = Total(v) /\ Syns(s, i) = Total(w)
  BY SumsAre
<1> HIDE DEF v, w
<1>3. \A j \in 1..Len(v) : v[j] <= Total(v)
  BY <1>1, TotalCovers
<1>4. (\A j \in 1..Len(w) : w[j] = 0) => Total(w) = 0
  BY <1>1, TotalHasTerm
<1>5. ASSUME Total(v) = 0, NEW j \in 1..Len(s) PROVE Part(s[j], k, i) = 0
  <2>1. v[j] <= 0 /\ v[j] = Part(s[j], k, i) /\ Part(s[j], k, i) \in Nat
    BY <1>1, <1>3, <1>5
  <2> QED
    BY <2>1
<1> QED
  BY <1>1, <1>2, <1>4, <1>5

LEMMA LeadAppend ==
  ASSUME NEW q \in Seq(Frames), NEW f \in Frames, NEW i, Lead(q, i),
         f.id = i /\ "SYN" \in f.fl => Sum(q, "data", i) = 0
  PROVE  Lead(Append(q, f), i)
<1>1. f.id = i /\ "SYN" \in f.fl => \A a \in DOMAIN q : Part(q[a], "data", i) = 0
  BY SumTerm
<1>2. DOMAIN q = 1..Len(q) /\ Len(q) \in Nat /\ DOMAIN Append(q, f) = 1..(Len(q) + 1)
      /\ Append(q, f)[Len(q) + 1] = f /\ \A a \in 1..Len(q) : Append(q, f)[a] = q[a]
  OBVIOUS
<1> DEFINE r == Append(q, f)
<1> HIDE DEF r
<1>3. ASSUME NEW a \in DOMAIN r, NEW b \in DOMAIN r, a < b, r[b].id = i, "SYN" \in r[b].fl
      PROVE  Part(r[a], "data", i) = 0
  <2>1. a \in 1..Len(q) /\ r[a] = q[a]
    BY <1>2, <1>3 DEF r
  <2>2. CASE b = Len(q) + 1
    BY <2>1, <2>2, <1>1, <1>2, <1>3 DEF r
  <2>3. CASE b # Len(q) + 1
    BY <2>1, <2>3, <1>2, <1>3 DEF r, Lead
  <2> QED
    BY <2>2, <2>3
<1> QED
  BY <1>3 DEF r, Lead

LEMMA LeadTail ==
  ASSUME NEW q \in Seq(Frames), NEW i, Lead(q, i), q # <<>>
  PROVE  /\ Lead(Tail(q), i)
         /\ Syns(q, i) > 0 => Syn(Head(q), i) = 1 \/ Part(Head(q), "data", i) = 0
<1>1. DOMAIN q = 1..Len(q) /\ Len(q) \in Nat /\ Len(q) >= 1 /\ DOMAIN Tail(q) = 1..(Len(q) - 1)
      /\ Head(q) = q[1] /\ \A a \in 1..(Len(q) - 1) : Tail(q)[a] = q[a + 1] /\ a + 1 \in 1..Len(q)
  OBVIOUS
<1>2. Lead(Tail(q), i)
  BY <1>1 DEF Lead
<1>3. ASSUME Syns(q, i) > 0 PROVE Syn(Head(q), i) = 1 \/ Part(Head(q), "data", i) = 0
  <2>1. PICK b \in DOMAIN q : Syn(q[b], i) # 0
    <3>1. Syns(q, i) # 0
      BY <1>3
    <3> QED
      BY <3>1, SumTerm
  <2>2. q[b].id = i /\ "SYN" \in q[b].fl /\ Syn(q[b], i) = 1
    BY <2>1 DEF Syn
  <2> QED
    BY <1>1, <2>1, <2>2 DEF Lead
<1> QED
  BY <1>2, <1>3

LEMMA LeadEmpty == ASSUME NEW i PROVE Lead(<<>>, i)
BY DEF Lead

-----------------------------------------------------------------------------
(* The inductive invariant.                                                *)

(* What a side may send: no goaway; an end or a reset carries nothing; an  *)
(* announcement is the client's, alone and empty.  What goes ahead of the  *)
(* payload has none.                                                       *)
Sendable(p) ==
  {f \in Frames : /\ f.k # "goaway" /\ f.id \in Streams
                  /\ "FIN" \in f.fl \/ "RST" \in f.fl => f.n = 0
                  /\ "SYN" \in f.fl => p = "client" /\ f.k = "data" /\ f.n = 0 /\ f.fl = {"SYN"}}
Plain ==
  {f \in Frames : /\ f.k # "goaway" /\ f.id \in Streams /\ "SYN" \notin f.fl
                  /\ f.k = "data" \/ "FIN" \in f.fl \/ "RST" \in f.fl => f.n = 0}
Answers == {f \in Plain : f.n = 0}
Commands(p, i) == {f \in Sendable(p) : f.id = i}

EndStates ==
  [st : StreamStates, acked : BOOLEAN, handle : {"none", "held", "dropped", "gone"},
   flag : {{}, {"SYN"}, {"ACK"}}, sw : Nat, rw : Nat, buf : Nat, wrote : Nat, got : Nat,
   eof : BOOLEAN, dry : BOOLEAN, reset : BOOLEAN, finished : BOOLEAN]

MuxShape ==
  /\ conn \in [Sides -> {"active", "closed"}]
  /\ known \in [Sides -> SUBSET Streams]
  /\ ep \in [Sides -> [Streams -> EndStates]]
  /\ chan \in [Sides -> [Streams -> Seq(Frames)]]
  /\ ctrl \in [Sides -> Seq(Plain)] /\ reply \in [Sides -> Seq(Answers)]
  /\ data \in [Sides -> Seq(Frames)] /\ wire \in [Sides -> Seq(Frames)]
  /\ \A p \in Sides :
       /\ data[p] \in Seq(Sendable(p)) /\ wire[p] \in Seq(Sendable(p))
       /\ Len(reply[p]) <= 1 /\ Len(wire[p]) <= WireCap
       /\ \A i \in Streams : chan[p][i] \in Seq(Commands(p, i)) /\ Len(chan[p][i]) <= ChanCap

(* A stream end is in its side's map from its creation until it is reaped  *)
(* or its connection closes, and then it can be neither read nor written.  *)
Present(p, i) == ep[p][i].handle \in {"held", "dropped"}
MemberAt(p, i) ==
  /\ i \in known[p] => conn[p] = "active" /\ Present(p, i)
  /\ Present(p, i) /\ i \notin known[p] => ep[p][i].st = "closed" /\ conn[p] = "closed"
  /\ "SYN" \in ep[p][i].flag => p = "client" /\ ep[p][i].handle # "none"
Members == \A p \in Sides, i \in Streams : MemberAt(p, i)

(* Where the announcement of a stream is: still owed, on its way, or taken.*)
Owed(i) == IF "SYN" \in ep["client"][i].flag THEN 1 ELSE 0
InChan(i) == Syns(chan["client"][i], i)
InData(i) == Syns(data["client"], i)
InWire(i) == Syns(wire["client"], i)
Met(i) == IF ep["server"][i].handle = "none" THEN 0 ELSE 1
UnderWay(i) == Owed(i) + InChan(i) + InData(i) + InWire(i)
Announced(i) ==
  /\ UnderWay(i) + Met(i) <= 1
  /\ ep["client"][i].handle = "none" => UnderWay(i) + Met(i) = 0
  /\ Lead(chan["client"][i], i) /\ Lead(data["client"], i) /\ Lead(wire["client"], i)
  /\ Owed(i) > 0 => Sum(chan["client"][i], "data", i) = 0
  /\ Owed(i) + InChan(i) > 0 => Sum(data["client"], "data", i) = 0
  /\ Owed(i) + InChan(i) + InData(i) > 0 => Sum(wire["client"], "data", i) = 0
SynOnce == \A i \in Streams : Announced(i)

(* The ledger of one stream.  Without the server's end nothing comes back  *)
(* and the client lives on its first credit; with both ends in their maps  *)
(* the windows balance; and whoever reads has room for what is under way,  *)
(* also from a sender that has left.                                       *)
Unmet(i) ==
  /\ \A k \in Kinds : InFlight("server", k, i) = 0
  /\ InFlight("client", "wu", i) = 0
  /\ ep["client"][i].handle # "none" =>
       /\ ep["client"][i].rw = Credit /\ ep["client"][i].buf = 0
       /\ ep["client"][i].sw + InFlight("client", "data", i) <= Credit
  /\ i \in known["client"] /\ UnderWay(i) = 1 =>
       ep["client"][i].sw + InFlight("client", "data", i) = Credit
Balanced(p, i) ==
  i \in known[p] /\ i \in known[Peer(p)] =>
    ep[Peer(p)][i].rw = ep[p][i].sw + InFlight(p, "data", i) + InFlight(Peer(p), "wu", i)
Fits(p, i) == i \in known[Peer(p)] => InFlight(p, "data", i) <= ep[Peer(p)][i].rw
LedgerAt(i) ==
  /\ ep["server"][i].handle = "none" => Unmet(i)
  /\ ep["client"][i].handle = "none" => InFlight("client", "data", i) = 0
  /\ \A p \in Sides : Balanced(p, i) /\ Fits(p, i)
Ledger == \A i \in Streams : LedgerAt(i)

MuxInv == MuxShape /\ Members /\ SynOnce /\ Ledger

-----------------------------------------------------------------------------
LEMMA SideFacts ==
  /\ Sides = {"client", "server"} /\ "client" # "server"
  /\ \A p \in Sides : Peer(p) \in Sides /\ Peer(p) # p /\ Peer(Peer(p)) = p
  /\ Peer("client") = "server" /\ Peer("server") = "client"
BY DEF Sides, Peer

LEMMA FrameSets ==
  ASSUME NEW p, NEW i
  PROVE  /\ Answers \subseteq Plain /\ Plain \subseteq Sendable(p) /\ Sendable(p) \subseteq Frames
         /\ Commands(p, i) \subseteq Sendable(p)
BY DEF Answers, Plain, Sendable, Commands

LEMMA ShapeQueues ==
  ASSUME MuxShape, NEW p \in Sides
  PROVE  /\ ctrl[p] \in Seq(Plain) /\ ctrl[p] \in Seq(Frames)
         /\ reply[p] \in Seq(Answers) /\ reply[p] \in Seq(Frames)
         /\ data[p] \in Seq(Frames) /\ data[p] \in Seq(Sendable(p))
         /\ wire[p] \in Seq(Frames) /\ wire[p] \in Seq(Sendable(p)) /\ Len(wire[p]) <= WireCap
         /\ \A i \in Streams : chan[p][i] \in Seq(Frames) /\ chan[p][i] \in Seq(Commands(p, i))
<1>1. Plain \subseteq Frames /\ Answers \subseteq Frames
  BY DEF Plain, Answers
<1>2. ctrl[p] \in Seq(Plain) /\ reply[p] \in Seq(Answers)
  BY DEF MuxShape
<1>3. ctrl[p] \in Seq(Frames) /\ reply[p] \in Seq(Frames)
  BY <1>1, <1>2, SeqMonotonic
<1> QED
  BY <1>2, <1>3 DEF MuxShape

LEMMA FlightNat ==
  ASSUME MuxShape, NEW p \in Sides, NEW i \in Streams, NEW k
  PROVE  /\ {Sum(chan[p][i], k, i), Sum(ctrl[p], k, i), Sum(data[p], k, i), Sum(wire[p], k, i)} \subseteq Nat
         /\ InFlight(p, k, i) \in Nat
         /\ InFlight(p, k, i) = Sum(chan[p][i], k, i) + Sum(ctrl[p], k, i) + Sum(data[p], k, i) + Sum(wire[p], k, i)
<1>1. {Sum(chan[p][i], k, i), Sum(ctrl[p], k, i), Sum(data[p], k, i), Sum(wire[p], k, i)} \subseteq Nat
  BY ShapeQueues, SumNat
<1>2. InFlight(p, k, i) = Sum(chan[p][i], k, i) + Sum(ctrl[p], k, i) + Sum(data[p], k, i) + Sum(wire[p], k, i)
  BY DEF InFlight
<1> QED
  BY <1>1, <1>2

LEMMA SynNat ==
  ASSUME MuxShape, NEW i \in Streams
  PROVE  /\ Owed(i) \in Nat /\ InChan(i) \in Nat /\ InData(i) \in Nat /\ InWire(i) \in Nat /\ Met(i) \in Nat
         /\ UnderWay(i) = Owed(i) + InChan(i) + InData(i) + InWire(i) /\ UnderWay(i) \in Nat
<1>1. Owed(i) \in Nat /\ Met(i) \in Nat
  BY DEF Owed, Met
<1>2. InChan(i) \in Nat /\ InData(i) \in Nat /\ InWire(i) \in Nat
  BY SideFacts, ShapeQueues, SumNat DEF InChan, InData, InWire
<1> QED
  BY <1>1, <1>2 DEF UnderWay

LEMMA EndFacts ==
  ASSUME MuxShape, NEW p \in Sides, NEW i \in Streams
  PROVE  /\ ep[p][i] \in EndStates /\ {ep[p][i].sw, ep[p][i].rw, ep[p][i].buf} \subseteq Nat
         /\ ep[p][i].handle \in {"none", "held", "dropped", "gone"}
         /\ ep[p][i].flag \in {{}, {"SYN"}, {"ACK"}}
<1>1. ep[p][i] \in EndStates
  BY DEF MuxShape
<1> QED
  BY <1>1 DEF EndStates

(* A step that moves none of the numbers a stream's ledger is about.       *)
Alike(j) ==
  /\ \A p \in Sides :
       /\ ep'[p][j].handle = "none" <=> ep[p][j].handle = "none"
       /\ ep'[p][j].sw = ep[p][j].sw /\ ep'[p][j].rw = ep[p][j].rw /\ ep'[p][j].buf = ep[p][j].buf
       /\ j \in known'[p] => j \in known[p]
       /\ \A k \in Kinds : InFlight(p, k, j)' = InFlight(p, k, j)
  /\ UnderWay(j)' = 1 => UnderWay(j) = 1

LEMMA LedgerStays ==
  ASSUME NEW j \in Streams, LedgerAt(j), Alike(j)
  PROVE  LedgerAt(j)'
<1>1. /\ "data" \in Kinds /\ "wu" \in Kinds
  BY DEF Kinds
<1>2. ep'["server"][j].handle = "none" => Unmet(j)'
  <2>1. ASSUME ep'["server"][j].handle = "none" PROVE Unmet(j)'
    <3>1. Unmet(j)
      BY <2>1, SideFacts DEF LedgerAt, Alike
    <3> QED
      BY <3>1, <1>1, SideFacts DEF Unmet, Alike
  <2> QED
    BY <2>1
<1>3. ep'["client"][j].handle = "none" => InFlight("client", "data", j)' = 0
  BY <1>1, SideFacts DEF LedgerAt, Alike
<1>4. ASSUME NEW p \in Sides PROVE Balanced(p, j)' /\ Fits(p, j)'
  BY <1>1, SideFacts DEF LedgerAt, Alike, Balanced, Fits
<1> QED
  BY <1>2, <1>3, <1>4 DEF LedgerAt

LEMMA NewEndIs ==
  ASSUME NEW fl \in {{}, {"SYN"}, {"ACK"}}
  PROVE  /\ NewEnd(fl) \in EndStates /\ NewEnd(fl).handle = "held" /\ NewEnd(fl).flag = fl
         /\ NewEnd(fl).sw = Credit /\ NewEnd(fl).rw = Credit /\ NewEnd(fl).buf = 0
BY MuxAssumption DEF NewEnd, NoEnd, EndStates, StreamStates

LEMMA MuxStarts == Init => MuxInv
<1> SUFFICES ASSUME Init PROVE MuxInv
  OBVIOUS
<1>1. NoEnd \in EndStates
  BY DEF NoEnd, EndStates, StreamStates
<1>2. MuxShape
  BY <1>1, MuxAssumption DEF Init, MuxShape
<1>3. Members
  BY DEF Init, Members, MemberAt, Present, NoEnd
<1>4. ASSUME NEW i \in Streams PROVE Announced(i) /\ LedgerAt(i)
  <2>1. /\ chan["client"][i] = <<>> /\ data["client"] = <<>> /\ wire["client"] = <<>>
        /\ ep["client"][i] = NoEnd /\ ep["server"][i] = NoEnd
    BY SideFacts DEF Init
  <2>2. NoEnd.handle = "none" /\ NoEnd.flag = {}
    BY DEF NoEnd
  <2>3. Owed(i) = 0 /\ InChan(i) = 0 /\ InData(i) = 0 /\ InWire(i) = 0 /\ Met(i) = 0 /\ UnderWay(i) = 0
    BY <2>1, <2>2, SumEmpty DEF Owed, InChan, InData, InWire, Met, UnderWay
  <2>4. Announced(i)
    BY <2>1, <2>3, LeadEmpty DEF Announced
  <2>5. \A p \in Sides, k \in Kinds : InFlight(p, k, i) = 0
    BY SumEmpty DEF Init, InFlight
  <2>6. Unmet(i)
    BY <2>1, <2>2, <2>3, <2>5, SideFacts DEF Unmet, Kinds
  <2>7. \A p \in Sides : Balanced(p, i) /\ Fits(p, i)
    BY SideFacts DEF Balanced, Fits, Init
  <2> QED
    BY <2>4, <2>5, <2>6, <2>7, SideFacts DEF LedgerAt, Kinds
<1> QED
  BY <1>2, <1>3, <1>4 DEF MuxInv, SynOnce, Ledger

-----------------------------------------------------------------------------
(* A turn of a stream's user: its end becomes e, and at most one command   *)
(* is queued, which carries what the windows lost or gained and the        *)
(* announcement if it was owed.                                            *)
Silent(p, i, e) ==
  /\ chan' = chan /\ e.sw = ep[p][i].sw /\ e.rw = ep[p][i].rw
  /\ "SYN" \in e.flag <=> "SYN" \in ep[p][i].flag
(* The credit of a window update is all that was taken out of the buffer,  *)
(* once that is half of the window.                                        *)
Due(p, i, e, b) ==
  b > 0 => /\ Credit - ep[p][i].rw >= e.buf /\ b = (Credit - ep[p][i].rw) - e.buf
           /\ b >= Credit \div 2
Saying(p, i, e, f) ==
  /\ f \in Commands(p, i) /\ HasRoom(p, i) /\ Push(p, i, f) /\ i \in known[p]
  /\ ep[p][i].sw = e.sw + Part(f, "data", i) /\ e.rw = ep[p][i].rw + Part(f, "wu", i)
  /\ ep[p][i].rw = Credit /\ ep[p][i].buf = 0 => Part(f, "wu", i) = 0
  /\ Due(p, i, e, Part(f, "wu", i)) /\ (Part(f, "data", i) > 0 => e.buf = ep[p][i].buf)
  /\ "SYN" \notin e.flag /\ Syn(f, i) = IF "SYN" \in ep[p][i].flag THEN 1 ELSE 0
Turn(p, i, e) ==
  /\ e \in EndStates /\ ep' = [ep EXCEPT ![p][i] = e]
  /\ UNCHANGED <<conn, known, ctrl, data, reply, wire>>
  /\ Present(p, i) /\ e.handle \in {"held", "dropped"} /\ e.buf <= ep[p][i].buf
  /\ ep[p][i].st = "closed" => e.st = "closed"
  /\ Silent(p, i, e) \/ \E f \in Frames : Saying(p, i, e, f)

LEMMA PutEnd ==
  ASSUME MuxShape, NEW p \in Sides, NEW i \in Streams, NEW e, ep' = [ep EXCEPT ![p][i] = e]
  PROVE  /\ ep'[p][i] = e
         /\ \A q \in Sides, j \in Streams : q # p \/ j # i => ep'[q][j] = ep[q][j]
BY DEF MuxShape

LEMMA PushChan ==
  ASSUME MuxShape, NEW p \in Sides, NEW i \in Streams, NEW f, Push(p, i, f)
  PROVE  /\ chan'[p][i] = Append(chan[p][i], f)
         /\ \A q \in Sides, j \in Streams : q # p \/ j # i => chan'[q][j] = chan[q][j]
BY DEF MuxShape, Push

LEMMA TurnShape ==
  ASSUME MuxShape, NEW p \in Sides, NEW i \in Streams, NEW e, Turn(p, i, e)
  PROVE  MuxShape'
<1>1. ep' \in [Sides -> [Streams -> EndStates]]
  BY DEF MuxShape, Turn
<1>2. CASE chan' = chan
  BY <1>1, <1>2 DEF MuxShape, Turn
<1>3. ASSUME NEW f \in Frames, Saying(p, i, e, f) PROVE MuxShape'
  <2>1. /\ chan'[p][i] = Append(chan[p][i], f)
        /\ \A q \in Sides, j \in Streams : q # p \/ j # i => chan'[q][j] = chan[q][j]
    BY <1>3, PushChan DEF Saying
  <2>2. f \in Commands(p, i) /\ Len(chan[p][i]) < ChanCap
    BY <1>3 DEF Saying, HasRoom
  <2>3. chan[p][i] \in Seq(Commands(p, i)) /\ chan[p][i] \in Seq(Frames)
    BY ShapeQueues
  <2>4. Append(chan[p][i], f) \in Seq(Commands(p, i)) /\ Append(chan[p][i], f) \in Seq(Frames)
        /\ Len(Append(chan[p][i], f)) = Len(chan[p][i]) + 1
    BY <2>2, <2>3, Longer
  <2>5. Len(chan'[p][i]) <= ChanCap
    BY <2>1, <2>2, <2>3, <2>4, MuxAssumption
  <2>6. \A q \in Sides, j \in Streams : /\ chan'[q][j] \in Seq(Frames) /\ chan'[q][j] \in Seq(Commands(q, j))
                                        /\ Len(chan'[q][j]) <= ChanCap
    <3>1. chan'[p][i] \in Seq(Frames) /\ chan'[p][i] \in Seq(Commands(p, i)) /\ Len(chan'[p][i]) <= ChanCap
      BY <2>1, <2>4, <2>5
    <3>2. \A q \in Sides, j \in Streams : /\ chan[q][j] \in Seq(Frames) /\ chan[q][j] \in Seq(Commands(q, j))
                                          /\ Len(chan[q][j]) <= ChanCap
      BY DEF MuxShape
    <3> QED
      BY <2>1, <3>1, <3>2
  <2>7. chan' \in [Sides -> [Streams -> Seq(Frames)]]
    <3>1. chan' = [chan EXCEPT ![p][i] = Append(chan[p][i], f)]
      BY <1>3 DEF Saying, Push
    <3> QED
      BY <3>1, <2>4 DEF MuxShape
  <2> QED
    BY <1>1, <2>6, <2>7 DEF MuxShape, Turn
<1> QED
  BY <1>2, <1>3 DEF Turn, Silent

(* What a turn adds to the flight of its stream.                           *)
LEMMA TurnFlight ==
  ASSUME MuxShape, NEW p \in Sides, NEW i \in Streams, NEW e, Turn(p, i, e)
  PROVE  /\ \A q \in Sides, j \in Streams, k \in Kinds : q # p \/ j # i => InFlight(q, k, j)' = InFlight(q, k, j)
         /\ \A j \in Streams : j # i \/ p # "client" => /\ chan'["client"][j] = chan["client"][j]
                                                        /\ InChan(j)' = InChan(j)
         /\ Silent(p, i, e) => \A k \in Kinds : InFlight(p, k, i)' = InFlight(p, k, i)
         /\ \A f \in Frames : Saying(p, i, e, f) =>
              /\ \A k \in Kinds : InFlight(p, k, i)' = InFlight(p, k, i) + Part(f, k, i)
              /\ p = "client" => InChan(i)' = InChan(i) + Syn(f, i)
<1>1. UNCHANGED <<ctrl, data, wire>>
  BY DEF Turn
<1>2. \A q \in Sides, j \in Streams : q # p \/ j # i => chan'[q][j] = chan[q][j]
  BY PushChan DEF Turn, Silent, Saying
<1>3. \A q \in Sides, j \in Streams, k \in Kinds : q # p \/ j # i => InFlight(q, k, j)' = InFlight(q, k, j)
  BY <1>1, <1>2 DEF InFlight
<1>4. \A j \in Streams : j # i \/ p # "client" => chan'["client"][j] = chan["client"][j] /\ InChan(j)' = InChan(j)
  BY <1>2, SideFacts DEF InChan
<1>5. Silent(p, i, e) => \A k \in Kinds : InFlight(p, k, i)' = InFlight(p, k, i)
  BY <1>1 DEF Silent, InFlight
<1>6. ASSUME NEW f \in Frames, Saying(p, i, e, f)
      PROVE  /\ \A k \in Kinds : InFlight(p, k, i)' = InFlight(p, k, i) + Part(f, k, i)
             /\ p = "client" => InChan(i)' = InChan(i) + Syn(f, i)
  <2>1. chan'[p][i] = Append(chan[p][i], f) /\ chan[p][i] \in Seq(Frames)
    BY <1>6, PushChan, ShapeQueues DEF Saying
  <2>2. \A k \in Kinds : Sum(chan'[p][i], k, i) = Sum(chan[p][i], k, i) + Part(f, k, i)
    BY <2>1, SumAppend
  <2>3. \A k \in Kinds : /\ {Sum(chan[p][i], k, i), Sum(ctrl[p], k, i), Sum(data[p], k, i), Sum(wire[p], k, i)} \subseteq Nat
                         /\ Part(f, k, i) \in Nat
    BY FlightNat, PartIsNat
  <2>4. \A k \in Kinds : InFlight(p, k, i)' = Sum(chan'[p][i], k, i) + Sum(ctrl[p], k, i) + Sum(data[p], k, i) + Sum(wire[p], k, i)
    BY <1>1 DEF InFlight
  <2>5. \A k \in Kinds : InFlight(p, k, i)' = InFlight(p, k, i) + Part(f, k, i)
    BY <2>2, <2>3, <2>4 DEF InFlight
  <2>6. p = "client" => InChan(i)' = InChan(i) + Syn(f, i)
    BY <2>1, SumAppend DEF InChan
  <2> QED
    BY <2>5, <2>6
<1> QED
  BY <1>3, <1>4, <1>5, <1>6

(* The numbers of a turn: a bytes of payload and b of credit leave.        *)
Exchange(p, i, e, a, b) ==
  /\ ep[p][i].sw = e.sw + a /\ e.rw = ep[p][i].rw + b
  /\ InFlight(p, "data", i)' = InFlight(p, "data", i) + a
  /\ InFlight(p, "wu", i)' = InFlight(p, "wu", i) + b
  /\ a > 0 => i \in known[p] /\ b = 0 /\ e.buf = ep[p][i].buf
  /\ Due(p, i, e, b)
  /\ ep[p][i].rw = Credit /\ ep[p][i].buf = 0 => b = 0

LEMMA TurnNumbers ==
  ASSUME MuxShape, NEW p \in Sides, NEW i \in Streams, NEW e, Turn(p, i, e)
  PROVE  \E a, b \in Nat : Exchange(p, i, e, a, b)
<1>1. "data" \in Kinds /\ "wu" \in Kinds
  BY DEF Kinds
<1>2. /\ {ep[p][i].sw, ep[p][i].rw, ep[p][i].buf} \subseteq Nat /\ {e.sw, e.rw, e.buf} \subseteq Nat
      /\ InFlight(p, "data", i) \in Nat /\ InFlight(p, "wu", i) \in Nat
  BY EndFacts, FlightNat DEF Turn, EndStates
<1>3. CASE Silent(p, i, e)
  <2>1. InFlight(p, "data", i)' = InFlight(p, "data", i) /\ InFlight(p, "wu", i)' = InFlight(p, "wu", i)
    BY <1>1, <1>3, TurnFlight
  <2>2. Exchange(p, i, e, 0, 0)
    BY <1>2, <1>3, <2>1 DEF Exchange, Silent, Due
  <2> QED
    BY <2>2
<1>4. ASSUME NEW f \in Frames, Saying(p, i, e, f)
      PROVE  \E a, b \in Nat : Exchange(p, i, e, a, b)
  <2>1. InFlight(p, "data", i)' = InFlight(p, "data", i) + Part(f, "data", i)
        /\ InFlight(p, "wu", i)' = InFlight(p, "wu", i) + Part(f, "wu", i)
    BY <1>1, <1>4, TurnFlight
  <2>2. Part(f, "data", i) \in Nat /\ Part(f, "wu", i) \in Nat
    BY PartIsNat
  <2>3. Part(f, "data", i) > 0 => Part(f, "wu", i) = 0
    BY DEF Part
  <2>4. Exchange(p, i, e, Part(f, "data", i), Part(f, "wu", i))
    BY <1>2, <1>4, <2>1, <2>3 DEF Exchange, Saying
  <2> QED
    BY <2>2, <2>4
<1> QED
  BY <1>3, <1>4 DEF Turn

LEMMA TurnEnds ==
  ASSUME MuxShape, NEW p \in Sides, NEW i \in Streams, NEW e, Turn(p, i, e)
  PROVE  /\ ep'[p][i] = e /\ \A q \in Sides, j \in Streams : q # p \/ j # i => ep'[q][j] = ep[q][j]
         /\ known' = known /\ data' = data /\ wire' = wire
         /\ \A j \in Streams : Met(j)' = Met(j) /\ UnderWay(j)' = UnderWay(j)
         /\ \A j \in Streams : Owed(j)' + InChan(j)' = Owed(j) + InChan(j) /\ Owed(j)' <= Owed(j)
<1>1. /\ ep'[p][i] = e /\ \A q \in Sides, j \in Streams : q # p \/ j # i => ep'[q][j] = ep[q][j]
  BY PutEnd DEF Turn
<1>2. known' = known /\ data' = data /\ wire' = wire
  BY DEF Turn
<1>3. Present(p, i) /\ e.handle \in {"held", "dropped"}
  BY DEF Turn
<1>4. ASSUME NEW j \in Streams PROVE Met(j)' = Met(j)
  BY <1>1, <1>3, SideFacts DEF Met, Present
<1>5. ASSUME NEW j \in Streams
      PROVE  Owed(j)' + InChan(j)' = Owed(j) + InChan(j) /\ Owed(j)' <= Owed(j)
  <2>1. CASE j # i \/ p # "client"
    <3>1. Owed(j)' = Owed(j) /\ Owed(j) \in Nat
      BY <2>1, <1>1, SideFacts DEF Owed
    <3>2. InChan(j)' = InChan(j)
      BY <2>1, TurnFlight
    <3> QED
      BY <3>1, <3>2
  <2>2. CASE j = i /\ p = "client"
    <3>1. Owed(i)' = IF "SYN" \in e.flag THEN 1 ELSE 0
      BY <2>2, <1>1 DEF Owed
    <3>2. CASE Silent(p, i, e)
      BY <3>1, <3>2, <2>2 DEF Silent, Owed, InChan
    <3>3. ASSUME NEW f \in Frames, Saying(p, i, e, f)
          PROVE  Owed(i)' + InChan(i)' = Owed(i) + InChan(i) /\ Owed(i)' <= Owed(i)
      <4>1. InChan(i)' = InChan(i) + Syn(f, i) /\ InChan(i) \in Nat
        BY <3>3, <2>2, TurnFlight, SynNat
      <4>2. Owed(i)' = 0 /\ Syn(f, i) = Owed(i) /\ Owed(i) \in Nat
        BY <3>1, <3>3, <2>2 DEF Saying, Owed
      <4> QED
        BY <4>1, <4>2
    <3> QED
      BY <2>2, <3>2, <3>3 DEF Turn
  <2> QED
    BY <2>1, <2>2
<1>6. ASSUME NEW j \in Streams PROVE UnderWay(j)' = UnderWay(j)
  <2>1. InData(j)' = InData(j) /\ InWire(j)' = InWire(j)
    BY <1>2 DEF InData, InWire
  <2>2. UnderWay(j)' = Owed(j)' + InChan(j)' + InData(j)' + InWire(j)'
    BY DEF UnderWay
  <2>3. MuxShape'
    BY TurnShape
  <2>4. Owed(j)' \in Nat /\ InChan(j)' \in Nat
    <3>1. chan'["client"][j] \in Seq(Frames)
      BY <2>3, SideFacts DEF MuxShape
    <3> QED
      BY <3>1, SumNat DEF Owed, InChan
  <2> QED
    BY <2>1, <2>2, <2>4, <1>5, SynNat
<1> QED
  BY <1>1, <1>2, <1>4, <1>5, <1>6

LEMMA TurnMembers ==
  ASSUME MuxShape, Members, NEW p \in Sides, NEW i \in Streams, NEW e, Turn(p, i, e)
  PROVE  Members'
<1>1. conn' = conn /\ known' = known
  BY DEF Turn
<1>2. ASSUME NEW q \in Sides, NEW j \in Streams, q # p \/ j # i PROVE MemberAt(q, j)'
  <2>1. ep'[q][j] = ep[q][j]
    BY <1>2, TurnEnds
  <2> QED
    BY <2>1, <1>1 DEF Members, MemberAt, Present
<1>3. MemberAt(p, i)'
  <2>1. ep'[p][i] = e
    BY TurnEnds
  <2>2. MemberAt(p, i)
    BY DEF Members
  <2>3. "SYN" \in e.flag => "SYN" \in ep[p][i].flag
    BY DEF Turn, Silent, Saying
  <2>4. e.handle \in {"held", "dropped"} /\ e.handle # "none" /\ Present(p, i) /\ (ep[p][i].st = "closed" => e.st = "closed")
    BY DEF Turn
  <2> QED
    BY <2>1, <2>2, <2>3, <2>4, <1>1 DEF MemberAt, Present
<1> QED
  BY <1>2, <1>3 DEF Members

LEMMA TurnSyn ==
  ASSUME MuxShape, SynOnce, NEW p \in Sides, NEW i \in Streams, NEW e, Turn(p, i, e)
  PROVE  SynOnce'
<1> SUFFICES ASSUME NEW j \in Streams PROVE Announced(j)'
  BY DEF SynOnce
<1>1. Announced(j)
  BY DEF SynOnce
<1>2. /\ data' = data /\ wire' = wire /\ Met(j)' = Met(j) /\ UnderWay(j)' = UnderWay(j)
      /\ Owed(j)' + InChan(j)' = Owed(j) + InChan(j) /\ Owed(j)' <= Owed(j)
      /\ InData(j)' = InData(j)
  BY TurnEnds DEF InData
<1>3. ep'["client"][j].handle = "none" => ep["client"][j].handle = "none"
  <2>1. CASE j = i /\ p = "client"
    BY <2>1, TurnEnds DEF Turn
  <2>2. CASE ~(j = i /\ p = "client")
    BY <2>2, TurnEnds, SideFacts
  <2> QED
    BY <2>1, <2>2
<1>4. Lead(chan["client"][j], j)' /\ (Owed(j)' > 0 => Sum(chan'["client"][j], "data", j) = 0)
  <2>1. CASE j # i \/ p # "client"
    <3>1. chan'["client"][j] = chan["client"][j]
      BY <2>1, TurnFlight
    <3>2. Owed(j)' = Owed(j)
      BY <2>1, TurnEnds, SideFacts DEF Owed
    <3> QED
      BY <3>1, <3>2, <1>1 DEF Announced
  <2>2. CASE j = i /\ p = "client" /\ Silent(p, i, e)
    <3>1. chan' = chan /\ (Owed(j)' > 0 => Owed(j) > 0)
      BY <2>2, <1>2, SynNat DEF Silent, Owed
    <3> QED
      BY <3>1, <1>1 DEF Announced
  <2>3. ASSUME j = i, p = "client", NEW f \in Frames, Saying(p, i, e, f)
        PROVE  Lead(chan["client"][j], j)' /\ (Owed(j)' > 0 => Sum(chan'["client"][j], "data", j) = 0)
    <3>1. chan'["client"][j] = Append(chan["client"][j], f) /\ chan["client"][j] \in Seq(Frames)
      BY <2>3, PushChan, ShapeQueues DEF Saying
    <3>2. Owed(j)' = 0
      BY <2>3, TurnEnds DEF Saying, Owed
    <3>3. f.id = j /\ "SYN" \in f.fl => Sum(chan["client"][j], "data", j) = 0
      <4>1. f.id = j /\ "SYN" \in f.fl => Owed(j) = 1
        BY <2>3 DEF Saying, Syn, Owed
      <4> QED
        BY <4>1, <1>1 DEF Announced
    <3>4. Lead(Append(chan["client"][j], f), j)
      BY <3>1, <3>3, <1>1, LeadAppend DEF Announced
    <3> QED
      BY <3>1, <3>2, <3>4
  <2> QED
    BY <2>1, <2>2, <2>3 DEF Turn
<1>5. UnderWay(j)' + Met(j)' <= 1 /\ (ep'["client"][j].handle = "none" => UnderWay(j)' + Met(j)' = 0)
  BY <1>1, <1>2, <1>3 DEF Announced
<1>6. Lead(data["client"], j)' /\ Lead(wire["client"], j)'
  BY <1>1, <1>2 DEF Announced
<1>7. Owed(j)' + InChan(j)' > 0 => Sum(data'["client"], "data", j) = 0
  BY <1>1, <1>2 DEF Announced
<1>8. Owed(j)' + InChan(j)' + InData(j)' > 0 => Sum(wire'["client"], "data", j) = 0
  BY <1>1, <1>2 DEF Announced
<1> QED
  BY <1>4, <1>5, <1>6, <1>7, <1>8 DEF Announced

LEMMA TurnLedger ==
  ASSUME MuxShape, Ledger, NEW p \in Sides, NEW i \in Streams, NEW e, Turn(p, i, e)
  PROVE  Ledger'
<1>1. ASSUME NEW j \in Streams, j # i PROVE LedgerAt(j)'
  <2>1. Alike(j)
    BY <1>1, TurnEnds, TurnFlight DEF Alike
  <2> QED
    BY <2>1, LedgerStays DEF Ledger
<1>2. LedgerAt(i)'
  <2> DEFINE q == Peer(p)
  <2>1. PICK a, b \in Nat : Exchange(p, i, e, a, b)
    BY TurnNumbers
  <2>2. q \in Sides /\ q # p /\ Peer(q) = p /\ \A r \in Sides : r = p \/ r = q
    BY SideFacts
  <2>3. LedgerAt(i)
    BY DEF Ledger
  <2>4. ep'[p][i] = e /\ ep'[q][i] = ep[q][i] /\ known' = known /\ UnderWay(i)' = UnderWay(i)
    BY <2>2, TurnEnds
  <2>5. InFlight(q, "data", i)' = InFlight(q, "data", i) /\ InFlight(q, "wu", i)' = InFlight(q, "wu", i)
    BY <2>2, TurnFlight DEF Kinds
  <2>6. /\ {ep[p][i].sw, ep[p][i].rw, ep[p][i].buf, ep[q][i].sw, ep[q][i].rw} \subseteq Nat
        /\ {e.sw, e.rw, e.buf} \subseteq Nat /\ e.buf <= ep[p][i].buf
        /\ {InFlight(p, "data", i), InFlight(p, "wu", i), InFlight(q, "data", i), InFlight(q, "wu", i)} \subseteq Nat
    BY <2>2, EndFacts, FlightNat DEF Turn, EndStates
  <2>7. Present(p, i) /\ e.handle # "none"
    BY DEF Turn
  <2> HIDE DEF q
  <2>8. Balanced(p, i)' /\ Fits(p, i)'
    <3>1. Balanced(p, i) /\ Fits(p, i)
      BY <2>3 DEF LedgerAt
    <3>2. Balanced(p, i)'
      BY <3>1, <2>1, <2>4, <2>5, <2>6 DEF Balanced, Exchange, q
    <3>3. Fits(p, i)'
      BY <3>1, <2>1, <2>4, <2>5, <2>6 DEF Balanced, Fits, Exchange, q
    <3> QED
      BY <3>2, <3>3
  <2>9. Balanced(q, i)' /\ Fits(q, i)'
    <3>1. Balanced(q, i) /\ Fits(q, i)
      BY <2>2, <2>3 DEF LedgerAt
    <3> QED
      BY <3>1, <2>1, <2>2, <2>4, <2>5, <2>6 DEF Balanced, Fits, Exchange
  <2>10. ep'["server"][i].handle = "none" => Unmet(i)'
    <3> SUFFICES ASSUME ep'["server"][i].handle = "none" PROVE Unmet(i)'
      OBVIOUS
    <3>1. p = "client" /\ q = "server" /\ ep["server"][i].handle = "none"
      BY <2>2, <2>4, <2>7, SideFacts
    <3>2. Unmet(i)
      BY <3>1, <2>3 DEF LedgerAt
    <3>3. ep["client"][i].handle # "none"
      BY <3>1, <2>7 DEF Present
    <3>4. b = 0 /\ e.buf = 0
      BY <3>1, <3>2, <3>3, <2>1, <2>6 DEF Unmet, Exchange
    <3>5. \A k \in Kinds : InFlight("server", k, i)' = 0
      BY <3>1, <3>2, <2>5 DEF Unmet, Kinds
    <3>6. e.sw + InFlight("client", "data", i)' = ep["client"][i].sw + InFlight("client", "data", i)
      BY <3>1, <2>1, <2>6 DEF Exchange
    <3>7. InFlight("client", "wu", i)' = 0 /\ e.rw = Credit
      BY <3>1, <3>2, <3>3, <3>4, <2>1, MuxAssumption DEF Unmet, Exchange
    <3> QED
      BY <3>1, <3>2, <3>3, <3>4, <3>5, <3>6, <3>7, <2>4 DEF Unmet
  <2>11. ep'["client"][i].handle = "none" => InFlight("client", "data", i)' = 0
    BY <2>2, <2>3, <2>4, <2>5, <2>7, SideFacts DEF LedgerAt
  <2> QED
    BY <2>2, <2>8, <2>9, <2>10, <2>11 DEF LedgerAt
<1> QED
  BY <1>1, <1>2 DEF Ledger

LEMMA TurnKeeps ==
  ASSUME MuxInv, NEW p \in Sides, NEW i \in Streams, NEW e, Turn(p, i, e)
  PROVE  MuxInv'
BY TurnShape, TurnMembers, TurnSyn, TurnLedger DEF MuxInv

-----------------------------------------------------------------------------
(* The steps of the users are turns.                                       *)

LEMMA FrameIs ==
  ASSUME NEW k, NEW i, NEW n, NEW fl
  PROVE  /\ Frame(k, i, n, fl).k = k /\ Frame(k, i, n, fl).id = i
         /\ Frame(k, i, n, fl).n = n /\ Frame(k, i, n, fl).fl = fl
BY DEF Frame

LEMMA FrameTyped ==
  ASSUME NEW k \in Kinds, NEW i \in Streams, NEW n \in Nat, NEW fl \in Flags
  PROVE  Frame(k, i, n, fl) \in Frames
BY DEF Frame, Frames, Kinds

LEMMA UpdateTyped ==
  ASSUME NEW s \in StreamStates, NEW t \in {"recvClosed", "sendClosed"}
  PROVE  UpdateState(s, t) \in StreamStates /\ (s = "closed" => UpdateState(s, t) = "closed")
BY DEF UpdateState, StreamStates

LEMMA PollWriteTurns ==
  ASSUME MuxInv, NEW p \in Sides, NEW i \in Streams, Held(p, i), NEW len \in Nat, PollWrite(p, i, len),
         "SYN" \in ep[p][i].flag => len = 0,
         UNCHANGED <<conn, known, ctrl, data, reply, wire>>
  PROVE  \E e : Turn(p, i, e)
<1> DEFINE d == ep[p][i]
           n == CHOOSE m \in {d.sw, len, Split} : m <= d.sw /\ m <= len /\ m <= Split
           f == Frame("data", i, n, d.flag)
           x == d.acked \/ (d.st = "open" /\ "ACK" \in d.flag)
           e == [d EXCEPT !.sw = d.sw - n, !.wrote = d.wrote + n, !.flag = {}, !.acked = x]
<1>1. d \in EndStates /\ MuxShape /\ MemberAt(p, i)
  BY EndFacts DEF MuxInv, Members
<1>2. d.sw \in Nat /\ d.wrote \in Nat /\ d.rw \in Nat /\ d.buf \in Nat /\ d.acked \in BOOLEAN /\ d.flag \in {{}, {"SYN"}, {"ACK"}}
      /\ Split \in Nat
  BY <1>1, MuxAssumption DEF EndStates
<1>3. n \in Nat /\ n <= d.sw /\ n <= len
  <2>1. \E m \in {d.sw, len, Split} : m <= d.sw /\ m <= len /\ m <= Split
    BY <1>2
  <2>2. n \in {d.sw, len, Split} /\ n <= d.sw /\ n <= len
    BY <2>1
  <2> QED
    BY <2>2, <1>2
<1>4. HasRoom(p, i) /\ CanWrite(d.st) /\ ep' = [ep EXCEPT ![p][i] = e] /\ Push(p, i, f)
  BY DEF PollWrite, ConsumeSendWindow
<1>13. x \in BOOLEAN
  OBVIOUS
<1> HIDE DEF x, n
<1>14. d.sw - n \in Nat /\ d.wrote + n \in Nat
  BY <1>2, <1>3
<1>15. e = [d EXCEPT !.sw = d.sw - n, !.wrote = d.wrote + n, !.flag = {}, !.acked = x]
  OBVIOUS
<1> HIDE DEF e
<1>5. e \in EndStates /\ e.sw = d.sw - n /\ e.rw = d.rw /\ e.buf = d.buf /\ e.handle = d.handle /\ e.st = d.st /\ e.flag = {}
  <2> DEFINE a == d.sw - n
             w == d.wrote + n
  <2>1. d \in EndStates /\ a \in Nat /\ w \in Nat /\ x \in BOOLEAN
    BY <1>1, <1>13, <1>14
  <2>2. e = [d EXCEPT !.sw = a, !.wrote = w, !.flag = {}, !.acked = x]
    BY <1>15
  <2>3. /\ e \in EndStates /\ e.sw = a /\ e.rw = d.rw /\ e.buf = d.buf /\ e.handle = d.handle /\ e.st = d.st
        /\ e.flag = {}
    <3> HIDE DEF a, w, d
    <3> QED
      BY <2>1, <2>2 DEF EndStates
  <2> QED
    BY <2>3
<1>6. d.flag \in Flags /\ f \in Frames
  BY <1>2, <1>3, FrameTyped DEF Flags, Kinds
<1>7. f.k = "data" /\ f.id = i /\ f.n = n /\ f.fl = d.flag
  BY FrameIs
<1> HIDE DEF f
<1>8. f \in Commands(p, i)
  <2>1. "SYN" \in d.flag => p = "client" /\ n = 0 /\ d.flag = {"SYN"}
    BY <1>1, <1>2, <1>3 DEF MemberAt
  <2>2. "FIN" \notin d.flag /\ "RST" \notin d.flag
    BY <1>2
  <2> QED
    BY <2>1, <2>2, <1>6, <1>7 DEF Commands, Sendable
<1>9. i \in known[p] /\ Present(p, i) /\ d.handle = "held"
  BY <1>1, <1>4 DEF Held, Present, MemberAt, CanWrite
<1>10. Part(f, "data", i) = n /\ Part(f, "wu", i) = 0 /\ Syn(f, i) = IF "SYN" \in d.flag THEN 1 ELSE 0
  BY <1>7 DEF Part, Syn
<1>11. Saying(p, i, e, f)
  <2>1. Due(p, i, e, Part(f, "wu", i))
    BY <1>10 DEF Due
  <2> QED
    BY <2>1, <1>2, <1>3, <1>4, <1>5, <1>8, <1>9, <1>10 DEF Saying
<1>12. Turn(p, i, e)
  BY <1>2, <1>4, <1>5, <1>6, <1>9, <1>11 DEF Turn
<1> QED
  BY <1>12

LEMMA WriteTurns ==
  ASSUME MuxInv, NEW p \in Sides, NEW i \in Streams, Write(p, i)
  PROVE  \E e : Turn(p, i, e)
<1>1. PICK len \in 1..(MaxBytes[p] - ep[p][i].wrote) : PollWrite(p, i, len)
  BY DEF Write
<1>2. MaxBytes[p] \in Nat /\ ep[p][i].wrote \in Nat
  BY MuxAssumption, EndFacts DEF MuxInv, EndStates
<1>3. len \in Nat
  BY <1>2
<1> QED
  BY <1>1, <1>3, PollWriteTurns DEF Write

LEMMA AnnounceTurns ==
  ASSUME MuxInv, NEW i \in Streams, SynAnnounce(i)
  PROVE  \E e : Turn("client", i, e)
<1>1. "client" \in Sides /\ 0 \in Nat
  BY SideFacts
<1> QED
  BY <1>1, PollWriteTurns DEF SynAnnounce

LEMMA CreditDue ==
  ASSUME NEW e \in EndStates
  PROVE  /\ WindowUpdate(e) \in Nat
         /\ e.rw = Credit /\ e.buf = 0 => WindowUpdate(e) = 0
BY MuxAssumption DEF WindowUpdate, EndStates

(* A user's end d with its bytes moved or its look at the state recorded,  *)
(* and the credit that may follow.                                         *)
LEMMA GrantTurns ==
  ASSUME MuxInv, NEW p \in Sides, NEW i \in Streams, MayRead(p, i), NEW d \in EndStates, GrantCredit(p, i, d),
         d.sw = ep[p][i].sw, d.rw = ep[p][i].rw, d.buf <= ep[p][i].buf, d.handle = ep[p][i].handle,
         d.st = ep[p][i].st, d.flag = ep[p][i].flag,
         UNCHANGED <<conn, known, ctrl, data, reply, wire>>
  PROVE  \E e : Turn(p, i, e)
<1> DEFINE credit == IF CanRead(d.st) /\ HasRoom(p, i) THEN WindowUpdate(d) ELSE 0
           e == [d EXCEPT !.rw = d.rw + credit, !.flag = {}]
           f == Frame("wu", i, credit, d.flag)
<1>1. ep[p][i] \in EndStates /\ MuxShape /\ MemberAt(p, i) /\ ep[p][i].handle = "held" /\ "SYN" \notin ep[p][i].flag
  BY EndFacts DEF MuxInv, Members, MayRead, Held
<1>2. Present(p, i)
  BY <1>1 DEF Present
<1>3. credit \in Nat /\ (credit > 0 => CanRead(d.st) /\ HasRoom(p, i) /\ credit = WindowUpdate(d))
  BY CreditDue
<1>4. CASE credit = 0
  <2>1. ep' = [ep EXCEPT ![p][i] = d] /\ chan' = chan
    BY <1>4 DEF GrantCredit
  <2>2. Turn(p, i, d)
    BY <2>1, <1>1, <1>2 DEF Turn, Silent
  <2> QED
    BY <2>2
<1>5. CASE credit > 0
  <2>1. ep' = [ep EXCEPT ![p][i] = e] /\ Push(p, i, f)
    BY <1>5 DEF GrantCredit
  <2>2. i \in known[p]
    BY <1>1, <1>2, <1>3, <1>5 DEF MemberAt, CanRead
  <2>3. HasRoom(p, i) /\ (ep[p][i].rw = Credit /\ ep[p][i].buf = 0 => credit = 0)
    <3>1. {ep[p][i].buf, d.buf} \subseteq Nat
      BY <1>1 DEF EndStates
    <3> QED
      BY <3>1, <1>3, <1>5, CreditDue
  <2>12. Credit - d.rw >= d.buf /\ credit = (Credit - d.rw) - d.buf /\ credit >= Credit \div 2
    <3>1. credit = WindowUpdate(d)
      BY <1>3, <1>5
    <3> HIDE DEF credit
    <3> QED
      BY <3>1, <1>5 DEF WindowUpdate
  <2> HIDE DEF credit
  <2>4. d.flag \in Flags /\ d.flag \in {{}, {"ACK"}} /\ f \in Frames
    <3>1. d.flag \in {{}, {"ACK"}}
      BY <1>1 DEF EndStates
    <3> QED
      BY <3>1, <1>3, FrameTyped DEF Flags, Kinds
  <2>5. f.k = "wu" /\ f.id = i /\ f.n = credit /\ f.fl = d.flag
    BY FrameIs
  <2> HIDE DEF f
  <2>6. f \in Commands(p, i)
    BY <2>4, <2>5 DEF Commands, Sendable
  <2>7. Part(f, "wu", i) = credit /\ Part(f, "data", i) = 0 /\ Syn(f, i) = 0
    BY <2>4, <2>5 DEF Part, Syn
  <2>8. /\ e \in EndStates /\ e.sw = d.sw /\ e.rw = d.rw + credit /\ e.buf = d.buf /\ e.handle = d.handle
        /\ e.st = d.st /\ e.flag = {}
    <3> DEFINE a == d.rw + credit
    <3>1. a \in Nat
      BY <1>3 DEF EndStates
    <3>2. e = [d EXCEPT !.rw = a, !.flag = {}]
      OBVIOUS
    <3> HIDE DEF a, e
    <3>3. /\ e \in EndStates /\ e.sw = d.sw /\ e.rw = a /\ e.buf = d.buf /\ e.handle = d.handle
          /\ e.st = d.st /\ e.flag = {}
      BY <3>1, <3>2 DEF EndStates
    <3> QED
      BY <3>3 DEF a
  <2> HIDE DEF e
  <2>9. d.sw \in Nat
    BY DEF EndStates
  <2>13. Due(p, i, e, Part(f, "wu", i))
    BY <2>7, <2>8, <2>12 DEF Due
  <2>10. Saying(p, i, e, f)
    BY <1>1, <2>1, <2>2, <2>3, <2>6, <2>7, <2>8, <2>9, <2>13 DEF Saying
  <2>11. Turn(p, i, e)
    BY <1>1, <1>2, <2>1, <2>4, <2>8, <2>10 DEF Turn
  <2> QED
    BY <2>11
<1> QED
  BY <1>3, <1>4, <1>5

LEMMA ReadTurns ==
  ASSUME MuxInv, NEW p \in Sides, NEW i \in Streams, PollRead(p, i) \/ PollReadDry(p, i)
  PROVE  \E e : Turn(p, i, e)
<1> DEFINE d == ep[p][i]
<1>1. d \in EndStates
  BY EndFacts DEF MuxInv
<1>2. CASE PollRead(p, i)
  <2>1. PICK k \in 1..d.buf : GrantCredit(p, i, [d EXCEPT !.buf = d.buf - k, !.got = d.got + k])
    BY <1>2 DEF PollRead
  <2> DEFINE a == d.buf - k
             b == d.got + k
             e == [d EXCEPT !.buf = a, !.got = b]
  <2>2. a \in Nat /\ b \in Nat /\ a <= d.buf
    BY <1>1 DEF EndStates
  <2>3. /\ e \in EndStates /\ e.sw = d.sw /\ e.rw = d.rw /\ e.buf = a /\ e.handle = d.handle
        /\ e.st = d.st /\ e.flag = d.flag
    <3> HIDE DEF a, b, d
    <3> QED
      BY <1>1, <2>2 DEF EndStates
  <2>4. GrantCredit(p, i, e)
    BY <2>1
  <2> HIDE DEF e
  <2> QED
    BY <1>2, <2>2, <2>3, <2>4, GrantTurns DEF PollRead
<1>3. CASE PollReadDry(p, i)
  <2> DEFINE e == [d EXCEPT !.dry = TRUE]
  <2>1. GrantCredit(p, i, e)
    BY <1>3 DEF PollReadDry
  <2>2. /\ e \in EndStates /\ e.sw = d.sw /\ e.rw = d.rw /\ e.buf = d.buf /\ e.handle = d.handle
        /\ e.st = d.st /\ e.flag = d.flag /\ d.buf \in Nat
    <3> HIDE DEF d
    <3> QED
      BY <1>1 DEF EndStates
  <2> HIDE DEF e
  <2> QED
    BY <1>3, <2>1, <2>2, GrantTurns DEF PollReadDry
<1> QED
  BY <1>2, <1>3

LEMMA SettleTurns ==
  ASSUME MuxInv, NEW p \in Sides, NEW i \in Streams, PollReadSettle(p, i) \/ DropStream(p, i)
  PROVE  \E e : Turn(p, i, e)
<1> DEFINE d == ep[p][i]
           x == ~CanRead(d.st)
<1>1. d \in EndStates /\ d.handle = "held" /\ Present(p, i) /\ d.buf \in Nat
  BY EndFacts DEF MuxInv, PollReadSettle, DropStream, Held, Present
<1>2. x \in BOOLEAN
  OBVIOUS
<1> HIDE DEF x
<1>3. CASE PollReadSettle(p, i)
  <2> DEFINE e == [d EXCEPT !.dry = FALSE, !.eof = x]
  <2>1. ep' = [ep EXCEPT ![p][i] = e] /\ chan' = chan /\ UNCHANGED <<conn, known, ctrl, data, reply, wire>>
    BY <1>3 DEF PollReadSettle, x
  <2>2. /\ e \in EndStates /\ e.sw = d.sw /\ e.rw = d.rw /\ e.buf = d.buf /\ e.handle = d.handle
        /\ e.st = d.st /\ e.flag = d.flag
    <3> HIDE DEF d
    <3> QED
      BY <1>1, <1>2 DEF EndStates
  <2> HIDE DEF e
  <2>3. Turn(p, i, e)
    BY <1>1, <2>1, <2>2 DEF Turn, Silent
  <2> QED
    BY <2>3
<1>4. CASE DropStream(p, i)
  <2> DEFINE e == [d EXCEPT !.handle = "dropped", !.dry = FALSE]
  <2>1. ep' = [ep EXCEPT ![p][i] = e] /\ chan' = chan /\ UNCHANGED <<conn, known, ctrl, data, reply, wire>>
    BY <1>4 DEF DropStream
  <2>2. /\ e \in EndStates /\ e.sw = d.sw /\ e.rw = d.rw /\ e.buf = d.buf /\ e.handle = "dropped"
        /\ e.st = d.st /\ e.flag = d.flag
    <3> HIDE DEF d
    <3> QED
      BY <1>1 DEF EndStates
  <2> HIDE DEF e
  <2>3. Turn(p, i, e)
    BY <1>1, <2>1, <2>2 DEF Turn, Silent
  <2> QED
    BY <2>3
<1> QED
  BY <1>3, <1>4

LEMMA ShutdownTurns ==
  ASSUME MuxInv, NEW p \in Sides, NEW i \in Streams, Shutdown(p, i)
  PROVE  \E e : Turn(p, i, e)
<1> DEFINE d == ep[p][i]
           fl == {"FIN"} \cup d.flag
           f == Frame("data", i, 0, fl)
           t == UpdateState(d.st, "sendClosed")
           e == [d EXCEPT !.st = t, !.flag = {}, !.finished = TRUE]
<1>1. /\ d \in EndStates /\ d.handle = "held" /\ Present(p, i) /\ d.buf \in Nat /\ d.st \in StreamStates
      /\ d.sw \in Nat /\ d.rw \in Nat /\ d.flag \in {{}, {"ACK"}} /\ MemberAt(p, i)
  BY EndFacts DEF MuxInv, Shutdown, Held, Present, EndStates, Members
<1>2. /\ ep' = [ep EXCEPT ![p][i] = e] /\ UNCHANGED <<conn, known, ctrl, data, reply, wire>>
      /\ HasRoom(p, i) /\ CanWrite(d.st) /\ Push(p, i, f)
  <2>1. ep' = [ep EXCEPT ![p][i] = e]
    BY DEF Shutdown
  <2>2. UNCHANGED <<conn, known, ctrl, data, reply, wire>> /\ HasRoom(p, i) /\ CanWrite(d.st)
    BY DEF Shutdown
  <2>3. Push(p, i, f)
    BY DEF Shutdown
  <2> QED
    BY <2>1, <2>2, <2>3
<1>3. t \in StreamStates /\ (d.st = "closed" => t = "closed")
  BY <1>1, UpdateTyped
<1> HIDE DEF t
<1>4. /\ e \in EndStates /\ e.sw = d.sw /\ e.rw = d.rw /\ e.buf = d.buf /\ e.handle = d.handle
      /\ e.st = t /\ e.flag = {}
  <2> HIDE DEF d
  <2> QED
    BY <1>1, <1>3 DEF EndStates
<1>5. fl \in Flags /\ "SYN" \notin fl
  BY <1>1 DEF Flags
<1> HIDE DEF fl, e
<1>6. f \in Frames
  BY <1>5, FrameTyped DEF Kinds
<1>7. f.k = "data" /\ f.id = i /\ f.n = 0 /\ f.fl = fl
  BY FrameIs
<1> HIDE DEF f
<1>8. f \in Commands(p, i) /\ Part(f, "data", i) = 0 /\ Part(f, "wu", i) = 0 /\ Syn(f, i) = 0
  BY <1>5, <1>6, <1>7 DEF Commands, Sendable, Part, Syn
<1>9. i \in known[p]
  BY <1>1, <1>2 DEF MemberAt, CanWrite
<1>10. Saying(p, i, e, f)
  <2>1. Due(p, i, e, Part(f, "wu", i))
    BY <1>8 DEF Due
  <2> QED
    BY <2>1, <1>1, <1>2, <1>4, <1>8, <1>9 DEF Saying
<1>11. Turn(p, i, e)
  BY <1>1, <1>2, <1>3, <1>4, <1>6, <1>10 DEF Turn
<1> QED
  BY <1>11

LEMMA UserKeeps ==
  ASSUME MuxInv, NEW p \in Sides, User(p)
  PROVE  MuxInv'
<1>1. PICK i \in Streams : \/ Write(p, i) \/ PollRead(p, i) \/ PollReadDry(p, i) \/ PollReadSettle(p, i)
                           \/ Shutdown(p, i) \/ DropStream(p, i)
  BY DEF User
<1>2. \E e : Turn(p, i, e)
  BY <1>1, WriteTurns, ReadTurns, SettleTurns, ShutdownTurns
<1> QED
  BY <1>2, TurnKeeps

-----------------------------------------------------------------------------
(* A stream is opened: nothing of its number has ever been seen.           *)
LEMMA OpenKeeps ==
  ASSUME MuxInv, NEW i \in Streams, OpenStream(i)
  PROVE  MuxInv'
<1> DEFINE e == NewEnd({"SYN"})
           c == "client"
           s == "server"
<1>1. /\ conn[c] = "active" /\ ep[c][i].handle = "none" /\ ep' = [ep EXCEPT ![c][i] = e]
      /\ known' = [known EXCEPT ![c] = @ \cup {i}]
      /\ conn' = conn /\ chan' = chan /\ ctrl' = ctrl /\ data' = data /\ reply' = reply /\ wire' = wire
  BY DEF OpenStream
<1>2. /\ e \in EndStates /\ e.handle = "held" /\ e.flag = {"SYN"} /\ e.sw = Credit /\ e.rw = Credit /\ e.buf = 0
  BY NewEndIs
<1> HIDE DEF e
<1>3. MuxShape /\ c \in Sides /\ s \in Sides
  BY SideFacts DEF MuxInv
<1>4. ep'[c][i] = e /\ \A q \in Sides, j \in Streams : q # c \/ j # i => ep'[q][j] = ep[q][j]
  <2>1. MuxShape /\ c \in Sides /\ ep' = [ep EXCEPT ![c][i] = e]
    BY <1>1, <1>3
  <2> HIDE DEF c
  <2> QED
    BY <2>1 DEF MuxShape
<1>5. known'[c] = known[c] \cup {i} /\ known'[s] = known[s] /\ known' \in [Sides -> SUBSET Streams]
  BY <1>1, <1>3, SideFacts DEF MuxShape
<1>6. MuxShape'
  <2>1. ep' \in [Sides -> [Streams -> EndStates]]
    BY <1>1, <1>2, <1>3 DEF MuxShape
  <2> QED
    BY <2>1, <1>1, <1>3, <1>5 DEF MuxShape
<1>7. \A q \in Sides, j \in Streams, k \in Kinds : InFlight(q, k, j)' = InFlight(q, k, j)
  BY <1>1 DEF InFlight
<1>8. \A j \in Streams : InChan(j)' = InChan(j) /\ InData(j)' = InData(j) /\ InWire(j)' = InWire(j)
  BY <1>1 DEF InChan, InData, InWire
<1>9. \A j \in Streams : Met(j)' = Met(j)
  BY <1>4, SideFacts DEF Met
<1>10. \A j \in Streams : j # i => Owed(j)' = Owed(j)
  BY <1>4, SideFacts DEF Owed
<1>11. UnderWay(i) + Met(i) = 0 /\ Announced(i)
  BY <1>1 DEF MuxInv, SynOnce, Announced
<1>12. Met(i) = 0 /\ InChan(i) = 0 /\ InData(i) = 0 /\ InWire(i) = 0
  <2>1. /\ Owed(i) \in Nat /\ InChan(i) \in Nat /\ InData(i) \in Nat /\ InWire(i) \in Nat /\ Met(i) \in Nat
        /\ UnderWay(i) = Owed(i) + InChan(i) + InData(i) + InWire(i)
    BY <1>3, SynNat
  <2>2. Owed(i) + InChan(i) + InData(i) + InWire(i) + Met(i) = 0
    BY <2>1, <1>11
  <2> DEFINE v == Owed(i)
             w == InChan(i)
             x == InData(i)
             y == InWire(i)
             z == Met(i)
  <2>3. v \in Nat /\ w \in Nat /\ x \in Nat /\ y \in Nat /\ z \in Nat /\ v + w + x + y + z = 0
    BY <2>1, <2>2
  <2> HIDE DEF v, w, x, y, z
  <2>4. w = 0 /\ x = 0 /\ y = 0 /\ z = 0
    BY <2>3
  <2> QED
    BY <2>4 DEF w, x, y, z
<1>13. ep[s][i].handle = "none"
  BY <1>12 DEF Met
<1>14. i \notin known[s] /\ i \notin known[c]
  BY <1>1, <1>3, <1>13 DEF MuxInv, Members, MemberAt, Present
<1>15. LedgerAt(i) /\ Unmet(i) /\ InFlight(c, "data", i) = 0
  BY <1>1, <1>13 DEF MuxInv, Ledger, LedgerAt
<1>16. Owed(i)' = 1
  BY <1>2, <1>4 DEF Owed
<1>17. Members'
  <2>1. ASSUME NEW q \in Sides, NEW j \in Streams PROVE MemberAt(q, j)'
    <3>1. MemberAt(q, j)
      BY DEF MuxInv, Members
    <3>2. CASE q = c /\ j = i
      BY <3>2, <1>1, <1>2, <1>4, <1>5 DEF MemberAt, Present
    <3>3. CASE q # c \/ j # i
      <4>1. ep'[q][j] = ep[q][j] /\ (j \in known'[q] <=> j \in known[q])
        BY <3>3, <1>4, <1>5, SideFacts
      <4> QED
        BY <4>1, <3>1, <1>1 DEF MemberAt, Present
    <3> QED
      BY <3>2, <3>3
  <2> QED
    BY <2>1 DEF Members
<1>18. SynOnce'
  <2>1. ASSUME NEW j \in Streams PROVE Announced(j)'
    <3>1. Announced(j)
      BY DEF MuxInv, SynOnce
    <3>2. CASE j = i
      <4>1. UnderWay(i)' = 1 /\ Met(i)' = 0
        <5>1. UnderWay(i)' = Owed(i)' + InChan(i)' + InData(i)' + InWire(i)'
          BY DEF UnderWay
        <5> QED
          BY <5>1, <1>8, <1>9, <1>12, <1>16
      <4>2. Sum(chan[c][i], "data", i) = 0 /\ Sum(data[c], "data", i) = 0 /\ Sum(wire[c], "data", i) = 0
        BY <1>3, <1>15, FlightNat
      <4>3. ep'[c][i].handle # "none"
        BY <1>2, <1>4
      <4> QED
        BY <4>1, <4>2, <4>3, <3>1, <3>2, <1>1 DEF Announced
    <3>3. CASE j # i
      <4>1. UnderWay(j)' = UnderWay(j) /\ Owed(j)' = Owed(j)
        BY <3>3, <1>8, <1>10 DEF UnderWay
      <4>2. ep'[c][j] = ep[c][j]
        BY <3>3, <1>3, <1>4
      <4> QED
        BY <4>1, <4>2, <3>1, <1>1, <1>8, <1>9 DEF Announced
    <3> QED
      BY <3>2, <3>3
  <2> QED
    BY <2>1 DEF SynOnce
<1>19. Ledger'
  <2>1. ASSUME NEW j \in Streams, j # i PROVE LedgerAt(j)'
    <3>1. UnderWay(j)' = UnderWay(j)
      BY <2>1, <1>8, <1>10 DEF UnderWay
    <3>2. Alike(j)
      BY <2>1, <3>1, <1>4, <1>5, <1>7, SideFacts DEF Alike
    <3> QED
      BY <3>2, LedgerStays DEF MuxInv, Ledger
  <2>2. LedgerAt(i)'
    <3>1. InFlight(c, "data", i)' = 0 /\ InFlight(c, "wu", i)' = 0 /\ \A k \in Kinds : InFlight(s, k, i)' = 0
      BY <1>3, <1>7, <1>15 DEF Unmet, Kinds
    <3>2. Unmet(i)'
      BY <3>1, <1>2, <1>4, MuxAssumption DEF Unmet
    <3>3. \A p \in Sides : Balanced(p, i)'
      BY <1>5, <1>14, SideFacts DEF Balanced
    <3>4. \A p \in Sides : Fits(p, i)'
      BY <3>1, <1>2, <1>4, <1>5, <1>14, SideFacts, MuxAssumption DEF Fits, Kinds
    <3> QED
      BY <3>1, <3>2, <3>3, <3>4 DEF LedgerAt
  <2> QED
    BY <2>1, <2>2 DEF Ledger
<1> QED
  BY <1>6, <1>17, <1>18, <1>19 DEF MuxInv

(* A connection closes on one side: what it had queued is lost, what is in *)
(* the socket stays.                                                       *)
LEMMA CloseFacts ==
  ASSUME MuxShape, NEW p \in Sides, CloseConn(p)
  PROVE  /\ known' = [known EXCEPT ![p] = {}] /\ conn' = [conn EXCEPT ![p] = "closed"]
         /\ known'[p] = {} /\ known'[Peer(p)] = known[Peer(p)] /\ conn'[p] = "closed" /\ conn'[Peer(p)] = conn[Peer(p)]
         /\ \A j \in Streams : chan'[p][j] = <<>> /\ chan'[Peer(p)][j] = chan[Peer(p)][j]
         /\ ctrl'[p] = <<>> /\ ctrl'[Peer(p)] = ctrl[Peer(p)] /\ data'[p] = <<>> /\ data'[Peer(p)] = data[Peer(p)]
         /\ reply'[p] = <<>> /\ reply'[Peer(p)] = reply[Peer(p)]
         /\ \A j \in Streams :
              /\ ep'[Peer(p)][j] = ep[Peer(p)][j] /\ ep'[p][j] \in EndStates
              /\ (j \in known[p] => ep'[p][j].st = "closed") /\ (j \notin known[p] => ep'[p][j] = ep[p][j])
         /\ \A r \in Sides, j \in Streams :
              /\ ep'[r][j].handle = ep[r][j].handle /\ ep'[r][j].flag = ep[r][j].flag
              /\ ep'[r][j].sw = ep[r][j].sw /\ ep'[r][j].rw = ep[r][j].rw /\ ep'[r][j].buf = ep[r][j].buf
<1> DEFINE q == Peer(p)
<1>1. q \in Sides /\ q # p /\ Peer(q) = p /\ \A r \in Sides : r = p \/ r = q
  BY SideFacts
<1>2. known' = [known EXCEPT ![p] = {}] /\ conn' = [conn EXCEPT ![p] = "closed"]
      /\ known'[p] = {} /\ known'[q] = known[q] /\ conn'[p] = "closed" /\ conn'[q] = conn[q]
  BY <1>1 DEF CloseConn, MuxShape
<1>3. /\ chan' = [chan EXCEPT ![p] = [i \in Streams |-> <<>>]] /\ ctrl' = [ctrl EXCEPT ![p] = <<>>]
      /\ data' = [data EXCEPT ![p] = <<>>] /\ reply' = [reply EXCEPT ![p] = <<>>]
  BY DEF CloseConn
<1>4. /\ \A j \in Streams : chan'[p][j] = <<>> /\ chan'[q][j] = chan[q][j]
      /\ ctrl'[p] = <<>> /\ ctrl'[q] = ctrl[q] /\ data'[p] = <<>> /\ data'[q] = data[q]
      /\ reply'[p] = <<>> /\ reply'[q] = reply[q]
  BY <1>1, <1>3 DEF MuxShape
<1>5. \A j \in Streams : ep'[q][j] = ep[q][j] /\ ep'[p][j] = IF j \in known[p] THEN [ep[p][j] EXCEPT !.st = "closed"] ELSE ep[p][j]
  BY <1>1 DEF CloseConn, MuxShape
<1>6. ASSUME NEW j \in Streams
      PROVE  /\ ep'[p][j] \in EndStates /\ ep'[p][j].handle = ep[p][j].handle /\ ep'[p][j].flag = ep[p][j].flag
             /\ ep'[p][j].sw = ep[p][j].sw /\ ep'[p][j].rw = ep[p][j].rw /\ ep'[p][j].buf = ep[p][j].buf
             /\ j \in known[p] => ep'[p][j].st = "closed"
             /\ j \notin known[p] => ep'[p][j] = ep[p][j]
  <2> DEFINE d == ep[p][j]
             e == ep'[p][j]
  <2>1. d \in EndStates /\ e = IF j \in known[p] THEN [d EXCEPT !.st = "closed"] ELSE d
    BY <1>1, <1>5, EndFacts
  <2> HIDE DEF d, e
  <2>2. /\ e \in EndStates /\ e.handle = d.handle /\ e.flag = d.flag /\ e.sw = d.sw /\ e.rw = d.rw /\ e.buf = d.buf
        /\ (j \in known[p] => e.st = "closed") /\ (j \notin known[p] => e = d)
    BY <2>1 DEF EndStates, StreamStates
  <2> QED
    BY <2>2 DEF d, e
<1>7. \A r \in Sides, j \in Streams : /\ ep'[r][j].handle = ep[r][j].handle /\ ep'[r][j].flag = ep[r][j].flag
                                      /\ ep'[r][j].sw = ep[r][j].sw /\ ep'[r][j].rw = ep[r][j].rw
                                      /\ ep'[r][j].buf = ep[r][j].buf
  <2> SUFFICES ASSUME NEW r \in Sides, NEW j \in Streams
               PROVE  /\ ep'[r][j].handle = ep[r][j].handle /\ ep'[r][j].flag = ep[r][j].flag
                      /\ ep'[r][j].sw = ep[r][j].sw /\ ep'[r][j].rw = ep[r][j].rw /\ ep'[r][j].buf = ep[r][j].buf
    OBVIOUS
  <2>1. CASE r = p
    BY <2>1, <1>6
  <2>2. CASE r = q
    <3>1. ep'[r][j] = ep[r][j]
      BY <2>2, <1>5
    <3> QED
      BY <3>1
  <2> QED
    BY <2>1, <2>2, <1>1
<1> QED
  BY <1>2, <1>4, <1>5, <1>6, <1>7

LEMMA CloseKeeps ==
  ASSUME MuxInv, NEW p \in Sides, CloseConn(p), wire' = wire
  PROVE  MuxInv'
<1> DEFINE q == Peer(p)
<1>1. MuxShape /\ q \in Sides /\ q # p /\ Peer(q) = p /\ \A r \in Sides : r = p \/ r = q
  BY SideFacts DEF MuxInv
<1>2. known' = [known EXCEPT ![p] = {}] /\ conn' = [conn EXCEPT ![p] = "closed"]
      /\ known'[p] = {} /\ known'[q] = known[q] /\ conn'[q] = conn[q]
  BY <1>1, CloseFacts
<1>3. /\ chan' = [chan EXCEPT ![p] = [i \in Streams |-> <<>>]] /\ ctrl' = [ctrl EXCEPT ![p] = <<>>]
      /\ data' = [data EXCEPT ![p] = <<>>] /\ reply' = [reply EXCEPT ![p] = <<>>]
  BY DEF CloseConn
<1>4. /\ \A j \in Streams : chan'[p][j] = <<>> /\ chan'[q][j] = chan[q][j]
      /\ ctrl'[p] = <<>> /\ ctrl'[q] = ctrl[q] /\ data'[p] = <<>> /\ data'[q] = data[q]
      /\ reply'[p] = <<>> /\ reply'[q] = reply[q]
  BY <1>1, CloseFacts
<1>5. \A j \in Streams : ep'[q][j] = ep[q][j]
  BY <1>1, CloseFacts
<1>6. ASSUME NEW j \in Streams
      PROVE  /\ ep'[p][j] \in EndStates /\ ep'[p][j].handle = ep[p][j].handle /\ ep'[p][j].flag = ep[p][j].flag
             /\ ep'[p][j].sw = ep[p][j].sw /\ ep'[p][j].rw = ep[p][j].rw /\ ep'[p][j].buf = ep[p][j].buf
             /\ j \in known[p] => ep'[p][j].st = "closed"
             /\ j \notin known[p] => ep'[p][j] = ep[p][j]
  BY <1>1, CloseFacts
<1>7. \A r \in Sides, j \in Streams : /\ ep'[r][j].handle = ep[r][j].handle /\ ep'[r][j].flag = ep[r][j].flag
                                      /\ ep'[r][j].sw = ep[r][j].sw /\ ep'[r][j].rw = ep[r][j].rw
                                      /\ ep'[r][j].buf = ep[r][j].buf
  BY <1>1, CloseFacts
<1>8. MuxShape'
  <2>1. ep' \in [Sides -> [Streams -> EndStates]]
    <3>1. ep' = [ep EXCEPT ![p] = ep'[p]] /\ ep'[p] = [j \in Streams |-> ep'[p][j]]
      BY <1>1 DEF CloseConn, MuxShape
    <3>2. ep'[p] \in [Streams -> EndStates]
      BY <3>1, <1>6
    <3> QED
      BY <3>1, <3>2, <1>1 DEF MuxShape
  <2>2. chan' \in [Sides -> [Streams -> Seq(Frames)]] /\ ctrl' \in [Sides -> Seq(Plain)]
        /\ reply' \in [Sides -> Seq(Answers)] /\ data' \in [Sides -> Seq(Frames)]
    BY <1>1, <1>3 DEF MuxShape
  <2>3. conn' \in [Sides -> {"active", "closed"}] /\ known' \in [Sides -> SUBSET Streams]
    BY <1>1, <1>2 DEF MuxShape
  <2>4. ASSUME NEW r \in Sides
        PROVE  /\ data'[r] \in Seq(Sendable(r)) /\ Len(reply'[r]) <= 1
               /\ \A i \in Streams : chan'[r][i] \in Seq(Commands(r, i)) /\ Len(chan'[r][i]) <= ChanCap
    <3>1. CASE r = p
      <4>1. Len(<<>>) = 0 /\ 0 <= ChanCap /\ <<>> \in Seq(Sendable(r)) /\ \A i \in Streams : <<>> \in Seq(Commands(r, i))
        BY MuxAssumption
      <4> QED
        <5>1. data'[r] \in Seq(Sendable(r)) /\ Len(reply'[r]) <= 1
          BY <4>1, <3>1, <1>4
        <5>2. \A i \in Streams : chan'[r][i] \in Seq(Commands(r, i)) /\ Len(chan'[r][i]) <= ChanCap
          BY <4>1, <3>1, <1>4
        <5> QED
          BY <5>1, <5>2
    <3>2. CASE r = q
      <4>1. data'[r] = data[r] /\ reply'[r] = reply[r] /\ \A i \in Streams : chan'[r][i] = chan[r][i]
        BY <3>2, <1>4
      <4> QED
        BY <4>1, <1>1 DEF MuxShape
    <3> QED
      BY <3>1, <3>2, <1>1
  <2> QED
    BY <2>1, <2>2, <2>3, <2>4, <1>1 DEF MuxShape
<1>9. Members'
  <2>1. ASSUME NEW r \in Sides, NEW j \in Streams PROVE MemberAt(r, j)'
    <3>1. MemberAt(r, j)
      BY DEF MuxInv, Members
    <3>4. conn'[p] = "closed" /\ conn'[q] = conn[q]
      BY <1>1, <1>2 DEF MuxShape, CloseConn
    <3>2. CASE r = p
      BY <3>1, <3>2, <3>4, <1>2, <1>6 DEF MemberAt, Present
    <3>3. CASE r = q
      BY <3>1, <3>3, <3>4, <1>2, <1>5 DEF MemberAt, Present
    <3> QED
      BY <3>2, <3>3, <1>1
  <2> QED
    BY <2>1 DEF Members
<1>10. ASSUME NEW j \in Streams
       PROVE  /\ Owed(j)' = Owed(j) /\ Met(j)' = Met(j) /\ InWire(j)' = InWire(j)
              /\ p = "client" => InChan(j)' = 0 /\ InData(j)' = 0
              /\ p # "client" => InChan(j)' = InChan(j) /\ InData(j)' = InData(j)
  <2>1. Owed(j)' = Owed(j) /\ Met(j)' = Met(j) /\ InWire(j)' = InWire(j)
    BY <1>7, SideFacts DEF Owed, Met, InWire
  <2>2. p = "client" => InChan(j)' = 0 /\ InData(j)' = 0
    BY <1>4, SumEmpty DEF InChan, InData
  <2>3. p # "client" => InChan(j)' = InChan(j) /\ InData(j)' = InData(j)
    BY <1>1, <1>4, SideFacts DEF InChan, InData
  <2> QED
    BY <2>1, <2>2, <2>3
<1>11. ASSUME NEW j \in Streams
       PROVE  UnderWay(j)' \in Nat /\ UnderWay(j)' <= UnderWay(j) /\ (p # "client" => UnderWay(j)' = UnderWay(j))
  <2>1. UnderWay(j)' = Owed(j)' + InChan(j)' + InData(j)' + InWire(j)'
    BY DEF UnderWay
  <2> QED
    BY <2>1, <1>1, <1>10, SynNat
<1>12. ASSUME NEW j \in Streams, NEW k \in Kinds
       PROVE  /\ InFlight(q, k, j)' = InFlight(q, k, j)
              /\ InFlight(p, k, j)' \in Nat /\ InFlight(p, k, j)' <= InFlight(p, k, j)
              /\ InFlight(p, k, j) \in Nat
  <2>1. InFlight(q, k, j)' = InFlight(q, k, j)
    BY <1>4 DEF InFlight
  <2>2. InFlight(p, k, j)' = Sum(wire[p], k, j)
    <3>1. InFlight(p, k, j)' = 0 + 0 + 0 + Sum(wire[p], k, j)
      BY <1>4, SumEmpty DEF InFlight
    <3>2. Sum(wire[p], k, j) \in Nat
      BY <1>1, FlightNat
    <3> QED
      BY <3>1, <3>2
  <2> QED
    BY <2>1, <2>2, <1>1, FlightNat
<1>13. SynOnce'
  <2>1. ASSUME NEW j \in Streams PROVE Announced(j)'
    <3>1. Announced(j)
      BY DEF MuxInv, SynOnce
    <3>2. UnderWay(j)' + Met(j)' <= 1 /\ (ep'["client"][j].handle = "none" => UnderWay(j)' + Met(j)' = 0)
      BY <3>1, <1>1, <1>7, <1>10, <1>11, SynNat, SideFacts DEF Announced
    <3>3. CASE p = "client"
      BY <3>1, <3>2, <3>3, <1>1, <1>4, <1>10, SumEmpty, LeadEmpty, SynNat DEF Announced
    <3>4. CASE p # "client"
      <4>1. q = "client"
        BY <3>4, <1>1, SideFacts
      <4> QED
        BY <4>1, <3>1, <3>2, <3>4, <1>4, <1>10 DEF Announced
    <3> QED
      BY <3>3, <3>4
  <2> QED
    BY <2>1 DEF SynOnce
<1>14. Ledger'
  <2>1. ASSUME NEW j \in Streams PROVE LedgerAt(j)'
    <3>1. LedgerAt(j) /\ "data" \in Kinds /\ "wu" \in Kinds
      BY DEF MuxInv, Ledger, Kinds
    <3>2. \A r \in Sides : Balanced(r, j)'
      BY <1>1, <1>2 DEF Balanced
    <3>3. Fits(q, j)'
      BY <1>1, <1>2 DEF Fits
    <3>4. Fits(p, j)'
      <4>1. Fits(p, j)
        BY <3>1 DEF LedgerAt
      <4>2. ep[q][j].rw \in Nat
        BY <1>1, EndFacts
      <4> QED
        BY <4>1, <4>2, <3>1, <1>1, <1>2, <1>7, <1>12 DEF Fits
    <3>5. \A r \in Sides, k \in Kinds : InFlight(r, k, j) = 0 => InFlight(r, k, j)' = 0
      BY <1>1, <1>12
    <3>6. ep'["client"][j].handle = "none" => InFlight("client", "data", j)' = 0
      BY <3>1, <3>5, <1>7, SideFacts DEF LedgerAt
    <3>7. ASSUME ep'["server"][j].handle = "none" PROVE Unmet(j)'
      <4>1. Unmet(j)
        BY <3>1, <3>7, <1>7, SideFacts DEF LedgerAt
      <4>2. /\ \A k \in Kinds : InFlight("server", k, j)' = 0
            /\ InFlight("client", "wu", j)' = 0
        BY <4>1, <3>1, <3>5, SideFacts DEF Unmet
      <4>3. ep'["client"][j].handle # "none" =>
              /\ ep'["client"][j].rw = Credit /\ ep'["client"][j].buf = 0
              /\ ep'["client"][j].sw + InFlight("client", "data", j)' <= Credit
        <5>1. InFlight("client", "data", j)' \in Nat /\ InFlight("client", "data", j)' <= InFlight("client", "data", j)
              /\ InFlight("client", "data", j) \in Nat /\ ep["client"][j].sw \in Nat
          BY <3>1, <1>1, <1>12, SideFacts, FlightNat, EndFacts
        <5> QED
          BY <5>1, <4>1, <1>7, SideFacts, MuxAssumption DEF Unmet
      <4>4. j \in known'["client"] /\ UnderWay(j)' = 1 =>
              ep'["client"][j].sw + InFlight("client", "data", j)' = Credit
        <5>1. CASE p = "client"
          BY <5>1, <1>2
        <5>2. CASE p # "client"
          <6>1. q = "client"
            BY <5>2, <1>1, SideFacts
          <6> QED
            BY <6>1, <5>2, <4>1, <3>1, <1>2, <1>5, <1>11, <1>12 DEF Unmet
        <5> QED
          BY <5>1, <5>2
      <4> QED
        BY <4>2, <4>3, <4>4 DEF Unmet
    <3> QED
      BY <3>2, <3>3, <3>4, <3>6, <3>7, <1>1 DEF LedgerAt
  <2> QED
    BY <2>1 DEF Ledger
<1> QED
  BY <1>8, <1>9, <1>13, <1>14 DEF MuxInv

-----------------------------------------------------------------------------
(* The driver's moves of frames from queue to queue.                       *)

LEMMA StillMembers ==
  ASSUME Members, conn' = conn, known' = known, ep' = ep
  PROVE  Members'
BY DEF Members, MemberAt, Present

(* The client's queues are as they were.                                   *)
LEMMA SynStill ==
  ASSUME SynOnce, \A j \in Streams : chan'["client"][j] = chan["client"][j],
         data'["client"] = data["client"], wire'["client"] = wire["client"],
         \A j \in Streams : Owed(j)' = Owed(j) /\ Met(j)' = Met(j)
                            /\ (ep'["client"][j].handle = "none" => ep["client"][j].handle = "none")
  PROVE  SynOnce'
<1> SUFFICES ASSUME NEW j \in Streams PROVE Announced(j)'
  BY DEF SynOnce
<1>1. Announced(j)
  BY DEF SynOnce
<1>2. InChan(j)' = InChan(j) /\ InData(j)' = InData(j) /\ InWire(j)' = InWire(j) /\ Owed(j)' = Owed(j) /\ Met(j)' = Met(j)
  BY DEF InChan, InData, InWire
<1>3. UnderWay(j)' = UnderWay(j)
  BY <1>2 DEF UnderWay
<1> QED
  BY <1>1, <1>2, <1>3 DEF Announced

(* The head of queue q is moved to the end of queue r.                     *)
LEMMA Handover ==
  ASSUME NEW q \in Seq(Frames), NEW r \in Seq(Frames), q # <<>>, NEW i, Lead(q, i), Lead(r, i),
         "SYN" \in Head(q).fl => Head(q).n = 0,
         Syns(q, i) > 0 => Sum(r, "data", i) = 0
  PROVE  /\ Lead(Tail(q), i) /\ Lead(Append(r, Head(q)), i)
         /\ Syns(Tail(q), i) > 0 => Sum(Append(r, Head(q)), "data", i) = 0
         /\ Sum(q, "data", i) = 0 /\ Sum(r, "data", i) = 0 =>
              Sum(Tail(q), "data", i) = 0 /\ Sum(Append(r, Head(q)), "data", i) = 0
         /\ Sum(q, "data", i) = 0 => Sum(Tail(q), "data", i) = 0
         /\ Syns(q, i) = Syns(Tail(q), i) + Syn(Head(q), i) /\ Syns(Append(r, Head(q)), i) = Syns(r, i) + Syn(Head(q), i)
         /\ {Syns(q, i), Syns(r, i), Syns(Tail(q), i), Syn(Head(q), i)} \subseteq Nat
<1> DEFINE f == Head(q)
           t == Tail(q)
           u == Append(r, f)
<1>1. /\ Sum(q, "data", i) = Part(f, "data", i) + Sum(t, "data", i) /\ Syns(q, i) = Syn(f, i) + Syns(t, i)
      /\ f \in Frames /\ t \in Seq(Frames)
  BY SumTail
<1>2. Sum(u, "data", i) = Sum(r, "data", i) + Part(f, "data", i) /\ Syns(u, i) = Syns(r, i) + Syn(f, i)
  BY <1>1, SumAppend
<1>3. /\ Sum(q, "data", i) \in Nat /\ Sum(t, "data", i) \in Nat /\ Sum(r, "data", i) \in Nat
      /\ Syns(q, i) \in Nat /\ Syns(t, i) \in Nat /\ Syns(r, i) \in Nat
      /\ Part(f, "data", i) \in Nat /\ Syn(f, i) \in Nat
  BY <1>1, SumNat, PartIsNat
<1>4. Lead(t, i) /\ (Syns(q, i) > 0 => Syn(f, i) = 1 \/ Part(f, "data", i) = 0)
  BY LeadTail
<1>5. Syn(f, i) = 1 => Part(f, "data", i) = 0
  BY DEF Syn, Part
<1>6. f.id = i /\ "SYN" \in f.fl => Syn(f, i) = 1
  BY DEF Syn
<1> HIDE DEF f, t
<1>7. Lead(u, i)
  <2>1. f.id = i /\ "SYN" \in f.fl => Sum(r, "data", i) = 0
    BY <1>1, <1>3, <1>6 DEF f
  <2> QED
    BY <2>1, <1>1, LeadAppend
<1> HIDE DEF u
<1>8. Syns(t, i) > 0 => Sum(u, "data", i) = 0
  BY <1>1, <1>2, <1>3, <1>4, <1>5
<1>9. (Sum(q, "data", i) = 0 /\ Sum(r, "data", i) = 0 => Sum(t, "data", i) = 0 /\ Sum(u, "data", i) = 0)
      /\ (Sum(q, "data", i) = 0 => Sum(t, "data", i) = 0)
  <2> DEFINE v == Sum(q, "data", i)
             w == Sum(t, "data", i)
             x == Sum(r, "data", i)
             y == Sum(u, "data", i)
             z == Part(f, "data", i)
  <2>1. v = z + w /\ y = x + z /\ v \in Nat /\ w \in Nat /\ x \in Nat /\ z \in Nat
    BY <1>1, <1>2, <1>3
  <2> HIDE DEF v, w, x, y, z
  <2>2. (v = 0 /\ x = 0 => w = 0 /\ y = 0) /\ (v = 0 => w = 0)
    BY <2>1
  <2> QED
    BY <2>2 DEF v, w, x, y
<1>10. Syns(q, i) = Syns(t, i) + Syn(f, i) /\ Syns(u, i) = Syns(r, i) + Syn(f, i)
       /\ {Syns(q, i), Syns(r, i), Syns(t, i), Syn(f, i)} \subseteq Nat
  BY <1>1, <1>2, <1>3
<1> QED
  BY <1>4, <1>7, <1>8, <1>9, <1>10 DEF f, t, u

(* A bookkeeping frame takes nothing of an announcement or of payload.     *)
LEMMA PlainFrames ==
  ASSUME NEW f \in Plain, NEW i
  PROVE  f \in Frames /\ Syn(f, i) = 0 /\ Part(f, "data", i) = 0
BY DEF Plain, Part, Syn

LEMMA Bookkept ==
  ASSUME NEW p, NEW f \in Sendable(p), IsBookkeeping(f)
  PROVE  f \in Plain
BY DEF Sendable, Plain, IsBookkeeping

LEMMA OtherStream ==
  ASSUME NEW f \in Frames, NEW j, f.id # j
  PROVE  Syn(f, j) = 0 /\ \A k : Part(f, k, j) = 0
BY DEF Syn, Part

(* The queues of side p after a frame f is taken from a stream's channel.  *)
LEMMA TakeFacts ==
  ASSUME MuxShape, NEW p \in Sides, NEW i \in Streams, TakeCommand(p, i)
  PROVE  /\ chan[p][i] # <<>> /\ Head(chan[p][i]) \in Commands(p, i) /\ Head(chan[p][i]) \in Frames
         /\ chan'[p][i] = Tail(chan[p][i])
         /\ \A q \in Sides, j \in Streams : q # p \/ j # i => chan'[q][j] = chan[q][j]
         /\ \A q \in Sides : q # p => ctrl'[q] = ctrl[q] /\ data'[q] = data[q]
         /\ conn' = conn /\ known' = known /\ ep' = ep /\ reply' = reply /\ wire' = wire
         /\ \/ /\ Head(chan[p][i]) \in Plain /\ data' = data
               /\ ctrl'[p] = Append(ctrl[p], Head(chan[p][i]))
            \/ /\ ctrl' = ctrl /\ data'[p] = Append(data[p], Head(chan[p][i]))
<1> DEFINE f == Head(chan[p][i])
<1>1. chan[p][i] # <<>> /\ chan[p][i] \in Seq(Commands(p, i))
  BY ShapeQueues DEF TakeCommand
<1>2. f \in Commands(p, i) /\ f \in Sendable(p) /\ f \in Frames
  <2>1. f \in Commands(p, i)
    BY <1>1
  <2> QED
    BY <2>1, FrameSets
<1>3. chan' = [chan EXCEPT ![p][i] = Tail(chan[p][i])]
  BY DEF TakeCommand
<1>4. chan'[p][i] = Tail(chan[p][i]) /\ \A q \in Sides, j \in Streams : q # p \/ j # i => chan'[q][j] = chan[q][j]
  BY <1>3 DEF MuxShape
<1>5. conn' = conn /\ known' = known /\ ep' = ep /\ reply' = reply /\ wire' = wire
  BY DEF TakeCommand
<1>6. CASE IsBookkeeping(f)
  <2>1. ctrl' = [ctrl EXCEPT ![p] = Append(ctrl[p], f)] /\ data' = data /\ f \in Plain
    BY <1>2, <1>6, Bookkept DEF TakeCommand
  <2> HIDE DEF f
  <2>2. ctrl'[p] = Append(ctrl[p], f) /\ \A q \in Sides : q # p => ctrl'[q] = ctrl[q]
    BY <2>1 DEF MuxShape
  <2> QED
    BY <2>1, <2>2, <1>1, <1>2, <1>4, <1>5 DEF f
<1>7. CASE ~IsBookkeeping(f)
  <2>1. data' = [data EXCEPT ![p] = Append(data[p], f)] /\ ctrl' = ctrl
    BY <1>7 DEF TakeCommand
  <2> HIDE DEF f
  <2>2. data'[p] = Append(data[p], f) /\ \A q \in Sides : q # p => data'[q] = data[q]
    BY <2>1 DEF MuxShape
  <2> QED
    BY <2>1, <2>2, <1>1, <1>2, <1>4, <1>5 DEF f
<1> QED
  BY <1>6, <1>7

LEMMA TakeShape ==
  ASSUME MuxShape, NEW p \in Sides, NEW i \in Streams, TakeCommand(p, i)
  PROVE  MuxShape'
<1> DEFINE f == Head(chan[p][i])
           t == Tail(chan[p][i])
<1>1. /\ chan[p][i] # <<>> /\ f \in Commands(p, i) /\ f \in Frames /\ chan'[p][i] = t
      /\ \A q \in Sides, j \in Streams : q # p \/ j # i => chan'[q][j] = chan[q][j]
      /\ \A q \in Sides : q # p => ctrl'[q] = ctrl[q] /\ data'[q] = data[q]
      /\ conn' = conn /\ known' = known /\ ep' = ep /\ reply' = reply /\ wire' = wire
      /\ \/ f \in Plain /\ data' = data /\ ctrl'[p] = Append(ctrl[p], f)
         \/ ctrl' = ctrl /\ data'[p] = Append(data[p], f)
  BY TakeFacts
<1>2. /\ chan[p][i] \in Seq(Commands(p, i)) /\ chan[p][i] \in Seq(Frames) /\ ctrl[p] \in Seq(Plain)
      /\ data[p] \in Seq(Frames) /\ data[p] \in Seq(Sendable(p)) /\ Len(chan[p][i]) <= ChanCap
  BY ShapeQueues DEF MuxShape
<1>3. t \in Seq(Commands(p, i)) /\ t \in Seq(Frames) /\ Len(t) <= ChanCap
  BY <1>1, <1>2, Shorter, MuxAssumption
<1>4. f \in Sendable(p)
  BY <1>1, FrameSets
<1>5. chan' = [chan EXCEPT ![p][i] = t]
  BY DEF TakeCommand
<1> HIDE DEF f, t
<1>6. chan' \in [Sides -> [Streams -> Seq(Frames)]]
  BY <1>3, <1>5 DEF MuxShape
<1>7. \A q \in Sides, j \in Streams : chan'[q][j] \in Seq(Commands(q, j)) /\ Len(chan'[q][j]) <= ChanCap
  BY <1>1, <1>3 DEF MuxShape
<1>8. /\ ctrl' \in [Sides -> Seq(Plain)] /\ data' \in [Sides -> Seq(Frames)]
      /\ \A q \in Sides : data'[q] \in Seq(Sendable(q))
  <2>1. CASE f \in Plain /\ data' = data /\ ctrl'[p] = Append(ctrl[p], f)
    <3>1. Append(ctrl[p], f) \in Seq(Plain)
      BY <2>1, <1>2, Longer
    <3>2. ctrl' = [ctrl EXCEPT ![p] = ctrl'[p]]
      BY <2>1 DEF TakeCommand, MuxShape
    <3>3. /\ ctrl \in [Sides -> Seq(Plain)] /\ data \in [Sides -> Seq(Frames)]
          /\ \A q \in Sides : data[q] \in Seq(Sendable(q))
      BY DEF MuxShape
    <3>4. ctrl' \in [Sides -> Seq(Plain)]
      BY <2>1, <3>1, <3>2, <3>3
    <3> QED
      BY <2>1, <3>3, <3>4
  <2>2. CASE ctrl' = ctrl /\ data'[p] = Append(data[p], f)
    <3>1. Append(data[p], f) \in Seq(Frames) /\ Append(data[p], f) \in Seq(Sendable(p))
      BY <1>1, <1>2, <1>4, Longer
    <3>2. data' = [data EXCEPT ![p] = data'[p]]
      BY <2>2 DEF TakeCommand, MuxShape
    <3>3. data' \in [Sides -> Seq(Frames)]
      <4>1. data \in [Sides -> Seq(Frames)]
        BY DEF MuxShape
      <4> QED
        BY <4>1, <2>2, <3>1, <3>2
    <3>4. \A q \in Sides : data'[q] \in Seq(Sendable(q))
      BY <2>2, <3>1, <1>1 DEF MuxShape
    <3> QED
      BY <2>2, <3>3, <3>4 DEF MuxShape
  <2> QED
    BY <2>1, <2>2, <1>1
<1> QED
  BY <1>1, <1>6, <1>7, <1>8 DEF MuxShape

LEMMA TakeAlike ==
  ASSUME MuxShape, NEW p \in Sides, NEW i \in Streams, TakeCommand(p, i), NEW j \in Streams, NEW q \in Sides, NEW k \in Kinds
  PROVE  InFlight(q, k, j)' = InFlight(q, k, j)
<1> DEFINE f == Head(chan[p][i])
           t == Tail(chan[p][i])
<1>1. /\ chan[p][i] # <<>> /\ f \in Commands(p, i) /\ f \in Frames /\ chan'[p][i] = t
      /\ \A r \in Sides, l \in Streams : r # p \/ l # i => chan'[r][l] = chan[r][l]
      /\ \A r \in Sides : r # p => ctrl'[r] = ctrl[r] /\ data'[r] = data[r]
      /\ wire' = wire
      /\ \/ data' = data /\ ctrl'[p] = Append(ctrl[p], f)
         \/ ctrl' = ctrl /\ data'[p] = Append(data[p], f)
  BY TakeFacts
<1>2. CASE q # p
  BY <1>1, <1>2 DEF InFlight
<1>3. CASE q = p
  <2>1. /\ chan[p][j] \in Seq(Frames) /\ chan[p][i] \in Seq(Frames) /\ ctrl[p] \in Seq(Frames) /\ data[p] \in Seq(Frames)
    BY ShapeQueues
  <2>2. Part(f, k, j) \in Nat
    BY <1>1, PartIsNat
  <2>3. Sum(chan[p][j], k, j) = Sum(chan'[p][j], k, j) + Part(f, k, j) /\ Sum(chan'[p][j], k, j) \in Nat
    <3>1. CASE j = i
      <4>1. Sum(chan[p][i], k, i) = Part(f, k, i) + Sum(t, k, i) /\ t \in Seq(Frames)
        BY <1>1, <2>1, SumTail
      <4>2. Sum(t, k, i) \in Nat
        BY <4>1, SumNat
      <4> QED
        BY <4>1, <4>2, <3>1, <1>1, <2>2
    <3>2. CASE j # i
      <4>1. f.id # j
        BY <3>2, <1>1 DEF Commands
      <4>2. Part(f, k, j) = 0 /\ chan'[p][j] = chan[p][j]
        BY <4>1, <3>2, <1>1, OtherStream
      <4> QED
        BY <4>2, <2>1, SumNat
    <3> QED
      BY <3>1, <3>2
  <2> HIDE DEF f
  <2>4. /\ Sum(ctrl[p], k, j) \in Nat /\ Sum(data[p], k, j) \in Nat /\ Sum(wire[p], k, j) \in Nat
    BY FlightNat
  <2>5. \/ Sum(ctrl'[p], k, j) = Sum(ctrl[p], k, j) + Part(f, k, j) /\ Sum(data'[p], k, j) = Sum(data[p], k, j)
        \/ Sum(data'[p], k, j) = Sum(data[p], k, j) + Part(f, k, j) /\ Sum(ctrl'[p], k, j) = Sum(ctrl[p], k, j)
    <3>1. f \in Frames /\ ((ctrl'[p] = Append(ctrl[p], f) /\ data' = data) \/ (data'[p] = Append(data[p], f) /\ ctrl' = ctrl))
      BY <1>1
    <3>2. /\ Sum(Append(ctrl[p], f), k, j) = Sum(ctrl[p], k, j) + Part(f, k, j)
          /\ Sum(Append(data[p], f), k, j) = Sum(data[p], k, j) + Part(f, k, j)
      BY <3>1, <2>1, SumAppend
    <3> QED
      BY <3>1, <3>2
  <2>6. InFlight(p, k, j)' = Sum(chan'[p][j], k, j) + Sum(ctrl'[p], k, j) + Sum(data'[p], k, j) + Sum(wire[p], k, j)
    BY <1>1 DEF InFlight
  <2>7. InFlight(p, k, j) = Sum(chan[p][j], k, j) + Sum(ctrl[p], k, j) + Sum(data[p], k, j) + Sum(wire[p], k, j)
    BY DEF InFlight
  <2> QED
    BY <2>2, <2>3, <2>4, <2>5, <2>6, <2>7, <1>3
<1> QED
  BY <1>2, <1>3

LEMMA TakeSyn ==
  ASSUME MuxShape, SynOnce, NEW p \in Sides, NEW i \in Streams, TakeCommand(p, i)
  PROVE  SynOnce' /\ \A j \in Streams : UnderWay(j)' = UnderWay(j)
<1> DEFINE c == "client"
           f == Head(chan[p][i])
           t == Tail(chan[p][i])
<1>1. /\ chan[p][i] # <<>> /\ f \in Commands(p, i) /\ f \in Frames /\ chan'[p][i] = t
      /\ \A r \in Sides, l \in Streams : r # p \/ l # i => chan'[r][l] = chan[r][l]
      /\ \A r \in Sides : r # p => ctrl'[r] = ctrl[r] /\ data'[r] = data[r]
      /\ wire' = wire /\ ep' = ep
      /\ \/ f \in Plain /\ data' = data
         \/ data'[p] = Append(data[p], f)
  BY TakeFacts
<1>2. \A j \in Streams : Owed(j)' = Owed(j) /\ Met(j)' = Met(j) /\ InWire(j)' = InWire(j)
  BY <1>1 DEF Owed, Met, InWire
<1>3. CASE p # c
  <2>1. data'[c] = data[c] /\ \A j \in Streams : chan'[c][j] = chan[c][j]
    BY <1>1, <1>3, SideFacts
  <2>2. SynOnce'
    BY <2>1, <1>1, <1>2, SynStill
  <2>3. \A j \in Streams : UnderWay(j)' = UnderWay(j)
    BY <2>1, <1>2 DEF UnderWay, InChan, InData
  <2> QED
    BY <2>2, <2>3
<1>4. CASE p = c
  <2>1. ASSUME NEW j \in Streams PROVE Announced(j)' /\ UnderWay(j)' = UnderWay(j)
    <3>1. Announced(j) /\ c \in Sides
      BY SideFacts DEF SynOnce
    <3>2. /\ Owed(j) \in Nat /\ InChan(j) \in Nat /\ InData(j) \in Nat /\ InWire(j) \in Nat /\ Met(j) \in Nat
          /\ UnderWay(j) = Owed(j) + InChan(j) + InData(j) + InWire(j)
      BY SynNat
    <3>3. UnderWay(j)' = Owed(j) + InChan(j)' + InData(j)' + InWire(j)
      BY <1>2 DEF UnderWay
    <3>4. chan[c][j] \in Seq(Frames) /\ data[c] \in Seq(Frames)
      BY <3>1, ShapeQueues
    <3>5. f.id = i /\ ("SYN" \in f.fl => f.n = 0)
      BY <1>1 DEF Commands, Sendable
    <3>6. CASE j # i
      <4>1. Syn(f, j) = 0 /\ Part(f, "data", j) = 0 /\ chan'[c][j] = chan[c][j] /\ InChan(j)' = InChan(j)
        BY <3>1, <3>5, <3>6, <1>1, OtherStream DEF InChan
      <4>2. CASE data' = data
        <5>1. InData(j)' = InData(j)
          BY <4>2 DEF InData
        <5> QED
          BY <5>1, <4>1, <4>2, <3>1, <3>2, <3>3, <1>1, <1>2 DEF Announced
      <4>3. CASE data'[c] = Append(data[c], f)
        <5>1. Sum(data'[c], "data", j) = Sum(data[c], "data", j) + 0 /\ InData(j)' = InData(j) + 0
          BY <4>1, <4>3, <3>4, <1>1, SumAppend DEF InData
        <5>2. Sum(data[c], "data", j) \in Nat
          BY <3>4, SumNat
        <5>3. Sum(data'[c], "data", j) = Sum(data[c], "data", j) /\ InData(j)' = InData(j)
          BY <5>1, <5>2, <3>2
        <5>4. Lead(data'[c], j)
          <6>1. Lead(data[c], j) /\ f.id # j
            BY <3>1, <3>5, <3>6 DEF Announced
          <6>2. Lead(Append(data[c], f), j)
            BY <6>1, <3>4, <1>1, LeadAppend
          <6> QED
            BY <6>2, <4>3
        <5> QED
          BY <5>3, <5>4, <4>1, <3>1, <3>2, <3>3, <1>1, <1>2 DEF Announced
      <4> QED
        BY <4>2, <4>3, <1>1, <1>4
    <3>7. CASE j = i
      <4> DEFINE s == chan[c][i]
      <4>1. s \in Seq(Frames) /\ s # <<>> /\ f = Head(s) /\ t = Tail(s) /\ chan'[c][i] = t
        BY <3>4, <3>7, <1>1, <1>4
      <4>2. Lead(s, i) /\ Lead(data[c], i) /\ (InChan(i) > 0 => Sum(data[c], "data", i) = 0) /\ InChan(i) = Syns(s, i)
        BY <3>1, <3>2, <3>7 DEF Announced, InChan
      <4> HIDE DEF s, f, t
      <4>3. /\ Lead(t, i) /\ Lead(Append(data[c], f), i)
            /\ Syns(t, i) > 0 => Sum(Append(data[c], f), "data", i) = 0
            /\ Sum(s, "data", i) = 0 /\ Sum(data[c], "data", i) = 0 =>
                 Sum(t, "data", i) = 0 /\ Sum(Append(data[c], f), "data", i) = 0
            /\ Sum(s, "data", i) = 0 => Sum(t, "data", i) = 0
            /\ Syns(s, i) = Syns(t, i) + Syn(f, i) /\ Syns(Append(data[c], f), i) = Syns(data[c], i) + Syn(f, i)
            /\ {Syns(s, i), Syns(data[c], i), Syns(t, i), Syn(f, i)} \subseteq Nat
        BY <4>1, <4>2, <3>4, <3>5, Handover
      <4>4. InChan(i)' = Syns(t, i) /\ InData(i) = Syns(data[c], i) /\ s = chan[c][i]
        BY <4>1 DEF InChan, InData, s
      <4>5. CASE f \in Plain /\ data' = data
        <5>1. Syn(f, i) = 0
          BY <4>5, PlainFrames
        <5>2. InData(i)' = InData(i) /\ InChan(i)' = InChan(i)
          BY <5>1, <4>2, <4>3, <4>4, <4>5 DEF InData
        <5> QED
          BY <5>2, <4>1, <4>3, <4>4, <4>5, <3>1, <3>2, <3>3, <3>7, <1>1, <1>2 DEF Announced
      <4>6. CASE data'[c] = Append(data[c], f)
        <5>1. InData(i)' = InData(i) + Syn(f, i) /\ InChan(i) = InChan(i)' + Syn(f, i) /\ InChan(i)' \in Nat /\ Syn(f, i) \in Nat
          BY <4>2, <4>3, <4>4, <4>6 DEF InData
        <5>2. UnderWay(i)' = UnderWay(i)
          BY <5>1, <3>2, <3>3, <3>7
        <5>3. Owed(i)' + InChan(i)' + InData(i)' = Owed(i) + InChan(i) + InData(i)
          BY <5>1, <3>2, <3>7, <1>2
        <5>4. Owed(i) > 0 => Sum(t, "data", i) = 0
          BY <4>3, <4>4, <3>1, <3>7 DEF Announced
        <5>5. Owed(i)' + InChan(i)' > 0 => Sum(data'[c], "data", i) = 0
          <6>1. Owed(i) > 0 => Sum(s, "data", i) = 0 /\ Sum(data[c], "data", i) = 0
            BY <4>4, <3>1, <3>2, <3>7 DEF Announced
          <6> QED
            BY <6>1, <5>1, <4>3, <4>4, <4>6, <3>2, <3>7, <1>2
        <5>6. Lead(chan'[c][i], i) /\ Lead(data'[c], i) /\ chan'[c][i] = t
          BY <4>1, <4>3, <4>6
        <5>7. Owed(i)' + InChan(i)' + InData(i)' > 0 => Sum(wire'[c], "data", i) = 0
          BY <5>3, <3>1, <3>7, <1>1 DEF Announced
        <5> QED
          BY <5>2, <5>4, <5>5, <5>6, <5>7, <3>1, <3>7, <1>1, <1>2 DEF Announced
      <4> QED
        BY <4>5, <4>6, <1>1, <1>4
    <3> QED
      BY <3>6, <3>7
  <2> QED
    BY <2>1 DEF SynOnce
<1> QED
  BY <1>3, <1>4

LEMMA TakeKeeps ==
  ASSUME MuxInv, NEW p \in Sides, NEW i \in Streams, TakeCommand(p, i)
  PROVE  MuxInv'
<1>1. MuxShape /\ SynOnce /\ Members /\ Ledger
  BY DEF MuxInv
<1>2. conn' = conn /\ known' = known /\ ep' = ep
  BY DEF TakeCommand
<1>3. \A j \in Streams : Alike(j)
  BY <1>1, <1>2, TakeAlike, TakeSyn DEF Alike
<1> QED
  BY <1>1, <1>2, <1>3, TakeShape, TakeSyn, StillMembers, LedgerStays DEF MuxInv, Ledger

LEMMA HeadOfJoin ==
  ASSUME NEW S, NEW s \in Seq(S), NEW t \in Seq(S), s # <<>>
  PROVE  Head(s \o t) = Head(s) /\ s \o t \in Seq(S) /\ s \o t # <<>>
<1> DEFINE u == s \o t
<1>1. u \in Seq(S) /\ Len(s) \in Nat /\ Len(t) \in Nat /\ Len(s) >= 1 /\ Len(u) = Len(s) + Len(t) /\ u[1] = s[1]
  OBVIOUS
<1>2. Head(s) = s[1]
  OBVIOUS
<1> HIDE DEF u
<1>3. u # <<>> /\ Head(u) = u[1]
  BY <1>1
<1> QED
  BY <1>1, <1>2, <1>3 DEF u

(* What the driver writes into the socket.                                 *)
LEMMA TransmitFacts ==
  ASSUME MuxShape, NEW p \in Sides, Transmit(p)
  PROVE  /\ Len(wire[p]) < WireCap
         /\ conn' = conn /\ known' = known /\ ep' = ep /\ chan' = chan
         /\ \E f \in Sendable(p) :
              /\ wire' = [wire EXCEPT ![p] = Append(wire[p], f)]
              /\ \/ /\ f \in Answers /\ reply' = [reply EXCEPT ![p] = <<>>]
                    /\ ctrl' = ctrl /\ data' = data
                 \/ /\ ctrl[p] # <<>> /\ f = Head(ctrl[p]) /\ f \in Plain
                    /\ ctrl' = [ctrl EXCEPT ![p] = Tail(ctrl[p])] /\ data' = data /\ reply' = reply
                 \/ /\ data[p] # <<>> /\ f = Head(data[p])
                    /\ data' = [data EXCEPT ![p] = Tail(data[p])] /\ ctrl' = ctrl /\ reply' = reply
<1> DEFINE q == reply[p] \o ctrl[p] \o data[p]
<1>1. /\ ctrl[p] \in Seq(Plain) /\ reply[p] \in Seq(Answers) /\ data[p] \in Seq(Sendable(p))
      /\ reply[p] \in Seq(Frames) /\ ctrl[p] \in Seq(Frames) /\ data[p] \in Seq(Frames)
  BY ShapeQueues
<1>2. /\ Len(wire[p]) < WireCap /\ conn' = conn /\ known' = known /\ ep' = ep /\ chan' = chan
      /\ wire' = [wire EXCEPT ![p] = Append(wire[p], Head(q))] /\ Queued(p)
  BY DEF Transmit
<1>3. CASE reply[p] # <<>>
  <2>1. Head(q) = Head(reply[p]) /\ Head(reply[p]) \in Answers
    <3>1. Head(reply[p] \o ctrl[p]) = Head(reply[p]) /\ reply[p] \o ctrl[p] \in Seq(Frames) /\ reply[p] \o ctrl[p] # <<>>
      BY <1>1, <1>3, HeadOfJoin
    <3>2. Head(q) = Head(reply[p] \o ctrl[p])
      BY <3>1, <1>1, HeadOfJoin
    <3>3. Head(reply[p]) \in Answers
      BY <1>1, <1>3
    <3> QED
      BY <3>1, <3>2, <3>3
  <2>2. Head(q) \in Answers /\ Head(q) \in Sendable(p)
    BY <2>1, FrameSets
  <2>3. reply' = [reply EXCEPT ![p] = <<>>] /\ ctrl' = ctrl /\ data' = data
    BY <1>3 DEF Transmit
  <2> HIDE DEF q
  <2> QED
    BY <2>2, <2>3, <1>2
<1>4. CASE reply[p] = <<>> /\ ctrl[p] # <<>>
  <2>1. Head(q) = Head(ctrl[p]) /\ Head(ctrl[p]) \in Plain
    <3>1. reply[p] \o ctrl[p] = ctrl[p] /\ Head(ctrl[p]) \in Plain
      BY <1>1, <1>4
    <3>2. Head(ctrl[p] \o data[p]) = Head(ctrl[p])
      BY <1>1, <1>4, HeadOfJoin
    <3> QED
      BY <3>1, <3>2
  <2>2. Head(q) \in Plain /\ Head(q) \in Sendable(p)
    BY <2>1, FrameSets
  <2>3. ctrl' = [ctrl EXCEPT ![p] = Tail(ctrl[p])] /\ data' = data /\ reply' = reply
    BY <1>4 DEF Transmit
  <2> HIDE DEF q
  <2> QED
    BY <2>1, <2>2, <2>3, <1>2, <1>4
<1>5. CASE reply[p] = <<>> /\ ctrl[p] = <<>>
  <2>1. data[p] # <<>>
    BY <1>2, <1>5 DEF Queued
  <2>2. Head(q) = Head(data[p]) /\ Head(data[p]) \in Sendable(p)
    BY <1>1, <1>5, <2>1
  <2>3. data' = [data EXCEPT ![p] = Tail(data[p])] /\ ctrl' = ctrl /\ reply' = reply
    BY <1>5 DEF Transmit
  <2> HIDE DEF q
  <2> QED
    BY <2>1, <2>2, <2>3, <1>2
<1> QED
  BY <1>3, <1>4, <1>5

(* The three sources of a transmitted frame f.                             *)
FromReply(p, f) == f \in Answers /\ reply' = [reply EXCEPT ![p] = <<>>] /\ ctrl' = ctrl /\ data' = data
FromCtrl(p, f) ==
  /\ ctrl[p] # <<>> /\ f = Head(ctrl[p]) /\ f \in Plain
  /\ ctrl' = [ctrl EXCEPT ![p] = Tail(ctrl[p])] /\ data' = data /\ reply' = reply
FromData(p, f) ==
  /\ data[p] # <<>> /\ f = Head(data[p])
  /\ data' = [data EXCEPT ![p] = Tail(data[p])] /\ ctrl' = ctrl /\ reply' = reply
Sends(p, f) ==
  /\ Len(wire[p]) < WireCap /\ conn' = conn /\ known' = known /\ ep' = ep /\ chan' = chan
  /\ f \in Sendable(p) /\ f \in Frames
  /\ wire' = [wire EXCEPT ![p] = Append(wire[p], f)]
  /\ FromReply(p, f) \/ FromCtrl(p, f) \/ FromData(p, f)

LEMMA TransmitSends ==
  ASSUME MuxShape, NEW p \in Sides, Transmit(p)
  PROVE  \E f : Sends(p, f)
<1>1. Sendable(p) \subseteq Frames
  BY FrameSets
<1> QED
  BY <1>1, TransmitFacts DEF Sends, FromReply, FromCtrl, FromData

(* What a sent frame does to the queues it passes.                         *)
LEMMA SendsQueues ==
  ASSUME MuxShape, NEW p \in Sides, NEW f, Sends(p, f)
  PROVE  /\ wire'[p] = Append(wire[p], f) /\ \A q \in Sides : q # p => wire'[q] = wire[q]
         /\ \A q \in Sides : q # p => ctrl'[q] = ctrl[q] /\ data'[q] = data[q] /\ reply'[q] = reply[q]
         /\ FromReply(p, f) => ctrl'[p] = ctrl[p] /\ data'[p] = data[p] /\ reply'[p] = <<>>
         /\ FromCtrl(p, f) => ctrl'[p] = Tail(ctrl[p]) /\ data'[p] = data[p] /\ reply'[p] = reply[p]
         /\ FromData(p, f) => data'[p] = Tail(data[p]) /\ ctrl'[p] = ctrl[p] /\ reply'[p] = reply[p]
<1>1. wire'[p] = Append(wire[p], f) /\ \A q \in Sides : q # p => wire'[q] = wire[q]
  BY DEF Sends, MuxShape
<1>2. ASSUME FromReply(p, f)
      PROVE  /\ \A q \in Sides : q # p => ctrl'[q] = ctrl[q] /\ data'[q] = data[q] /\ reply'[q] = reply[q]
             /\ ctrl'[p] = ctrl[p] /\ data'[p] = data[p] /\ reply'[p] = <<>>
  BY <1>2 DEF FromReply, MuxShape
<1>3. ASSUME FromCtrl(p, f)
      PROVE  /\ \A q \in Sides : q # p => ctrl'[q] = ctrl[q] /\ data'[q] = data[q] /\ reply'[q] = reply[q]
             /\ ctrl'[p] = Tail(ctrl[p]) /\ data'[p] = data[p] /\ reply'[p] = reply[p]
  BY <1>3 DEF FromCtrl, MuxShape
<1>4. ASSUME FromData(p, f)
      PROVE  /\ \A q \in Sides : q # p => ctrl'[q] = ctrl[q] /\ data'[q] = data[q] /\ reply'[q] = reply[q]
             /\ data'[p] = Tail(data[p]) /\ ctrl'[p] = ctrl[p] /\ reply'[p] = reply[p]
  BY <1>4 DEF FromData, MuxShape
<1> QED
  BY <1>1, <1>2, <1>3, <1>4 DEF Sends

LEMMA SendsShape ==
  ASSUME MuxShape, NEW p \in Sides, NEW f, Sends(p, f)
  PROVE  MuxShape'
<1>1. /\ ctrl[p] \in Seq(Plain) /\ reply[p] \in Seq(Answers) /\ data[p] \in Seq(Sendable(p)) /\ data[p] \in Seq(Frames)
      /\ wire[p] \in Seq(Frames) /\ wire[p] \in Seq(Sendable(p)) /\ WireCap \in Nat
  BY ShapeQueues, MuxAssumption
<1>2. f \in Sendable(p) /\ f \in Frames /\ Len(wire[p]) < WireCap /\ wire' = [wire EXCEPT ![p] = Append(wire[p], f)]
      /\ conn' = conn /\ known' = known /\ ep' = ep /\ chan' = chan
  BY DEF Sends
<1> DEFINE w == Append(wire[p], f)
<1>3. w \in Seq(Frames) /\ w \in Seq(Sendable(p)) /\ Len(w) = Len(wire[p]) + 1 /\ Len(wire[p]) \in Nat
  BY <1>1, <1>2, Longer
<1> HIDE DEF w
<1>4. /\ wire' \in [Sides -> Seq(Frames)]
      /\ \A q \in Sides : wire'[q] \in Seq(Sendable(q)) /\ Len(wire'[q]) <= WireCap
  <2>1. wire' = [wire EXCEPT ![p] = w]
    BY <1>2 DEF w
  <2>2. Len(w) <= WireCap
    BY <1>1, <1>2, <1>3
  <2> QED
    BY <2>1, <2>2, <1>3 DEF MuxShape
<1>5. /\ ctrl' \in [Sides -> Seq(Plain)] /\ data' \in [Sides -> Seq(Frames)] /\ reply' \in [Sides -> Seq(Answers)]
      /\ \A q \in Sides : data'[q] \in Seq(Sendable(q)) /\ Len(reply'[q]) <= 1
  <2>1. CASE FromReply(p, f)
    <3>1. <<>> \in Seq(Answers) /\ Len(<<>>) = 0
      OBVIOUS
    <3> QED
      BY <2>1, <3>1 DEF FromReply, MuxShape
  <2>2. CASE FromCtrl(p, f)
    <3> DEFINE t == Tail(ctrl[p])
    <3>1. t \in Seq(Plain) /\ ctrl' = [ctrl EXCEPT ![p] = t] /\ data' = data /\ reply' = reply
      BY <2>2, <1>1, Shorter DEF FromCtrl
    <3> HIDE DEF t
    <3> QED
      BY <3>1 DEF MuxShape
  <2>3. CASE FromData(p, f)
    <3> DEFINE t == Tail(data[p])
    <3>1. t \in Seq(Frames) /\ t \in Seq(Sendable(p)) /\ data' = [data EXCEPT ![p] = t] /\ ctrl' = ctrl /\ reply' = reply
      BY <2>3, <1>1, Shorter DEF FromData
    <3> HIDE DEF t
    <3> QED
      BY <3>1 DEF MuxShape
  <2> QED
    BY <2>1, <2>2, <2>3 DEF Sends
<1> QED
  BY <1>2, <1>4, <1>5 DEF MuxShape

LEMMA SendsAlike ==
  ASSUME MuxShape, NEW p \in Sides, NEW f, Sends(p, f), NEW j \in Streams, NEW q \in Sides, NEW k \in Kinds
  PROVE  InFlight(q, k, j)' = InFlight(q, k, j)
<1>1. chan' = chan /\ f \in Frames
  BY DEF Sends
<1>2. CASE q # p
  BY <1>1, <1>2, SendsQueues DEF InFlight
<1>3. CASE q = p
  <2>1. ctrl[p] \in Seq(Frames) /\ data[p] \in Seq(Frames) /\ wire[p] \in Seq(Frames)
    BY ShapeQueues
  <2>2. Part(f, k, j) \in Nat
    BY <1>1, PartIsNat
  <2>3. Sum(wire'[p], k, j) = Sum(wire[p], k, j) + Part(f, k, j)
    <3>1. wire'[p] = Append(wire[p], f)
      BY SendsQueues
    <3>2. Sum(Append(wire[p], f), k, j) = Sum(wire[p], k, j) + Part(f, k, j)
      BY <1>1, <2>1, SumAppend
    <3> QED
      BY <3>1, <3>2
  <2>4. \/ Sum(ctrl[p], k, j) = Sum(ctrl'[p], k, j) + Part(f, k, j) /\ Sum(data'[p], k, j) = Sum(data[p], k, j)
        \/ Sum(data[p], k, j) = Sum(data'[p], k, j) + Part(f, k, j) /\ Sum(ctrl'[p], k, j) = Sum(ctrl[p], k, j)
    <3>1. CASE FromReply(p, f)
      <4>1. Part(f, k, j) = 0 /\ ctrl'[p] = ctrl[p] /\ data'[p] = data[p]
        BY <3>1, SendsQueues DEF FromReply, Answers, Part
      <4> QED
        BY <4>1, FlightNat
    <3>2. CASE FromCtrl(p, f)
      <4>1. ctrl[p] # <<>> /\ f = Head(ctrl[p]) /\ ctrl'[p] = Tail(ctrl[p]) /\ data'[p] = data[p]
        BY <3>2, SendsQueues DEF FromCtrl
      <4>2. Sum(ctrl[p], k, j) = Part(f, k, j) + Sum(ctrl'[p], k, j) /\ ctrl'[p] \in Seq(Frames)
        BY <4>1, <2>1, SumTail
      <4>3. Sum(ctrl'[p], k, j) \in Nat
        BY <4>2, SumNat
      <4> QED
        BY <4>1, <4>2, <4>3, <2>2
    <3>3. CASE FromData(p, f)
      <4>1. data[p] # <<>> /\ f = Head(data[p]) /\ data'[p] = Tail(data[p]) /\ ctrl'[p] = ctrl[p]
        BY <3>3, SendsQueues DEF FromData
      <4>2. Sum(data[p], k, j) = Part(f, k, j) + Sum(data'[p], k, j) /\ data'[p] \in Seq(Frames)
        BY <4>1, <2>1, SumTail
      <4>3. Sum(data'[p], k, j) \in Nat
        BY <4>2, SumNat
      <4> QED
        BY <4>1, <4>2, <4>3, <2>2
    <3> QED
      BY <3>1, <3>2, <3>3 DEF Sends
  <2>5. /\ Sum(chan[p][j], k, j) \in Nat /\ Sum(ctrl[p], k, j) \in Nat /\ Sum(data[p], k, j) \in Nat /\ Sum(wire[p], k, j) \in Nat
    BY FlightNat
  <2>6. Sum(ctrl'[p], k, j) \in Nat /\ Sum(data'[p], k, j) \in Nat
    <3>1. ctrl'[p] \in Seq(Plain) /\ data'[p] \in Seq(Frames) /\ Plain \subseteq Frames
      BY SendsShape DEF MuxShape, Plain
    <3>2. ctrl'[p] \in Seq(Frames)
      BY <3>1, SeqMonotonic
    <3> QED
      BY <3>1, <3>2, SumNat
  <2>7. InFlight(p, k, j)' = Sum(chan[p][j], k, j) + Sum(ctrl'[p], k, j) + Sum(data'[p], k, j) + Sum(wire'[p], k, j)
    BY <1>1 DEF InFlight
  <2>8. InFlight(p, k, j) = Sum(chan[p][j], k, j) + Sum(ctrl[p], k, j) + Sum(data[p], k, j) + Sum(wire[p], k, j)
    BY DEF InFlight
  <2> QED
    BY <2>2, <2>3, <2>4, <2>5, <2>6, <2>7, <2>8, <1>3
<1> QED
  BY <1>2, <1>3

LEMMA SendsSyn ==
  ASSUME MuxShape, SynOnce, NEW p \in Sides, NEW f, Sends(p, f)
  PROVE  SynOnce' /\ \A j \in Streams : UnderWay(j)' = UnderWay(j)
<1> DEFINE c == "client"
<1>1. ep' = ep /\ chan' = chan /\ f \in Frames /\ f \in Sendable(p) /\ c \in Sides
  BY SideFacts DEF Sends
<1>2. \A j \in Streams : Owed(j)' = Owed(j) /\ Met(j)' = Met(j) /\ InChan(j)' = InChan(j)
  BY <1>1 DEF Owed, Met, InChan
<1>3. CASE p # c
  <2>1. data'[c] = data[c] /\ wire'[c] = wire[c]
    BY <1>1, <1>3, SendsQueues
  <2>2. SynOnce'
    BY <2>1, <1>1, <1>2, SynStill
  <2>3. \A j \in Streams : UnderWay(j)' = UnderWay(j)
    BY <2>1, <1>2 DEF UnderWay, InWire, InData
  <2> QED
    BY <2>2, <2>3
<1>4. CASE p = c
  <2>1. ASSUME NEW j \in Streams PROVE Announced(j)' /\ UnderWay(j)' = UnderWay(j)
    <3>1. Announced(j)
      BY DEF SynOnce
    <3>2. /\ Owed(j) \in Nat /\ InChan(j) \in Nat /\ InData(j) \in Nat /\ InWire(j) \in Nat /\ Met(j) \in Nat
          /\ UnderWay(j) = Owed(j) + InChan(j) + InData(j) + InWire(j)
      BY SynNat
    <3>3. UnderWay(j)' = Owed(j) + InChan(j) + InData(j)' + InWire(j)'
      BY <1>2 DEF UnderWay
    <3>4. wire[c] \in Seq(Frames) /\ data[c] \in Seq(Frames) /\ Sum(wire[c], "data", j) \in Nat
      BY <1>1, ShapeQueues, SumNat
    <3>5. wire'[c] = Append(wire[c], f)
      BY <1>4, SendsQueues
    <3>6. CASE data'[c] = data[c] /\ f \in Plain
      <4>1. Syn(f, j) = 0 /\ Part(f, "data", j) = 0 /\ "SYN" \notin f.fl
        BY <3>6, PlainFrames DEF Plain
      <4>2. Sum(wire'[c], "data", j) = Sum(wire[c], "data", j) + 0 /\ InWire(j)' = InWire(j) + 0
        BY <4>1, <3>4, <3>5, <1>1, SumAppend DEF InWire
      <4>3. Sum(wire'[c], "data", j) = Sum(wire[c], "data", j) /\ InWire(j)' = InWire(j)
        BY <4>2, <3>2, <3>4
      <4>4. InData(j)' = InData(j)
        BY <3>6 DEF InData
      <4>5. Lead(wire'[c], j)
        <5>1. Lead(wire[c], j)
          BY <3>1 DEF Announced
        <5>2. Lead(Append(wire[c], f), j)
          BY <5>1, <4>1, <3>4, <1>1, LeadAppend
        <5> QED
          BY <5>2, <3>5
      <4> QED
        BY <4>3, <4>4, <4>5, <3>1, <3>2, <3>3, <3>6, <1>1, <1>2 DEF Announced
    <3>7. CASE data[c] # <<>> /\ f = Head(data[c]) /\ data'[c] = Tail(data[c])
      <4> DEFINE s == data[c]
                 t == Tail(data[c])
      <4>1. s \in Seq(Frames) /\ s # <<>> /\ f = Head(s) /\ t = Tail(s) /\ data'[c] = t
        BY <3>4, <3>7
      <4>2. Lead(s, j) /\ Lead(wire[c], j) /\ (InData(j) > 0 => Sum(wire[c], "data", j) = 0) /\ InData(j) = Syns(s, j)
        BY <3>1, <3>2 DEF Announced, InData
      <4>3. "SYN" \in f.fl => f.n = 0
        BY <1>1 DEF Sendable
      <4> HIDE DEF s, t
      <4>4. /\ Lead(t, j) /\ Lead(Append(wire[c], f), j)
            /\ Syns(t, j) > 0 => Sum(Append(wire[c], f), "data", j) = 0
            /\ Sum(s, "data", j) = 0 /\ Sum(wire[c], "data", j) = 0 =>
                 Sum(t, "data", j) = 0 /\ Sum(Append(wire[c], f), "data", j) = 0
            /\ Sum(s, "data", j) = 0 => Sum(t, "data", j) = 0
            /\ Syns(s, j) = Syns(t, j) + Syn(f, j) /\ Syns(Append(wire[c], f), j) = Syns(wire[c], j) + Syn(f, j)
            /\ {Syns(s, j), Syns(wire[c], j), Syns(t, j), Syn(f, j)} \subseteq Nat
        BY <4>1, <4>2, <4>3, <3>4, Handover
      <4>5. InData(j)' = Syns(t, j) /\ InWire(j) = Syns(wire[c], j) /\ InWire(j)' = Syns(Append(wire[c], f), j) /\ s = data[c]
        BY <4>1, <3>5 DEF InData, InWire, s
      <4>6. InWire(j)' = InWire(j) + Syn(f, j) /\ InData(j) = InData(j)' + Syn(f, j) /\ InData(j)' \in Nat /\ Syn(f, j) \in Nat
        BY <4>2, <4>4, <4>5
      <4>7. UnderWay(j)' = UnderWay(j)
        BY <4>6, <3>2, <3>3
      <4>8. Owed(j)' + InChan(j)' > 0 => Sum(data'[c], "data", j) = 0
        BY <4>1, <4>4, <4>5, <3>1, <1>2 DEF Announced
      <4>9. Owed(j)' + InChan(j)' + InData(j)' > 0 => Sum(wire'[c], "data", j) = 0
        <5>1. Owed(j) + InChan(j) > 0 => Sum(s, "data", j) = 0 /\ Sum(wire[c], "data", j) = 0
          BY <4>5, <3>1, <3>2 DEF Announced
        <5>2. Owed(j) + InChan(j) \in Nat
          BY <3>2
        <5>3. CASE Owed(j) + InChan(j) > 0
          BY <5>1, <5>3, <4>4, <3>5
        <5>4. CASE ~(Owed(j) + InChan(j) > 0)
          BY <5>2, <5>4, <4>4, <4>5, <4>6, <3>2, <3>5, <1>2
        <5> QED
          BY <5>3, <5>4
      <4>10. Lead(data'[c], j) /\ Lead(wire'[c], j)
        BY <4>1, <4>4, <3>5
      <4> QED
        BY <4>7, <4>8, <4>9, <4>10, <3>1, <1>1, <1>2 DEF Announced
    <3> QED
      <4>1. FromReply(p, f) \/ FromCtrl(p, f) => data'[c] = data[c] /\ f \in Plain
        BY <1>4, SendsQueues, FrameSets DEF FromReply, FromCtrl
      <4>2. FromData(p, f) => data[c] # <<>> /\ f = Head(data[c]) /\ data'[c] = Tail(data[c])
        BY <1>4, SendsQueues DEF FromData
      <4> QED
        BY <4>1, <4>2, <3>6, <3>7 DEF Sends
  <2> QED
    BY <2>1 DEF SynOnce
<1> QED
  BY <1>3, <1>4

LEMMA TransmitKeeps ==
  ASSUME MuxInv, NEW p \in Sides, Transmit(p)
  PROVE  MuxInv'
<1>1. MuxShape /\ SynOnce /\ Members /\ Ledger
  BY DEF MuxInv
<1>2. PICK f : Sends(p, f)
  BY <1>1, TransmitSends
<1>3. conn' = conn /\ known' = known /\ ep' = ep
  BY <1>2 DEF Sends
<1>4. \A j \in Streams : Alike(j)
  BY <1>1, <1>2, <1>3, SendsAlike, SendsSyn DEF Alike
<1> QED
  BY <1>1, <1>2, <1>3, <1>4, SendsShape, SendsSyn, StillMembers, LedgerStays DEF MuxInv, Ledger

(* The driver lets go of a dropped stream, and tells the peer if it must.  *)
LEMMA NoticeIs ==
  ASSUME NEW i \in Streams, NEW s \in StreamStates
  PROVE  DropNotice(i, s) = <<>> \/ \E f \in Answers : DropNotice(i, s) = <<f>>
<1>1. ASSUME NEW x \in {"RST", "FIN"} PROVE Frame("data", i, 0, {x}) \in Answers
  <2> DEFINE f == Frame("data", i, 0, {x})
  <2>1. {x} \in Flags /\ "SYN" \notin {x}
    BY DEF Flags
  <2>2. f \in Frames
    BY <2>1, FrameTyped DEF Kinds
  <2>3. f.k = "data" /\ f.id = i /\ f.n = 0 /\ f.fl = {x}
    BY FrameIs
  <2> HIDE DEF f
  <2> QED
    BY <2>1, <2>2, <2>3 DEF Answers, Plain, f
<1>2. CASE s = "open"
  BY <1>1, <1>2 DEF DropNotice
<1>3. CASE s = "recvClosed"
  BY <1>1, <1>3 DEF DropNotice
<1>4. CASE s \notin {"open", "recvClosed"}
  BY <1>4 DEF DropNotice
<1> QED
  BY <1>2, <1>3, <1>4

LEMMA AnswerCounts ==
  ASSUME NEW f \in Answers, NEW j
  PROVE  f \in Frames /\ Syn(f, j) = 0 /\ \A k : Part(f, k, j) = 0
BY DEF Answers, Plain, Syn, Part

LEMMA ReapFacts ==
  ASSUME MuxShape, NEW p \in Sides, NEW i \in Streams, ReapDropped(p, i)
  PROVE  /\ ep[p][i].handle = "dropped"
         /\ known'[p] = known[p] \ {i} /\ known' \in [Sides -> SUBSET Streams]
         /\ \A q \in Sides : q # p => known'[q] = known[q] /\ ctrl'[q] = ctrl[q]
         /\ \E e \in EndStates : /\ ep' = [ep EXCEPT ![p][i] = e] /\ e.handle = "gone" /\ e.flag = ep[p][i].flag
                                 /\ e.sw = ep[p][i].sw /\ e.rw = ep[p][i].rw /\ e.buf = ep[p][i].buf
         /\ ctrl' \in [Sides -> Seq(Plain)]
         /\ ctrl'[p] = ctrl[p] \/ \E f \in Answers : ctrl'[p] = Append(ctrl[p], f)
         /\ conn' = conn /\ chan' = chan /\ data' = data /\ reply' = reply /\ wire' = wire
<1> DEFINE d == ep[p][i]
           e == [d EXCEPT !.handle = "gone", !.st = "closed"]
           x == IF i \in known[p] THEN DropNotice(i, d.st) ELSE <<>>
<1>1. d \in EndStates /\ d.st \in StreamStates
  BY EndFacts DEF EndStates
<1>2. /\ d.handle = "dropped" /\ known' = [known EXCEPT ![p] = @ \ {i}] /\ ep' = [ep EXCEPT ![p][i] = e]
      /\ ctrl' = [ctrl EXCEPT ![p] = ctrl[p] \o x]
      /\ conn' = conn /\ chan' = chan /\ data' = data /\ reply' = reply /\ wire' = wire
  BY DEF ReapDropped
<1>3. x = <<>> \/ \E f \in Answers : x = <<f>>
  BY <1>1, NoticeIs
<1>4. /\ e \in EndStates /\ e.handle = "gone" /\ e.flag = d.flag /\ e.sw = d.sw /\ e.rw = d.rw /\ e.buf = d.buf
  <2> HIDE DEF d
  <2> QED
    BY <1>1 DEF EndStates, StreamStates
<1> HIDE DEF x, e
<1>5. ctrl[p] \in Seq(Plain)
  BY ShapeQueues
<1>6. ctrl[p] \o x = ctrl[p] \/ \E f \in Answers : ctrl[p] \o x = Append(ctrl[p], f)
  <2>1. CASE x = <<>>
    BY <2>1, <1>5
  <2>2. ASSUME NEW f \in Answers, x = <<f>> PROVE ctrl[p] \o x = Append(ctrl[p], f)
    <3>1. f \in Plain
      BY DEF Answers
    <3>2. Append(ctrl[p], f) = ctrl[p] \o <<f>>
      BY <3>1, <1>5, AppendIsConcat
    <3> QED
      BY <3>2, <2>2
  <2> QED
    BY <2>1, <2>2, <1>3
<1>7. ctrl[p] \o x \in Seq(Plain)
  <2>1. ASSUME NEW f \in Answers PROVE Append(ctrl[p], f) \in Seq(Plain)
    <3>1. f \in Plain
      BY DEF Answers
    <3> QED
      BY <3>1, <1>5, Longer
  <2> QED
    BY <2>1, <1>5, <1>6
<1> DEFINE y == ctrl[p] \o x
<1>8. y \in Seq(Plain) /\ ctrl' = [ctrl EXCEPT ![p] = y] /\ (y = ctrl[p] \/ \E f \in Answers : y = Append(ctrl[p], f))
  BY <1>2, <1>6, <1>7
<1> HIDE DEF y
<1>9. ctrl' \in [Sides -> Seq(Plain)] /\ ctrl'[p] = y /\ \A q \in Sides : q # p => ctrl'[q] = ctrl[q]
  BY <1>8 DEF MuxShape
<1>10. known'[p] = known[p] \ {i} /\ known' \in [Sides -> SUBSET Streams] /\ \A q \in Sides : q # p => known'[q] = known[q]
  BY <1>2 DEF MuxShape
<1> QED
  BY <1>2, <1>4, <1>8, <1>9, <1>10

LEMMA ReapFlight ==
  ASSUME MuxShape, NEW p \in Sides, NEW i \in Streams, ReapDropped(p, i)
  PROVE  \A q \in Sides, j \in Streams, k \in Kinds : InFlight(q, k, j)' = InFlight(q, k, j)
<1>1. /\ \A q \in Sides : q # p => ctrl'[q] = ctrl[q]
      /\ ctrl'[p] = ctrl[p] \/ \E f \in Answers : ctrl'[p] = Append(ctrl[p], f)
      /\ chan' = chan /\ data' = data /\ wire' = wire
  BY ReapFacts
<1>2. ASSUME NEW q \in Sides, NEW j \in Streams, NEW k \in Kinds PROVE Sum(ctrl'[q], k, j) = Sum(ctrl[q], k, j)
  <2>1. CASE ctrl'[q] = ctrl[q]
    BY <2>1
  <2>2. ASSUME q = p, NEW f \in Answers, ctrl'[p] = Append(ctrl[p], f) PROVE Sum(ctrl'[q], k, j) = Sum(ctrl[q], k, j)
    <3>1. f \in Frames /\ Part(f, k, j) = 0
      BY AnswerCounts
    <3>2. ctrl[p] \in Seq(Frames)
      BY ShapeQueues
    <3>3. Sum(Append(ctrl[p], f), k, j) = Sum(ctrl[p], k, j) + 0 /\ Sum(ctrl[p], k, j) \in Nat
      BY <3>1, <3>2, SumAppend, SumNat
    <3> QED
      BY <3>3, <2>2
  <2> QED
    BY <2>1, <2>2, <1>1
<1> QED
  BY <1>1, <1>2 DEF InFlight

LEMMA ReapKeeps ==
  ASSUME MuxInv, NEW p \in Sides, NEW i \in Streams, ReapDropped(p, i)
  PROVE  MuxInv'
<1>1. MuxShape /\ SynOnce /\ Members /\ Ledger
  BY DEF MuxInv
<1>2. /\ ep[p][i].handle = "dropped" /\ known'[p] = known[p] \ {i} /\ known' \in [Sides -> SUBSET Streams]
      /\ \A q \in Sides : q # p => known'[q] = known[q] /\ ctrl'[q] = ctrl[q]
      /\ ctrl' \in [Sides -> Seq(Plain)]
      /\ ctrl'[p] = ctrl[p] \/ \E f \in Answers : ctrl'[p] = Append(ctrl[p], f)
      /\ conn' = conn /\ chan' = chan /\ data' = data /\ reply' = reply /\ wire' = wire
  BY <1>1, ReapFacts
<1>3. PICK e \in EndStates : /\ ep' = [ep EXCEPT ![p][i] = e] /\ e.handle = "gone" /\ e.flag = ep[p][i].flag
                             /\ e.sw = ep[p][i].sw /\ e.rw = ep[p][i].rw /\ e.buf = ep[p][i].buf
  BY <1>1, ReapFacts
<1>4. ep'[p][i] = e /\ \A q \in Sides, j \in Streams : q # p \/ j # i => ep'[q][j] = ep[q][j]
  BY <1>1, <1>3, PutEnd
<1>5. MuxShape'
  <2>1. ep' \in [Sides -> [Streams -> EndStates]]
    BY <1>1, <1>3 DEF MuxShape
  <2> QED
    BY <2>1, <1>1, <1>2 DEF MuxShape
<1>6. \A q \in Sides, j \in Streams, k \in Kinds : InFlight(q, k, j)' = InFlight(q, k, j)
  BY <1>1, ReapFlight
<1>7. \A j \in Streams : /\ Owed(j)' = Owed(j) /\ Met(j)' = Met(j) /\ UnderWay(j)' = UnderWay(j)
                         /\ (ep'["client"][j].handle = "none" => ep["client"][j].handle = "none")
  <2>1. ASSUME NEW j \in Streams
        PROVE  /\ Owed(j)' = Owed(j) /\ Met(j)' = Met(j)
               /\ (ep'["client"][j].handle = "none" => ep["client"][j].handle = "none")
    <3>1. \A q \in Sides : /\ ep'[q][j].flag = ep[q][j].flag
                           /\ (ep'[q][j].handle = "none" <=> ep[q][j].handle = "none")
      BY <1>2, <1>3, <1>4
    <3> QED
      BY <3>1, SideFacts DEF Owed, Met
  <2> QED
    BY <2>1, <1>2 DEF UnderWay, InChan, InData, InWire
<1>8. SynOnce'
  BY <1>1, <1>2, <1>7, SynStill
<1>9. Members'
  <2>1. ASSUME NEW q \in Sides, NEW j \in Streams PROVE MemberAt(q, j)'
    <3>1. MemberAt(q, j)
      BY <1>1 DEF Members
    <3>2. CASE q = p /\ j = i
      BY <3>1, <3>2, <1>2, <1>3, <1>4 DEF MemberAt, Present
    <3>3. CASE q # p \/ j # i
      <4>1. ep'[q][j] = ep[q][j] /\ (j \in known'[q] <=> j \in known[q])
        BY <3>3, <1>2, <1>4
      <4> QED
        BY <4>1, <3>1, <1>2 DEF MemberAt, Present
    <3> QED
      BY <3>2, <3>3
  <2> QED
    BY <2>1 DEF Members
<1>10. Ledger'
  <2>1. ASSUME NEW j \in Streams PROVE LedgerAt(j)'
    <3>1. \A q \in Sides : /\ (ep'[q][j].handle = "none" <=> ep[q][j].handle = "none")
                           /\ ep'[q][j].sw = ep[q][j].sw /\ ep'[q][j].rw = ep[q][j].rw /\ ep'[q][j].buf = ep[q][j].buf
                           /\ (j \in known'[q] => j \in known[q])
      BY <1>2, <1>3, <1>4
    <3>2. Alike(j)
      BY <3>1, <1>6, <1>7 DEF Alike
    <3> QED
      BY <3>2, <1>1, LedgerStays DEF Ledger
  <2> QED
    BY <2>1 DEF Ledger
<1> QED
  BY <1>5, <1>8, <1>9, <1>10 DEF MuxInv

-----------------------------------------------------------------------------
(* A frame f leaves the socket at side p.                                  *)
Arrives(p, f) ==
  /\ wire[Peer(p)] # <<>> /\ f = Head(wire[Peer(p)])
  /\ wire' = [wire EXCEPT ![Peer(p)] = Tail(wire[Peer(p)])]
  /\ conn' = conn /\ chan' = chan /\ ctrl' = ctrl /\ data' = data

LEMMA ArrivesFacts ==
  ASSUME MuxShape, NEW p \in Sides, NEW f, Arrives(p, f)
  PROVE  /\ f \in Frames /\ f \in Sendable(Peer(p)) /\ f.id \in Streams /\ f.n \in Nat
         /\ wire'[Peer(p)] = Tail(wire[Peer(p)]) /\ wire'[p] = wire[p]
         /\ wire[Peer(p)] \in Seq(Frames) /\ wire[Peer(p)] # <<>> /\ f = Head(wire[Peer(p)])
<1> DEFINE q == Peer(p)
<1>1. q \in Sides /\ q # p
  BY SideFacts
<1>2. wire[q] \in Seq(Sendable(q)) /\ wire[q] \in Seq(Frames)
  BY <1>1, ShapeQueues
<1>3. wire[q] # <<>> /\ f = Head(wire[q]) /\ wire' = [wire EXCEPT ![q] = Tail(wire[q])]
  BY DEF Arrives
<1> HIDE DEF q
<1>4. f \in Sendable(q) /\ f \in Frames
  BY <1>2, <1>3
<1>5. f.id \in Streams /\ f.n \in Nat
  BY <1>4 DEF Sendable, Frames
<1>6. wire'[q] = Tail(wire[q]) /\ wire'[p] = wire[p]
  BY <1>1, <1>3 DEF MuxShape
<1> QED
  BY <1>2, <1>3, <1>4, <1>5, <1>6 DEF q

LEMMA ArrivesFlight ==
  ASSUME MuxShape, NEW p \in Sides, NEW f, Arrives(p, f), NEW j \in Streams, NEW k \in Kinds
  PROVE  /\ InFlight(p, k, j)' = InFlight(p, k, j)
         /\ InFlight(Peer(p), k, j) = InFlight(Peer(p), k, j)' + Part(f, k, j)
         /\ InFlight(Peer(p), k, j)' \in Nat /\ Part(f, k, j) \in Nat
<1> DEFINE q == Peer(p)
<1>1. q \in Sides
  BY SideFacts
<1>2. /\ f \in Frames /\ wire'[q] = Tail(wire[q]) /\ wire'[p] = wire[p]
      /\ wire[q] \in Seq(Frames) /\ wire[q] # <<>> /\ f = Head(wire[q])
  BY ArrivesFacts
<1>3. chan' = chan /\ ctrl' = ctrl /\ data' = data
  BY DEF Arrives
<1> HIDE DEF q
<1>4. InFlight(p, k, j)' = InFlight(p, k, j)
  BY <1>2, <1>3 DEF InFlight
<1>5. Sum(wire[q], k, j) = Part(f, k, j) + Sum(wire'[q], k, j) /\ wire'[q] \in Seq(Frames)
  BY <1>2, SumTail
<1>6. Sum(wire'[q], k, j) \in Nat /\ Part(f, k, j) \in Nat
  BY <1>2, <1>5, SumNat, PartIsNat
<1>7. /\ Sum(chan[q][j], k, j) \in Nat /\ Sum(ctrl[q], k, j) \in Nat /\ Sum(data[q], k, j) \in Nat
  BY <1>1, FlightNat
<1>8. InFlight(q, k, j)' = Sum(chan[q][j], k, j) + Sum(ctrl[q], k, j) + Sum(data[q], k, j) + Sum(wire'[q], k, j)
  BY <1>3 DEF InFlight
<1>9. InFlight(q, k, j) = Sum(chan[q][j], k, j) + Sum(ctrl[q], k, j) + Sum(data[q], k, j) + Sum(wire[q], k, j)
  BY DEF InFlight
<1>10. InFlight(q, k, j) = InFlight(q, k, j)' + Part(f, k, j) /\ InFlight(q, k, j)' \in Nat
  BY <1>5, <1>6, <1>7, <1>8, <1>9
<1> QED
  BY <1>4, <1>6, <1>10 DEF q

LEMMA ArrivesShape ==
  ASSUME MuxShape, NEW p \in Sides, NEW f, Arrives(p, f), ep' \in [Sides -> [Streams -> EndStates]],
         known' \in [Sides -> SUBSET Streams], reply' \in [Sides -> Seq(Answers)], \A q \in Sides : Len(reply'[q]) <= 1
  PROVE  MuxShape'
<1> DEFINE q == Peer(p)
           t == Tail(wire[q])
<1>1. q \in Sides /\ wire[q] \in Seq(Sendable(q)) /\ wire[q] \in Seq(Frames) /\ Len(wire[q]) <= WireCap
      /\ WireCap \in Nat /\ wire[q] # <<>>
  BY SideFacts, ShapeQueues, MuxAssumption DEF Arrives
<1>2. t \in Seq(Sendable(q)) /\ t \in Seq(Frames) /\ Len(t) <= WireCap
  BY <1>1, Shorter
<1>3. wire' = [wire EXCEPT ![q] = t]
  BY DEF Arrives
<1> HIDE DEF q, t
<1>4. /\ wire' \in [Sides -> Seq(Frames)]
      /\ \A r \in Sides : wire'[r] \in Seq(Sendable(r)) /\ Len(wire'[r]) <= WireCap
  BY <1>1, <1>2, <1>3 DEF MuxShape
<1> QED
  BY <1>4 DEF MuxShape, Arrives

(* The announcement, if f is one, is no longer under way.                  *)
LEMMA ArrivesWay ==
  ASSUME MuxShape, NEW p \in Sides, NEW f, Arrives(p, f), NEW j \in Streams, Owed(j)' = Owed(j)
  PROVE  /\ UnderWay(j) = UnderWay(j)' + Syn(f, j) /\ UnderWay(j)' \in Nat /\ Syn(f, j) \in Nat
         /\ InChan(j)' = InChan(j) /\ InData(j)' = InData(j)
         /\ InWire(j) = InWire(j)' + Syn(f, j) /\ InWire(j)' \in Nat
<1>1. InChan(j)' = InChan(j) /\ InData(j)' = InData(j)
  BY DEF Arrives, InChan, InData
<1>2. /\ f \in Frames /\ f \in Sendable(Peer(p)) /\ wire'[Peer(p)] = Tail(wire[Peer(p)]) /\ wire'[p] = wire[p]
      /\ wire[Peer(p)] \in Seq(Frames) /\ wire[Peer(p)] # <<>> /\ f = Head(wire[Peer(p)])
  BY ArrivesFacts
<1>3. Syn(f, j) \in Nat
  BY <1>2, PartIsNat
<1>4. InWire(j) = InWire(j)' + Syn(f, j) /\ InWire(j)' \in Nat
  <2>1. CASE p = "client"
    <3>1. Peer(p) = "server"
      BY <2>1, SideFacts
    <3>2. Syn(f, j) = 0
      BY <3>1, <1>2 DEF Sendable, Syn
    <3>3. InWire(j)' = InWire(j)
      BY <2>1, <1>2 DEF InWire
    <3> QED
      BY <3>2, <3>3, SynNat
  <2>2. CASE p = "server"
    <3>1. Peer(p) = "client"
      BY <2>2, SideFacts
    <3>2. Syns(wire["client"], j) = Syn(f, j) + Syns(wire'["client"], j) /\ wire'["client"] \in Seq(Frames)
      BY <3>1, <1>2, SumTail
    <3>3. Syns(wire'["client"], j) \in Nat
      BY <3>2, SumNat
    <3> QED
      BY <3>2, <3>3, <1>3 DEF InWire
  <2> QED
    BY <2>1, <2>2, SideFacts
<1>5. UnderWay(j)' = Owed(j) + InChan(j) + InData(j) + InWire(j)'
  BY <1>1 DEF UnderWay
<1>6. UnderWay(j) = UnderWay(j)' + Syn(f, j) /\ UnderWay(j)' \in Nat
  BY <1>3, <1>4, <1>5, SynNat
<1> QED
  BY <1>1, <1>3, <1>4, <1>6

LEMMA ArrivesSyn ==
  ASSUME MuxShape, SynOnce, NEW p \in Sides, NEW f, Arrives(p, f),
         \A j \in Streams : /\ Owed(j)' = Owed(j) /\ Met(j)' \in Nat /\ Met(j)' <= Met(j) + Syn(f, j)
                            /\ (ep'["client"][j].handle = "none" => ep["client"][j].handle = "none")
  PROVE  SynOnce'
<1> SUFFICES ASSUME NEW j \in Streams PROVE Announced(j)'
  BY DEF SynOnce
<1>1. Announced(j)
  BY DEF SynOnce
<1>2. /\ Owed(j)' = Owed(j) /\ UnderWay(j) = UnderWay(j)' + Syn(f, j) /\ UnderWay(j)' \in Nat /\ Syn(f, j) \in Nat
      /\ InChan(j)' = InChan(j) /\ InData(j)' = InData(j)
  BY ArrivesWay
<1>3. UnderWay(j)' + Met(j)' <= UnderWay(j) + Met(j) /\ UnderWay(j)' + Met(j)' \in Nat /\ UnderWay(j) + Met(j) \in Nat
  <2>1. Met(j) \in Nat /\ UnderWay(j) \in Nat /\ Met(j)' \in Nat /\ Met(j)' <= Met(j) + Syn(f, j)
    BY SynNat
  <2> QED
    BY <2>1, <1>2
<1>4. UnderWay(j)' + Met(j)' <= 1 /\ (ep'["client"][j].handle = "none" => UnderWay(j)' + Met(j)' = 0)
  BY <1>1, <1>3 DEF Announced
<1>5. Lead(wire'["client"], j) /\ (Sum(wire["client"], "data", j) = 0 => Sum(wire'["client"], "data", j) = 0)
  <2>1. CASE p = "client"
    <3>1. wire'["client"] = wire["client"]
      BY <2>1, ArrivesFacts
    <3> QED
      BY <3>1, <1>1 DEF Announced
  <2>2. CASE p = "server"
    <3> DEFINE s == wire["client"]
    <3>1. s \in Seq(Frames) /\ s # <<>> /\ wire'["client"] = Tail(s)
      BY <2>2, SideFacts, ArrivesFacts
    <3>2. Lead(s, j)
      BY <1>1 DEF Announced
    <3> HIDE DEF s
    <3>3. Lead(Tail(s), j)
      BY <3>1, <3>2, LeadTail
    <3>4. Sum(s, "data", j) = Part(Head(s), "data", j) + Sum(Tail(s), "data", j) /\ Head(s) \in Frames /\ Tail(s) \in Seq(Frames)
      BY <3>1, SumTail
    <3>5. Part(Head(s), "data", j) \in Nat /\ Sum(Tail(s), "data", j) \in Nat
      BY <3>4, PartIsNat, SumNat
    <3>6. Sum(s, "data", j) = 0 => Sum(Tail(s), "data", j) = 0
      BY <3>4, <3>5
    <3> QED
      BY <3>1, <3>3, <3>6 DEF s
  <2> QED
    BY <2>1, <2>2, SideFacts
<1>6. chan' = chan /\ data' = data
  BY DEF Arrives
<1> QED
  BY <1>1, <1>2, <1>4, <1>5, <1>6 DEF Announced

LEMMA ArrivesOthers ==
  ASSUME MuxShape, Ledger, NEW p \in Sides, NEW f, Arrives(p, f), NEW j \in Streams, j # f.id,
         \A q \in Sides : ep'[q][j] = ep[q][j] /\ (j \in known'[q] => j \in known[q])
  PROVE  LedgerAt(j)'
<1>1. f \in Frames
  BY ArrivesFacts
<1>2. Syn(f, j) = 0 /\ \A k : Part(f, k, j) = 0
  BY <1>1, OtherStream
<1>3. Owed(j)' = Owed(j)
  BY SideFacts DEF Owed
<1>4. UnderWay(j)' = UnderWay(j)
  BY <1>2, <1>3, ArrivesWay
<1>5. ASSUME NEW q \in Sides, NEW k \in Kinds PROVE InFlight(q, k, j)' = InFlight(q, k, j)
  <2>1. q = p \/ q = Peer(p)
    BY SideFacts
  <2>2. InFlight(p, k, j)' = InFlight(p, k, j) /\ InFlight(Peer(p), k, j) = InFlight(Peer(p), k, j)' + 0
        /\ InFlight(Peer(p), k, j)' \in Nat
    BY <1>2, ArrivesFlight
  <2> QED
    BY <2>1, <2>2
<1>6. Alike(j)
  BY <1>4, <1>5 DEF Alike
<1> QED
  BY <1>6, LedgerStays DEF Ledger

(* A frame lands on a stream in the map.                                   *)
Lands(p, f, e) ==
  /\ Arrives(p, f) /\ f.id \in known[p] /\ known' = known /\ reply' = reply
  /\ e \in EndStates /\ ep' = [ep EXCEPT ![p][f.id] = e]
  /\ e.handle = ep[p][f.id].handle /\ e.flag = ep[p][f.id].flag
  /\ ep[p][f.id].st = "closed" => e.st = "closed"
  /\ ep[p][f.id].rw = e.rw + Part(f, "data", f.id)
  /\ e.buf = ep[p][f.id].buf + Part(f, "data", f.id)
  /\ e.sw = ep[p][f.id].sw + Part(f, "wu", f.id)

LEMMA LandsKeeps ==
  ASSUME MuxInv, NEW p \in Sides, NEW f, NEW e, Lands(p, f, e)
  PROVE  MuxInv'
<1> DEFINE i == f.id
           q == Peer(p)
           a == Part(f, "data", i)
           b == Part(f, "wu", i)
           d == ep[p][i]
<1>1. MuxShape /\ SynOnce /\ Members /\ Ledger
  BY DEF MuxInv
<1>2. q \in Sides /\ q # p /\ Peer(q) = p /\ \A r \in Sides : r = p \/ r = q
  BY SideFacts
<1>3. Arrives(p, f) /\ i \in known[p] /\ known' = known /\ reply' = reply /\ e \in EndStates /\ ep' = [ep EXCEPT ![p][i] = e]
      /\ e.handle = d.handle /\ e.flag = d.flag /\ (d.st = "closed" => e.st = "closed")
      /\ d.rw = e.rw + a /\ e.buf = d.buf + a /\ e.sw = d.sw + b /\ conn' = conn
  BY DEF Lands, Arrives
<1>4. i \in Streams
  BY <1>1, <1>3, ArrivesFacts
<1> HIDE DEF i, a, b, d
<1>5. ep'[p][i] = e /\ \A r \in Sides, j \in Streams : r # p \/ j # i => ep'[r][j] = ep[r][j]
  BY <1>1, <1>3, <1>4, PutEnd
<1>6. MuxShape'
  <2>1. ep' \in [Sides -> [Streams -> EndStates]]
    BY <1>1, <1>3, <1>4 DEF MuxShape
  <2> QED
    BY <2>1, <1>1, <1>3, ArrivesShape DEF MuxShape
<1>7. Members'
  <2>1. ASSUME NEW r \in Sides, NEW j \in Streams PROVE MemberAt(r, j)'
    <3>1. MemberAt(r, j)
      BY <1>1 DEF Members
    <3>2. CASE r = p /\ j = i
      BY <3>1, <3>2, <1>3, <1>5 DEF MemberAt, Present, d
    <3>3. CASE r # p \/ j # i
      BY <3>1, <3>3, <1>3, <1>5 DEF MemberAt, Present
    <3> QED
      BY <3>2, <3>3
  <2> QED
    BY <2>1 DEF Members
<1>8. \A r \in Sides, j \in Streams : ep'[r][j].handle = ep[r][j].handle /\ ep'[r][j].flag = ep[r][j].flag
  BY <1>3, <1>5 DEF d
<1>9. \A j \in Streams : Owed(j)' = Owed(j) /\ Met(j)' = Met(j)
  BY <1>8, SideFacts DEF Owed, Met
<1>10. SynOnce'
  <2>1. ASSUME NEW j \in Streams
        PROVE  /\ Owed(j)' = Owed(j) /\ Met(j)' \in Nat /\ Met(j)' <= Met(j) + Syn(f, j)
               /\ (ep'["client"][j].handle = "none" => ep["client"][j].handle = "none")
    <3>1. Owed(j)' = Owed(j) /\ Met(j)' = Met(j)
      BY <1>9
    <3>2. Met(j) \in Nat /\ Syn(f, j) \in Nat
      BY <3>1, <1>1, <1>3, SynNat, ArrivesWay
    <3> QED
      BY <3>1, <3>2, <1>8, SideFacts
  <2> QED
    BY <2>1, <1>1, <1>3, ArrivesSyn
<1>11. LedgerAt(i)'
  <2>1. /\ InFlight(p, "data", i)' = InFlight(p, "data", i) /\ InFlight(p, "wu", i)' = InFlight(p, "wu", i)
        /\ InFlight(q, "data", i) = InFlight(q, "data", i)' + a /\ InFlight(q, "wu", i) = InFlight(q, "wu", i)' + b
        /\ InFlight(q, "data", i)' \in Nat /\ InFlight(q, "wu", i)' \in Nat /\ a \in Nat /\ b \in Nat
    BY <1>1, <1>3, <1>4, ArrivesFlight DEF Kinds, a, b
  <2>2. /\ d.sw \in Nat /\ d.rw \in Nat /\ d.buf \in Nat /\ e.sw \in Nat /\ e.rw \in Nat /\ e.buf \in Nat
        /\ ep[q][i].sw \in Nat /\ ep[q][i].rw \in Nat
    BY <1>1, <1>2, <1>3, <1>4, EndFacts DEF EndStates, d
  <2>3. InFlight(p, "data", i) \in Nat /\ InFlight(p, "wu", i) \in Nat
    BY <1>1, <1>4, FlightNat
  <2>4. LedgerAt(i)
    BY <1>1, <1>4 DEF Ledger
  <2>5. ep'[p][i] = e /\ ep'[q][i] = ep[q][i] /\ known' = known /\ d = ep[p][i]
    BY <1>2, <1>3, <1>4, <1>5 DEF d
  <2> HIDE DEF q
  <2>6. Balanced(p, i)' /\ Fits(p, i)'
    <3>1. Balanced(p, i) /\ Fits(p, i)
      BY <2>4 DEF LedgerAt
    <3>2. Balanced(p, i)'
      BY <3>1, <2>1, <2>2, <2>3, <2>5, <1>3 DEF Balanced, q
    <3>3. Fits(p, i)'
      BY <3>1, <2>1, <2>5 DEF Fits, q
    <3> QED
      BY <3>2, <3>3
  <2>7. Balanced(q, i)' /\ Fits(q, i)'
    <3>1. Balanced(q, i) /\ Fits(q, i)
      BY <2>4, <1>2 DEF LedgerAt
    <3>2. Balanced(q, i)'
      <4>1. i \in known[q] /\ i \in known[p] => d.rw = ep[q][i].sw + InFlight(q, "data", i) + InFlight(p, "wu", i)
        BY <3>1, <2>5, <1>2 DEF Balanced
      <4>2. i \in known[q] /\ i \in known[p] => e.rw = ep[q][i].sw + InFlight(q, "data", i)' + InFlight(p, "wu", i)'
        <5>1. d.rw = e.rw + a /\ e.rw \in Nat /\ a \in Nat /\ ep[q][i].sw \in Nat
          BY <2>1, <2>2, <1>3
        <5>2. /\ InFlight(q, "data", i) = InFlight(q, "data", i)' + a /\ InFlight(q, "data", i)' \in Nat
              /\ InFlight(p, "wu", i)' = InFlight(p, "wu", i) /\ InFlight(p, "wu", i) \in Nat
          BY <2>1, <2>3
        <5> DEFINE m == InFlight(q, "data", i)'
                   w == InFlight(p, "wu", i)'
                   u == ep[q][i].sw
                   r == e.rw
        <5>3. r \in Nat /\ u \in Nat /\ m \in Nat /\ w \in Nat
          BY <5>1, <5>2
        <5>4. i \in known[q] /\ i \in known[p] => r + a = u + (m + a) + w
          BY <4>1, <5>1, <5>2
        <5> HIDE DEF m, w, u, r
        <5>5. i \in known[q] /\ i \in known[p] => r = u + m + w
          BY <5>1, <5>3, <5>4
        <5> QED
          BY <5>5 DEF m, w, u, r
      <4> QED
        BY <4>2, <2>5, <1>2 DEF Balanced
    <3>3. Fits(q, i)'
      BY <3>1, <2>1, <2>2, <2>3, <2>5, <1>2, <1>3 DEF Fits
    <3> QED
      BY <3>2, <3>3
  <2>8. ASSUME ep'["server"][i].handle = "none" PROVE Unmet(i)'
    <3>1. ep["server"][i].handle = "none"
      BY <2>8, <1>4, <1>8, SideFacts
    <3>2. p = "client" /\ q = "server"
      <4>1. Present(p, i)
        BY <1>1, <1>3, <1>4 DEF Members, MemberAt
      <4> QED
        BY <4>1, <3>1, <1>2, SideFacts DEF Present
    <3>3. Unmet(i)
      BY <3>1, <2>4 DEF LedgerAt
    <3>4. InFlight(q, "data", i) = 0 /\ InFlight(q, "wu", i) = 0
      BY <3>2, <3>3 DEF Unmet, Kinds
    <3>5. a = 0 /\ b = 0 /\ InFlight(q, "data", i)' = 0 /\ InFlight(q, "wu", i)' = 0
      BY <3>4, <2>1
    <3>6. e.rw = d.rw /\ e.buf = d.buf /\ e.sw = d.sw
      BY <3>5, <2>2, <1>3
    <3>7. UnderWay(i)' = 1 => UnderWay(i) = 1
      <4>1. UnderWay(i) = UnderWay(i)' + Syn(f, i) /\ UnderWay(i)' \in Nat
        BY <1>1, <1>3, <1>4, <1>9, ArrivesWay
      <4>2. Syn(f, i) = 0
        BY <3>2, <1>1, <1>3, <1>4, SideFacts, ArrivesFacts DEF Sendable, Syn
      <4> QED
        BY <4>1, <4>2
    <3>8. \A k \in Kinds : InFlight("server", k, i)' = 0
      BY <3>2, <3>5 DEF Kinds
    <3> QED
      BY <3>2, <3>3, <3>6, <3>7, <3>8, <2>1, <2>5, <1>3 DEF Unmet
  <2>9. ep'["client"][i].handle = "none" => InFlight("client", "data", i)' = 0
    <3>1. ep'["client"][i].handle = "none" => InFlight("client", "data", i) = 0
      BY <2>4, <1>4, <1>8, SideFacts DEF LedgerAt
    <3>2. \A r \in Sides : InFlight(r, "data", i) = 0 => InFlight(r, "data", i)' = 0
      BY <2>1, <2>3, <1>2
    <3> QED
      BY <3>1, <3>2, SideFacts
  <2> QED
    BY <2>6, <2>7, <2>8, <2>9, <1>2 DEF LedgerAt
<1>12. ASSUME NEW j \in Streams, j # i PROVE LedgerAt(j)'
  BY <1>1, <1>3, <1>5, <1>12, ArrivesOthers DEF i
<1> QED
  BY <1>6, <1>7, <1>10, <1>11, <1>12 DEF MuxInv, Ledger

(* No payload of a stream is read before its announcement.                 *)
LEMMA NothingAhead ==
  ASSUME MuxInv, NEW p \in Sides, p = "server", NEW f, Arrives(p, f), NEW i \in Streams, Syn(f, i) = 0, UnderWay(i) = 1
  PROVE  Part(f, "data", i) = 0
<1>1. MuxShape /\ Announced(i)
  BY DEF MuxInv, SynOnce
<1>2. wire["client"] \in Seq(Frames) /\ wire["client"] # <<>> /\ f = Head(wire["client"]) /\ f \in Frames
  BY <1>1, SideFacts, ArrivesFacts
<1>3. CASE InWire(i) > 0
  <2>1. Lead(wire["client"], i) /\ Syns(wire["client"], i) > 0
    BY <1>1, <1>3 DEF Announced, InWire
  <2>2. Syn(f, i) = 1 \/ Part(f, "data", i) = 0
    BY <2>1, <1>2, LeadTail
  <2> QED
    BY <2>2
<1>4. CASE ~(InWire(i) > 0)
  <2>1. Owed(i) + InChan(i) + InData(i) > 0
    <3>1. /\ Owed(i) \in Nat /\ InChan(i) \in Nat /\ InData(i) \in Nat /\ InWire(i) \in Nat
          /\ UnderWay(i) = Owed(i) + InChan(i) + InData(i) + InWire(i)
      BY <1>1, SynNat
    <3> QED
      BY <3>1, <1>4
  <2>2. Sum(wire["client"], "data", i) = 0
    BY <2>1, <1>1 DEF Announced
  <2>3. Sum(wire["client"], "data", i) = Part(f, "data", i) + Sum(Tail(wire["client"]), "data", i)
        /\ Tail(wire["client"]) \in Seq(Frames)
    BY <1>2, SumTail
  <2>4. Sum(Tail(wire["client"]), "data", i) \in Nat /\ Part(f, "data", i) \in Nat
    BY <1>2, <2>3, SumNat, PartIsNat
  <2> QED
    BY <2>2, <2>3, <2>4
<1> QED
  BY <1>3, <1>4

(* A frame for a stream that is not in the map changes nothing but the     *)
(* answer, if there is one.                                                *)
Ignored(p, f) ==
  /\ Arrives(p, f) /\ f.id \notin known[p] /\ known' = known /\ ep' = ep
  /\ reply' \in [Sides -> Seq(Answers)] /\ \A q \in Sides : Len(reply'[q]) <= 1

LEMMA IgnoredKeeps ==
  ASSUME MuxInv, NEW p \in Sides, NEW f, Ignored(p, f)
  PROVE  MuxInv'
<1> DEFINE i == f.id
           q == Peer(p)
           a == Part(f, "data", i)
<1>1. MuxShape /\ SynOnce /\ Members /\ Ledger
  BY DEF MuxInv
<1>2. q \in Sides /\ q # p /\ Peer(q) = p /\ \A r \in Sides : r = p \/ r = q
  BY SideFacts
<1>3. /\ Arrives(p, f) /\ i \notin known[p] /\ known' = known /\ ep' = ep /\ conn' = conn
      /\ reply' \in [Sides -> Seq(Answers)] /\ \A r \in Sides : Len(reply'[r]) <= 1
  BY DEF Ignored, Arrives
<1>4. i \in Streams
  BY <1>1, <1>3, ArrivesFacts
<1>5. MuxShape'
  <2>1. ep' \in [Sides -> [Streams -> EndStates]] /\ known' \in [Sides -> SUBSET Streams]
    BY <1>1, <1>3 DEF MuxShape
  <2> QED
    BY <2>1, <1>1, <1>3, ArrivesShape
<1>6. Members'
  BY <1>1, <1>3, StillMembers
<1>7. \A j \in Streams : Owed(j)' = Owed(j) /\ Met(j)' = Met(j)
  BY <1>3 DEF Owed, Met
<1>8. SynOnce'
  <2>1. ASSUME NEW j \in Streams
        PROVE  /\ Owed(j)' = Owed(j) /\ Met(j)' \in Nat /\ Met(j)' <= Met(j) + Syn(f, j)
               /\ (ep'["client"][j].handle = "none" => ep["client"][j].handle = "none")
    <3>1. Owed(j)' = Owed(j) /\ Met(j)' = Met(j)
      BY <1>7
    <3>2. Met(j) \in Nat /\ Syn(f, j) \in Nat
      BY <3>1, <1>1, <1>3, SynNat, ArrivesWay
    <3> QED
      BY <3>1, <3>2, <1>3
  <2> QED
    BY <2>1, <1>1, <1>3, ArrivesSyn
<1> HIDE DEF i
<1>9. LedgerAt(i)'
  <2>1. LedgerAt(i)
    BY <1>1, <1>4 DEF Ledger
  <2>2. \A k \in Kinds : /\ InFlight(p, k, i)' = InFlight(p, k, i)
                         /\ InFlight(q, k, i) = InFlight(q, k, i)' + Part(f, k, i)
                         /\ InFlight(q, k, i)' \in Nat /\ Part(f, k, i) \in Nat
    BY <1>1, <1>3, <1>4, ArrivesFlight
  <2>3. "data" \in Kinds /\ "wu" \in Kinds
    BY DEF Kinds
  <2> HIDE DEF q
  <2>4. \A r \in Sides, k \in Kinds : InFlight(r, k, i) = 0 => InFlight(r, k, i)' = 0
    BY <2>2, <1>2
  <2>5. \A r \in Sides : Balanced(r, i)'
    BY <1>2, <1>3 DEF Balanced, q
  <2>6. Fits(q, i)'
    BY <1>2, <1>3 DEF Fits
  <2>7. Fits(p, i)'
    <3>1. Fits(p, i)
      BY <2>1 DEF LedgerAt
    <3> QED
      BY <3>1, <2>2, <2>3, <1>3 DEF Fits
  <2>8. ep'["client"][i].handle = "none" => InFlight("client", "data", i)' = 0
    BY <2>1, <2>3, <2>4, <1>3, SideFacts DEF LedgerAt
  <2>9. ASSUME ep'["server"][i].handle = "none" PROVE Unmet(i)'
    <3>1. Unmet(i)
      BY <2>1, <2>9, <1>3 DEF LedgerAt
    <3>2. (\A k \in Kinds : InFlight("server", k, i)' = 0) /\ InFlight("client", "wu", i)' = 0
      BY <3>1, <2>3, <2>4, SideFacts DEF Unmet
    <3>3. ep["client"][i].sw \in Nat /\ InFlight("client", "data", i) \in Nat
      BY <1>1, <1>4, EndFacts, FlightNat, SideFacts
    <3>4. InFlight("client", "data", i)' \in Nat /\ InFlight("client", "data", i)' <= InFlight("client", "data", i)
      <4>1. CASE p = "client"
        BY <4>1, <3>3, <2>2, <2>3
      <4>2. CASE p # "client"
        <5>1. q = "client"
          BY <4>2, <1>2, SideFacts
        <5> QED
          BY <5>1, <2>2, <2>3
      <4> QED
        BY <4>1, <4>2
    <3>5. ep'["client"][i].handle # "none" =>
            /\ ep'["client"][i].rw = Credit /\ ep'["client"][i].buf = 0
            /\ ep'["client"][i].sw + InFlight("client", "data", i)' <= Credit
      BY <3>1, <3>3, <3>4, <1>3, MuxAssumption DEF Unmet
    <3>6. ASSUME i \in known'["client"], UnderWay(i)' = 1
          PROVE  ep'["client"][i].sw + InFlight("client", "data", i)' = Credit
      <4>1. p = "server" /\ q = "client"
        BY <3>6, <1>2, <1>3, SideFacts
      <4>2. /\ UnderWay(i) = UnderWay(i)' + Syn(f, i) /\ Syn(f, i) \in Nat
            /\ InChan(i)' = InChan(i) /\ InData(i)' = InData(i)
            /\ InWire(i) = InWire(i)' + Syn(f, i)
        BY <1>1, <1>3, <1>4, <1>7, ArrivesWay
      <4>3. Announced(i)
        BY <1>1, <1>4 DEF SynOnce
      <4>4. Syn(f, i) = 0 /\ UnderWay(i) = 1
        <5>1. UnderWay(i) + Met(i) <= 1 /\ Met(i) \in Nat
          BY <4>3, <1>1, <1>4, SynNat DEF Announced
        <5> QED
          BY <5>1, <4>2, <3>6
      <4>5. /\ wire["client"] \in Seq(Frames) /\ wire["client"] # <<>> /\ f = Head(wire["client"])
        BY <4>1, <1>1, <1>3, ArrivesFacts DEF q
      <4>6. Part(f, "data", i) = 0
        BY <4>1, <4>4, <1>3, <1>4, NothingAhead
      <4>7. InFlight("client", "data", i)' = InFlight("client", "data", i)
        <5>1. InFlight("client", "data", i) = InFlight("client", "data", i)' + 0 /\ InFlight("client", "data", i)' \in Nat
          BY <4>1, <4>6, <2>2, <2>3
        <5> QED
          BY <5>1
      <4> QED
        BY <4>4, <4>7, <3>1, <3>6, <1>3 DEF Unmet
    <3> QED
      BY <3>2, <3>5, <3>6 DEF Unmet
  <2> QED
    BY <2>5, <2>6, <2>7, <2>8, <2>9, <1>2 DEF LedgerAt
<1>10. ASSUME NEW j \in Streams, j # i PROVE LedgerAt(j)'
  BY <1>1, <1>3, <1>10, ArrivesOthers DEF i
<1> QED
  BY <1>5, <1>6, <1>8, <1>9, <1>10 DEF MuxInv, Ledger

(* An announcement reaches the server: it is the first of its number.      *)
LEMMA SynArrives ==
  ASSUME MuxInv, NEW p \in Sides, NEW f, Arrives(p, f), "SYN" \in f.fl
  PROVE  /\ p = "server" /\ f.k = "data" /\ f.n = 0 /\ f.fl = {"SYN"} /\ f.id \in Streams /\ f \in Frames
         /\ Syn(f, f.id) = 1 /\ UnderWay(f.id) = 1 /\ Met(f.id) = 0
         /\ ep["server"][f.id].handle = "none" /\ f.id \notin known["server"]
         /\ ep["client"][f.id].handle # "none"
<1>1. MuxShape /\ Announced(f.id) /\ f.id \in Streams /\ f \in Sendable(Peer(p)) /\ f \in Frames
  BY ArrivesFacts DEF MuxInv, SynOnce
<1>2. Peer(p) = "client" /\ f.k = "data" /\ f.n = 0 /\ f.fl = {"SYN"}
  BY <1>1 DEF Sendable
<1>3. p = "server"
  BY <1>2, SideFacts
<1>4. Syn(f, f.id) = 1
  BY DEF Syn
<1>5. InWire(f.id) >= 1 /\ InWire(f.id) \in Nat
  <2>1. wire["client"] \in Seq(Frames) /\ wire["client"] # <<>> /\ f = Head(wire["client"])
    BY <1>1, <1>2, ArrivesFacts
  <2>2. Syns(wire["client"], f.id) = 1 + Syns(Tail(wire["client"]), f.id) /\ Tail(wire["client"]) \in Seq(Frames)
    BY <2>1, <1>4, SumTail
  <2>3. Syns(Tail(wire["client"]), f.id) \in Nat
    BY <2>2, SumNat
  <2> QED
    BY <2>2, <2>3 DEF InWire
<1>6. UnderWay(f.id) = 1 /\ Met(f.id) = 0
  <2>1. /\ Owed(f.id) \in Nat /\ InChan(f.id) \in Nat /\ InData(f.id) \in Nat /\ Met(f.id) \in Nat
        /\ UnderWay(f.id) = Owed(f.id) + InChan(f.id) + InData(f.id) + InWire(f.id)
    BY <1>1, SynNat
  <2>2. UnderWay(f.id) + Met(f.id) <= 1
    BY <1>1 DEF Announced
  <2>3. Owed(f.id) + InChan(f.id) + InData(f.id) + InWire(f.id) + Met(f.id) <= 1
    BY <2>1, <2>2
  <2>4. Owed(f.id) = 0 /\ InChan(f.id) = 0 /\ InData(f.id) = 0 /\ InWire(f.id) = 1 /\ Met(f.id) = 0
    BY <2>1, <2>3, <1>5
  <2> QED
    BY <2>1, <2>4
<1>7. ep["server"][f.id].handle = "none"
  BY <1>6 DEF Met
<1>8. f.id \notin known["server"]
  BY <1>1, <1>7, SideFacts DEF MuxInv, Members, MemberAt, Present
<1>9. ep["client"][f.id].handle # "none"
  BY <1>1, <1>6 DEF Announced
<1> QED
  BY <1>1, <1>2, <1>3, <1>4, <1>6, <1>7, <1>8, <1>9

LEMMA AcceptKeeps ==
  ASSUME MuxInv, NEW p \in Sides, NEW f, Arrives(p, f), "SYN" \in f.fl, NEW e \in EndStates,
         ep' = [ep EXCEPT ![p][f.id] = e], known' = [known EXCEPT ![p] = @ \cup {f.id}], reply' = reply,
         conn[p] = "active", e.handle = "held", e.flag = {"ACK"}, e.sw = Credit, e.rw = Credit, e.buf = 0
  PROVE  MuxInv'
<1> DEFINE i == f.id
           s == "server"
           c == "client"
<1>1. /\ MuxShape /\ SynOnce /\ Members /\ Ledger /\ s \in Sides /\ c \in Sides /\ Peer(s) = c /\ Peer(c) = s /\ s # c
      /\ \A r \in Sides : r = s \/ r = c
  BY SideFacts DEF MuxInv
<1>2. /\ p = s /\ f.n = 0 /\ i \in Streams /\ f \in Frames /\ Syn(f, i) = 1 /\ UnderWay(i) = 1 /\ Met(i) = 0
      /\ ep[s][i].handle = "none" /\ i \notin known[s] /\ ep[c][i].handle # "none"
  BY SynArrives
<1>3. conn' = conn
  BY DEF Arrives
<1>4. ep'[s][i] = e /\ \A r \in Sides, j \in Streams : r # s \/ j # i => ep'[r][j] = ep[r][j]
  <2>1. ep' = [ep EXCEPT ![s][i] = e]
    BY <1>2
  <2> HIDE DEF i
  <2> QED
    BY <2>1, <1>1, <1>2 DEF MuxShape
<1>5. known'[s] = known[s] \cup {i} /\ known'[c] = known[c] /\ known' \in [Sides -> SUBSET Streams]
  BY <1>1, <1>2 DEF MuxShape
<1>6. MuxShape'
  <2>1. ep' \in [Sides -> [Streams -> EndStates]]
    BY <1>1, <1>2 DEF MuxShape
  <2> QED
    BY <2>1, <1>1, <1>5, ArrivesShape DEF MuxShape
<1>7. Members'
  <2>1. ASSUME NEW r \in Sides, NEW j \in Streams PROVE MemberAt(r, j)'
    <3>1. MemberAt(r, j)
      BY <1>1 DEF Members
    <3>2. CASE r = s /\ j = i
      BY <3>2, <1>2, <1>3, <1>4, <1>5 DEF MemberAt, Present
    <3>3. CASE r # s \/ j # i
      <4>1. ep'[r][j] = ep[r][j] /\ (j \in known'[r] <=> j \in known[r])
        BY <3>3, <1>1, <1>4, <1>5
      <4> QED
        BY <4>1, <3>1, <1>3 DEF MemberAt, Present
    <3> QED
      BY <3>2, <3>3
  <2> QED
    BY <2>1 DEF Members
<1>8. \A j \in Streams : Owed(j)' = Owed(j) /\ ep'[c][j] = ep[c][j]
  BY <1>1, <1>4 DEF Owed
<1>9. SynOnce'
  <2>1. ASSUME NEW j \in Streams
        PROVE  /\ Owed(j)' = Owed(j) /\ Met(j)' \in Nat /\ Met(j)' <= Met(j) + Syn(f, j)
               /\ (ep'["client"][j].handle = "none" => ep["client"][j].handle = "none")
    <3>1. Met(j) \in Nat /\ Syn(f, j) \in Nat
      BY <1>1, <1>2, SynNat, PartIsNat
    <3>2. CASE j = i
      <4>1. Met(j)' = 1
        BY <3>2, <1>4 DEF Met
      <4> QED
        BY <4>1, <3>1, <3>2, <1>2, <1>8
    <3>3. CASE j # i
      <4>1. Met(j)' = Met(j)
        BY <3>3, <1>1, <1>4 DEF Met
      <4> QED
        BY <4>1, <3>1, <1>8
    <3> QED
      BY <3>2, <3>3
  <2> QED
    BY <2>1, <1>1, ArrivesSyn
<1>10. LedgerAt(i)'
  <2>1. LedgerAt(i) /\ Unmet(i)
    BY <1>1, <1>2 DEF Ledger, LedgerAt
  <2>2. \A k \in Kinds : Part(f, k, i) = 0
    BY <1>2 DEF Part
  <2>3. \A r \in Sides, k \in Kinds : InFlight(r, k, i)' = InFlight(r, k, i)
    <3>1. ASSUME NEW k \in Kinds PROVE InFlight(s, k, i)' = InFlight(s, k, i) /\ InFlight(c, k, i)' = InFlight(c, k, i)
      <4>1. /\ InFlight(s, k, i)' = InFlight(s, k, i) /\ InFlight(c, k, i) = InFlight(c, k, i)' + Part(f, k, i)
            /\ InFlight(c, k, i)' \in Nat
        BY <1>1, <1>2, ArrivesFlight
      <4>2. InFlight(c, k, i) = InFlight(c, k, i)' + 0
        BY <4>1, <2>2
      <4> QED
        BY <4>1, <4>2
    <3> QED
      BY <3>1, <1>1
  <2>4. /\ InFlight(s, "data", i)' = 0 /\ InFlight(s, "wu", i)' = 0 /\ InFlight(c, "wu", i)' = 0
        /\ InFlight(c, "data", i)' = InFlight(c, "data", i)
    BY <2>1, <2>3, <1>1 DEF Unmet, Kinds
  <2>5. ep[c][i].sw \in Nat /\ InFlight(c, "data", i) \in Nat /\ Credit \in Nat
    BY <1>1, <1>2, EndFacts, FlightNat, MuxAssumption
  <2>6. ep'[c][i] = ep[c][i] /\ ep'[s][i].handle # "none" /\ ep'[c][i].handle # "none"
    BY <1>2, <1>4, <1>8
  <2>7. Balanced(c, i)' /\ Fits(c, i)'
    <3>1. i \in known[c] => ep[c][i].sw + InFlight(c, "data", i) = Credit
      BY <2>1, <1>2 DEF Unmet
    <3>2. ep[c][i].sw + InFlight(c, "data", i) <= Credit
      BY <2>1, <1>2 DEF Unmet
    <3>3. Balanced(c, i)'
      BY <3>1, <2>4, <2>5, <2>6, <1>1, <1>4, <1>5 DEF Balanced
    <3>4. Fits(c, i)'
      BY <3>2, <2>4, <2>5, <1>1, <1>4 DEF Fits
    <3> QED
      BY <3>3, <3>4
  <2>8. Balanced(s, i)' /\ Fits(s, i)'
    <3>1. ep[c][i].rw = Credit
      BY <2>1, <1>2 DEF Unmet
    <3>2. Balanced(s, i)'
      BY <3>1, <2>4, <2>5, <2>6, <1>1, <1>4 DEF Balanced
    <3>3. Fits(s, i)'
      BY <3>1, <2>4, <2>5, <2>6, <1>1 DEF Fits
    <3> QED
      BY <3>2, <3>3
  <2> QED
    BY <2>6, <2>7, <2>8, <1>1 DEF LedgerAt
<1>11. ASSUME NEW j \in Streams, j # i PROVE LedgerAt(j)'
  <2>1. \A r \in Sides : ep'[r][j] = ep[r][j] /\ (j \in known'[r] => j \in known[r])
    BY <1>11, <1>1, <1>4, <1>5
  <2> QED
    BY <2>1, <1>1, <1>11, ArrivesOthers
<1> QED
  BY <1>6, <1>7, <1>9, <1>10, <1>11 DEF MuxInv, Ledger

(* What the handlers do to a stream end.                                   *)
LEMMA HalfIs ==
  ASSUME NEW d \in EndStates, NEW f
  PROVE  /\ HalfClose(d, f) \in EndStates /\ HalfClose(d, f).handle = d.handle /\ HalfClose(d, f).flag = d.flag
         /\ HalfClose(d, f).sw = d.sw /\ HalfClose(d, f).rw = d.rw /\ HalfClose(d, f).buf = d.buf
         /\ d.st = "closed" => HalfClose(d, f).st = "closed"
<1> DEFINE t == UpdateState(d.st, "recvClosed")
           e == [d EXCEPT !.st = t]
<1>1. t \in StreamStates /\ (d.st = "closed" => t = "closed")
  BY UpdateTyped DEF EndStates
<1>2. HalfClose(d, f) = IF "FIN" \in f.fl THEN e ELSE d
  BY DEF HalfClose
<1> HIDE DEF t
<1>3. /\ e \in EndStates /\ e.handle = d.handle /\ e.flag = d.flag /\ e.sw = d.sw /\ e.rw = d.rw /\ e.buf = d.buf
      /\ e.st = t
  BY <1>1 DEF EndStates
<1> HIDE DEF e
<1> QED
  BY <1>1, <1>2, <1>3

LEMMA AckIs ==
  ASSUME NEW d \in EndStates, NEW f
  PROVE  /\ Acknowledge(d, f) \in EndStates /\ Acknowledge(d, f).handle = d.handle /\ Acknowledge(d, f).flag = d.flag
         /\ Acknowledge(d, f).sw = d.sw /\ Acknowledge(d, f).rw = d.rw /\ Acknowledge(d, f).buf = d.buf
         /\ Acknowledge(d, f).st = d.st
<1> DEFINE x == d.acked \/ (d.st = "open" /\ "ACK" \in f.fl)
           e == [d EXCEPT !.acked = x]
<1>1. x \in BOOLEAN
  OBVIOUS
<1>2. Acknowledge(d, f) = e
  BY DEF Acknowledge
<1> HIDE DEF x
<1>3. /\ e \in EndStates /\ e.handle = d.handle /\ e.flag = d.flag /\ e.sw = d.sw /\ e.rw = d.rw /\ e.buf = d.buf
      /\ e.st = d.st
  BY <1>1 DEF EndStates
<1> HIDE DEF e
<1> QED
  BY <1>2, <1>3

LEMMA ResetLands ==
  ASSUME MuxInv, NEW p \in Sides, NEW f, Arrives(p, f), OnReset(p, f)
  PROVE  \E e : Lands(p, f, e)
<1> DEFINE i == f.id
           d == ep[p][i]
           e == [d EXCEPT !.st = "closed", !.reset = TRUE]
<1>1. MuxShape /\ f \in Frames /\ f \in Sendable(Peer(p)) /\ i \in Streams
  BY ArrivesFacts DEF MuxInv
<1>2. d \in EndStates
  BY <1>1, EndFacts
<1>3. f.n = 0
  BY <1>1 DEF OnReset, IsReset, Sendable
<1>4. Part(f, "data", i) = 0 /\ Part(f, "wu", i) = 0
  BY <1>3 DEF Part
<1>5. i \in known[p] /\ known' = known /\ reply' = reply /\ ep' = [ep EXCEPT ![p][i] = e]
  BY DEF OnReset
<1>6. /\ e \in EndStates /\ e.handle = d.handle /\ e.flag = d.flag /\ e.sw = d.sw /\ e.rw = d.rw /\ e.buf = d.buf
      /\ e.st = "closed" /\ d.sw \in Nat /\ d.rw \in Nat /\ d.buf \in Nat
  <2> HIDE DEF d
  <2> QED
    BY <1>2 DEF EndStates, StreamStates
<1> HIDE DEF e
<1>7. Lands(p, f, e)
  BY <1>4, <1>5, <1>6 DEF Lands
<1> QED
  BY <1>7

LEMMA DataLands ==
  ASSUME MuxInv, NEW p \in Sides, NEW f, Arrives(p, f), OnData(p, f)
  PROVE  \E e : Lands(p, f, e)
<1> DEFINE i == f.id
           d == ep[p][i]
           b == Acknowledge(d, f)
           e == HalfClose([b EXCEPT !.rw = b.rw - f.n, !.buf = b.buf + f.n], f)
<1>1. MuxShape /\ f \in Frames /\ i \in Streams /\ f.n \in Nat /\ Peer(p) \in Sides /\ Peer(Peer(p)) = p
  BY ArrivesFacts, SideFacts DEF MuxInv
<1>2. d \in EndStates /\ d.sw \in Nat /\ d.rw \in Nat /\ d.buf \in Nat
  BY <1>1, EndFacts
<1>3. f.k = "data" /\ i \in known[p] /\ known' = known
  BY DEF OnData
<1>4. Part(f, "data", i) = f.n /\ Part(f, "wu", i) = 0
  BY <1>3 DEF Part
<1>5. f.n <= d.rw
  <2>1. Fits(Peer(p), i)
    BY <1>1 DEF MuxInv, Ledger, LedgerAt
  <2>2. InFlight(Peer(p), "data", i) <= d.rw
    BY <2>1, <1>1, <1>3 DEF Fits
  <2>3. InFlight(Peer(p), "data", i) = InFlight(Peer(p), "data", i)' + f.n /\ InFlight(Peer(p), "data", i)' \in Nat
    BY <1>1, <1>4, ArrivesFlight DEF Kinds
  <2> DEFINE m == InFlight(Peer(p), "data", i)'
  <2>4. m + f.n <= d.rw /\ m \in Nat
    BY <2>2, <2>3
  <2> HIDE DEF m, d
  <2> QED
    BY <2>4, <1>1, <1>2
<1>6. reply' = reply /\ ep' = [ep EXCEPT ![p][i] = e]
  BY <1>1, <1>2, <1>5 DEF OnData
<1>7. /\ b \in EndStates /\ b.handle = d.handle /\ b.flag = d.flag /\ b.sw = d.sw /\ b.rw = d.rw /\ b.buf = d.buf
      /\ b.st = d.st
  <2> HIDE DEF d
  <2> QED
    BY <1>2, AckIs
<1> HIDE DEF b
<1> DEFINE x == b.rw - f.n
           y == b.buf + f.n
           c == [b EXCEPT !.rw = x, !.buf = y]
<1>8. x \in Nat /\ y \in Nat /\ d.rw = x + f.n /\ y = d.buf + f.n /\ e = HalfClose(c, f)
  <2> HIDE DEF d
  <2> QED
    BY <1>1, <1>2, <1>5, <1>7
<1> HIDE DEF x, y
<1>9. /\ c \in EndStates /\ c.handle = b.handle /\ c.flag = b.flag /\ c.sw = b.sw /\ c.rw = x /\ c.buf = y /\ c.st = b.st
  BY <1>7, <1>8 DEF EndStates
<1> HIDE DEF c, e
<1>10. /\ e \in EndStates /\ e.handle = c.handle /\ e.flag = c.flag /\ e.sw = c.sw /\ e.rw = c.rw /\ e.buf = c.buf
       /\ (c.st = "closed" => e.st = "closed")
  BY <1>8, <1>9, HalfIs
<1>11. Lands(p, f, e)
  BY <1>2, <1>3, <1>4, <1>6, <1>7, <1>8, <1>9, <1>10 DEF Lands
<1> QED
  BY <1>11

LEMMA UpdateLands ==
  ASSUME MuxInv, NEW p \in Sides, NEW f, Arrives(p, f), OnWindowUpdate(p, f)
  PROVE  \E e : Lands(p, f, e)
<1> DEFINE i == f.id
           d == ep[p][i]
           b == Acknowledge(d, f)
           e == HalfClose([b EXCEPT !.sw = b.sw + f.n], f)
<1>1. MuxShape /\ f \in Frames /\ i \in Streams /\ f.n \in Nat
  BY ArrivesFacts DEF MuxInv
<1>2. d \in EndStates /\ d.sw \in Nat /\ d.rw \in Nat /\ d.buf \in Nat
  BY <1>1, EndFacts
<1>3. f.k = "wu" /\ i \in known[p] /\ known' = known /\ reply' = reply
  BY DEF OnWindowUpdate
<1>4. Part(f, "data", i) = 0 /\ Part(f, "wu", i) = f.n
  BY <1>3 DEF Part
<1>5. ep' = [ep EXCEPT ![p][i] = e]
  BY DEF OnWindowUpdate
<1>6. /\ b \in EndStates /\ b.handle = d.handle /\ b.flag = d.flag /\ b.sw = d.sw /\ b.rw = d.rw /\ b.buf = d.buf
      /\ b.st = d.st
  <2> HIDE DEF d
  <2> QED
    BY <1>2, AckIs
<1> HIDE DEF b
<1> DEFINE x == b.sw + f.n
           c == [b EXCEPT !.sw = x]
<1>7. x \in Nat /\ x = d.sw + f.n /\ e = HalfClose(c, f)
  <2> HIDE DEF d
  <2> QED
    BY <1>1, <1>2, <1>6
<1> HIDE DEF x
<1>8. /\ c \in EndStates /\ c.handle = b.handle /\ c.flag = b.flag /\ c.sw = x /\ c.rw = b.rw /\ c.buf = b.buf /\ c.st = b.st
  BY <1>6, <1>7 DEF EndStates
<1> HIDE DEF c, e
<1>9. /\ e \in EndStates /\ e.handle = c.handle /\ e.flag = c.flag /\ e.sw = c.sw /\ e.rw = c.rw /\ e.buf = c.buf
      /\ (c.st = "closed" => e.st = "closed")
  BY <1>7, <1>8, HalfIs
<1>10. Lands(p, f, e)
  BY <1>2, <1>3, <1>4, <1>5, <1>6, <1>7, <1>8, <1>9 DEF Lands
<1> QED
  BY <1>10

LEMMA UnknownIgnored ==
  ASSUME MuxInv, NEW p \in Sides, NEW f, Arrives(p, f), OnUnknown(p, f)
  PROVE  Ignored(p, f)
BY DEF OnUnknown, Ignored, MuxInv, MuxShape

(* An announcement is refused, or it makes an end with the first credit.   *)
Accepted(p, f, e) ==
  /\ Arrives(p, f) /\ "SYN" \in f.fl /\ e \in EndStates /\ ep' = [ep EXCEPT ![p][f.id] = e]
  /\ known' = [known EXCEPT ![p] = @ \cup {f.id}] /\ reply' = reply /\ conn[p] = "active"
  /\ e.handle = "held" /\ e.flag = {"ACK"} /\ e.sw = Credit /\ e.rw = Credit /\ e.buf = 0

LEMMA SynIsSettled ==
  ASSUME MuxInv, NEW p \in Sides, NEW f, Arrives(p, f), OnSyn(p, f), conn[p] = "active"
  PROVE  Ignored(p, f) \/ \E e : Accepted(p, f, e)
<1> DEFINE i == f.id
<1>1. "SYN" \in f.fl
  BY DEF OnSyn
<1>2. p = "server" /\ f.n = 0 /\ f.fl = {"SYN"} /\ i \in Streams /\ i \notin known[p]
  BY <1>1, SynArrives
<1>3. ~(f.n > Credit) /\ MuxShape
  BY <1>2, MuxAssumption DEF MuxInv
<1>4. CASE Cardinality(known[p]) = MaxStreams
  <2> DEFINE r == Frame("data", i, 0, {"RST"})
  <2>1. reply' = [reply EXCEPT ![p] = <<r>>] /\ ep' = ep /\ known' = known
    BY <1>2, <1>3, <1>4 DEF OnSyn, Reply
  <2>2. r \in Answers
    <3>1. {"RST"} \in Flags
      BY DEF Flags
    <3>2. r \in Frames
      BY <3>1, <1>2, FrameTyped DEF Kinds
    <3>3. r.k = "data" /\ r.id = i /\ r.n = 0 /\ r.fl = {"RST"}
      BY FrameIs
    <3> HIDE DEF r
    <3> QED
      BY <3>2, <3>3, <1>2 DEF Answers, Plain
  <2> HIDE DEF r
  <2>3. <<r>> \in Seq(Answers) /\ Len(<<r>>) = 1
    BY <2>2
  <2> DEFINE u == <<r>>
  <2>4. u \in Seq(Answers) /\ Len(u) <= 1 /\ reply' = [reply EXCEPT ![p] = u]
    BY <2>1, <2>3
  <2> HIDE DEF u
  <2>5. reply' \in [Sides -> Seq(Answers)] /\ \A q \in Sides : Len(reply'[q]) <= 1
    BY <2>4, <1>3 DEF MuxShape
  <2>6. Ignored(p, f)
    BY <2>1, <2>5, <1>2 DEF Ignored
  <2> QED
    BY <2>6
<1>5. CASE Cardinality(known[p]) # MaxStreams
  <2> DEFINE n == NewEnd({"ACK"})
             x == n.rw - f.n
             e == HalfClose([n EXCEPT !.rw = n.rw - f.n, !.buf = f.n], f)
  <2>1. ep' = [ep EXCEPT ![p][i] = e] /\ known' = [known EXCEPT ![p] = @ \cup {i}] /\ reply' = reply
    BY <1>2, <1>3, <1>5 DEF OnSyn
  <2>2. /\ n \in EndStates /\ n.handle = "held" /\ n.flag = {"ACK"} /\ n.sw = Credit /\ n.rw = Credit /\ n.buf = 0
    BY NewEndIs
  <2> HIDE DEF n
  <2> DEFINE c == [n EXCEPT !.rw = x, !.buf = f.n]
  <2>3. x = Credit /\ x \in Nat /\ f.n \in Nat /\ f.n = 0 /\ e = HalfClose(c, f)
    BY <2>2, <1>2, MuxAssumption
  <2> HIDE DEF x
  <2>4. /\ c \in EndStates /\ c.handle = "held" /\ c.flag = {"ACK"} /\ c.sw = Credit /\ c.rw = Credit /\ c.buf = 0
    BY <2>2, <2>3 DEF EndStates
  <2> HIDE DEF c, e
  <2>5. /\ e \in EndStates /\ e.handle = "held" /\ e.flag = {"ACK"} /\ e.sw = Credit /\ e.rw = Credit /\ e.buf = 0
    BY <2>3, <2>4, HalfIs
  <2>6. Accepted(p, f, e)
    BY <2>1, <2>5, <1>1 DEF Accepted
  <2> QED
    BY <2>6
<1> QED
  BY <1>4, <1>5

LEMMA SynKeeps ==
  ASSUME MuxInv, NEW p \in Sides, NEW f, Arrives(p, f), OnSyn(p, f), conn[p] = "active"
  PROVE  MuxInv'
BY SynIsSettled, IgnoredKeeps, AcceptKeeps DEF Accepted

LEMMA ReceiveKeeps ==
  ASSUME MuxInv, NEW p \in Sides, ReceiveFrame(p)
  PROVE  MuxInv'
<1> DEFINE f == Head(wire[Peer(p)])
<1>1. wire[Peer(p)] \in Seq(Sendable(Peer(p))) /\ wire[Peer(p)] # <<>> /\ conn[p] = "active"
  BY SideFacts, ShapeQueues DEF MuxInv, ReceiveFrame
<1>2. f.k # "goaway"
  <2>1. f \in Sendable(Peer(p))
    BY <1>1
  <2> QED
    BY <2>1 DEF Sendable
<1>3. /\ \/ OnReset(p, f) \/ OnSyn(p, f) \/ OnData(p, f) \/ OnWindowUpdate(p, f) \/ OnUnknown(p, f)
      /\ conn' = conn /\ chan' = chan /\ ctrl' = ctrl /\ data' = data
      /\ wire' = [wire EXCEPT ![Peer(p)] = Tail(wire[Peer(p)])]
  BY <1>2 DEF ReceiveFrame
<1>4. Arrives(p, f)
  BY <1>1, <1>3 DEF Arrives
<1> HIDE DEF f
<1> QED
  BY <1>1, <1>3, <1>4, ResetLands, DataLands, UpdateLands, LandsKeeps, UnknownIgnored, IgnoredKeeps, SynKeeps

-----------------------------------------------------------------------------
LEMMA MuxStep == MuxInv /\ [Next]_vars => MuxInv'
<1> SUFFICES ASSUME MuxInv, [Next]_vars PROVE MuxInv'
  OBVIOUS
<1>1. ASSUME NEW i \in Streams, OpenStream(i) PROVE MuxInv'
  BY <1>1, OpenKeeps
<1>2. ASSUME NEW i \in Streams, SynAnnounce(i) PROVE MuxInv'
  BY <1>2, SideFacts, AnnounceTurns, TurnKeeps
<1>3. CASE OpenAtCap
  BY <1>3, SideFacts, CloseKeeps DEF OpenAtCap
<1>4. ASSUME NEW p \in Sides, User(p) PROVE MuxInv'
  BY <1>4, UserKeeps
<1>5. ASSUME NEW p \in Sides, DriverEnd(p) PROVE MuxInv'
  BY <1>5, CloseKeeps DEF DriverEnd
<1>6. ASSUME NEW p \in Sides, Driver(p) PROVE MuxInv'
  <2>1. CASE Transmit(p)
    BY <2>1, TransmitKeeps
  <2>2. CASE ReceiveFrame(p)
    BY <2>2, ReceiveKeeps
  <2>3. CASE ReceiveEof(p)
    BY <2>3, CloseKeeps DEF ReceiveEof
  <2>4. ASSUME NEW i \in Streams, TakeCommand(p, i) \/ ReapDropped(p, i) PROVE MuxInv'
    BY <2>4, TakeKeeps, ReapKeeps
  <2> QED
    BY <2>1, <2>2, <2>3, <2>4, <1>6 DEF Driver
<1>7. CASE UNCHANGED vars
  <2>1. UNCHANGED <<conn, known, ep, chan, ctrl, data, reply, wire>>
    BY <1>7 DEF vars
  <2>2. MuxShape' /\ Members'
    BY <2>1, StillMembers DEF MuxInv, MuxShape
  <2>3. \A j \in Streams : Owed(j)' = Owed(j) /\ Met(j)' = Met(j) /\ UnderWay(j)' = UnderWay(j)
    BY <2>1 DEF Owed, Met, UnderWay, InChan, InData, InWire
  <2>4. SynOnce'
    BY <2>1, <2>3, SynStill DEF MuxInv
  <2>5. \A j \in Streams : Alike(j)
    BY <2>1, <2>3 DEF Alike, InFlight
  <2> QED
    BY <2>2, <2>4, <2>5, LedgerStays DEF MuxInv, Ledger
<1> QED
  BY <1>1, <1>2, <1>3, <1>4, <1>5, <1>6, <1>7 DEF Next

(* The bounds and types of the model, read off the shape of the invariant. *)
LEMMA MuxTyped == MuxShape => TypeOK
<1> SUFFICES ASSUME MuxShape PROVE TypeOK
  OBVIOUS
<1>1. ASSUME NEW p \in Sides, NEW i \in Streams
      PROVE  /\ ep[p][i].st \in StreamStates
             /\ ep[p][i].handle \in {"none", "held", "dropped", "gone"}
             /\ ep[p][i].flag \in {{}, {"SYN"}, {"ACK"}}
             /\ {ep[p][i].sw, ep[p][i].rw, ep[p][i].buf, ep[p][i].wrote, ep[p][i].got} \subseteq Nat
             /\ Len(chan[p][i]) <= ChanCap
  <2> DEFINE d == ep[p][i]
  <2>1. d \in EndStates /\ Len(chan[p][i]) <= ChanCap
    BY DEF MuxShape
  <2> HIDE DEF d
  <2>2. d.st \in StreamStates /\ d.handle \in {"none", "held", "dropped", "gone"} /\ d.flag \in {{}, {"SYN"}, {"ACK"}}
        /\ {d.sw, d.rw, d.buf, d.wrote, d.got} \subseteq Nat
    BY <2>1 DEF EndStates
  <2> QED
    BY <2>1, <2>2 DEF d
<1>2. ASSUME NEW p \in Sides
      PROVE  /\ {ctrl[p][j] : j \in DOMAIN ctrl[p]} \subseteq Frames
             /\ {data[p][j] : j \in DOMAIN data[p]} \subseteq Frames
             /\ {wire[p][j] : j \in DOMAIN wire[p]} \subseteq Frames
             /\ Len(reply[p]) <= 1 /\ Len(wire[p]) <= WireCap
  <2>1. ctrl[p] \in Seq(Frames) /\ data[p] \in Seq(Frames) /\ wire[p] \in Seq(Frames)
    BY ShapeQueues
  <2>2. Len(reply[p]) <= 1 /\ Len(wire[p]) <= WireCap
    BY DEF MuxShape
  <2> QED
    BY <2>1, <2>2
<1> QED
  BY <1>1, <1>2 DEF TypeOK, MuxShape

LEMMA MuxInvImplies == MuxInv => MuxSafe /\ NoProtocolError
<1> SUFFICES ASSUME MuxInv PROVE MuxSafe /\ NoProtocolError
  OBVIOUS
<1>1. MuxShape
  BY DEF MuxInv
<1>2. CreditConserved
  <2> SUFFICES ASSUME NEW p \in Sides, NEW i \in Streams PROVE Balanced(p, i)
    BY DEF CreditConserved, Balanced
  <2> QED
    BY DEF MuxInv, Ledger, LedgerAt
<1>3. NoProtocolError
  <2> SUFFICES ASSUME NEW p \in Sides
               PROVE  GoAway \notin {wire[p][j] : j \in DOMAIN wire[p]} /\ reply[p] # <<GoAway>>
    BY DEF NoProtocolError
  <2>1. GoAway.k = "goaway"
    BY DEF GoAway, Frame
  <2>2. GoAway \notin Sendable(p) /\ GoAway \notin Answers
    BY <2>1 DEF Sendable, Answers, Plain
  <2> DEFINE g == GoAway
  <2>3. wire[p] \in Seq(Sendable(p)) /\ reply[p] \in Seq(Answers) /\ g \notin Sendable(p) /\ g \notin Answers
    BY <1>1, <2>2, ShapeQueues
  <2> HIDE DEF g
  <2>4. g \notin {wire[p][j] : j \in DOMAIN wire[p]}
    BY <2>3
  <2>5. reply[p] # <<g>>
    <3> SUFFICES ASSUME reply[p] = <<g>> PROVE FALSE
      OBVIOUS
    <3>1. reply[p][1] \in Answers
      <4>1. Len(reply[p]) = 1
        OBVIOUS
      <4> QED
        BY <4>1, <2>3
    <3> QED
      BY <3>1, <2>3
  <2> QED
    BY <2>4, <2>5 DEF g
<1> QED
  BY <1>1, <1>2, <1>3, MuxTyped DEF MuxSafe

LEMMA MuxAlways == Spec => []MuxInv
<1>1. Init => MuxInv
  BY MuxStarts
<1>2. MuxInv /\ [Next]_vars => MuxInv'
  BY MuxStep
<1> QED
  BY <1>1, <1>2, PTL DEF Spec

(* Whatever is opened, half-closed, dropped, refused or cut, in any order: *)
(* while both ends of a stream are in their maps, the receiver accepts     *)
(* exactly what its peer may still send and what is on its way.            *)
THEOREM ConnectionIsSafe == Spec => []MuxSafe
BY MuxAlways, MuxInvImplies, PTL

(* No body exceeds the window it meets and no announcement is repeated:    *)
(* neither on_data nor on_window_update ever answers with a goaway.        *)
THEOREM NobodyGoesAway == Spec => []NoProtocolError
BY MuxAlways, MuxInvImplies, PTL

-----------------------------------------------------------------------------
(***************************************************************************)
(* The connection implements MuxFlowControl: what the abstract variables   *)
(* are at a flow, and which abstract step each of its own steps is.        *)
(***************************************************************************)
SwOf(r, i) == UnlessCut(i, End(Peer(r), i).sw)
RwOf(r, i) == UnlessCut(i, End(r, i).rw)
BufOf(r, i) == UnlessCut(i, End(r, i).buf)
FlightOf(r, i) == UnlessCut(i, InFlight(Peer(r), "data", i))
BackOf(r, i) == UnlessCut(i, InFlight(r, "wu", i))

LEMMA ViewNow ==
  ASSUME NEW r \in Sides, NEW i \in Streams
  PROVE  /\ flowLife[<<r, i>>] = FlowLife(i)
         /\ flowSw[<<r, i>>] = SwOf(r, i) /\ flowRw[<<r, i>>] = RwOf(r, i) /\ flowBuf[<<r, i>>] = BufOf(r, i)
         /\ flowFlight[<<r, i>>] = FlightOf(r, i) /\ flowBack[<<r, i>>] = BackOf(r, i)
BY DEF flows, flowLife, flowSw, flowRw, flowBuf, flowFlight, flowBack, SwOf, RwOf, BufOf, FlightOf, BackOf

LEMMA ViewNext ==
  ASSUME NEW r \in Sides, NEW i \in Streams
  PROVE  /\ flowLife'[<<r, i>>] = FlowLife(i)'
         /\ flowSw'[<<r, i>>] = SwOf(r, i)' /\ flowRw'[<<r, i>>] = RwOf(r, i)' /\ flowBuf'[<<r, i>>] = BufOf(r, i)'
         /\ flowFlight'[<<r, i>>] = FlightOf(r, i)' /\ flowBack'[<<r, i>>] = BackOf(r, i)'
BY DEF flows, flowLife, flowSw, flowRw, flowBuf, flowFlight, flowBack, SwOf, RwOf, BufOf, FlightOf, BackOf

(* A function of the flows.                                                *)
OfFlows(u) == u = [f \in flows |-> u[f]]

LEMMA ViewFunctions ==
  /\ OfFlows(flowLife) /\ OfFlows(flowSw) /\ OfFlows(flowRw) /\ OfFlows(flowBuf) /\ OfFlows(flowFlight) /\ OfFlows(flowBack)
  /\ OfFlows(flowLife') /\ OfFlows(flowSw') /\ OfFlows(flowRw') /\ OfFlows(flowBuf')
  /\ OfFlows(flowFlight') /\ OfFlows(flowBack')
BY DEF OfFlows, flows, flowLife, flowSw, flowRw, flowBuf, flowFlight, flowBack

LEMMA FlowsAgree ==
  ASSUME NEW u, NEW v, OfFlows(u), OfFlows(v), \A r \in Sides, i \in Streams : u[<<r, i>>] = v[<<r, i>>]
  PROVE  u = v
<1>1. \A f \in flows : f = <<f[1], f[2]>> /\ f[1] \in Sides /\ f[2] \in Streams
  BY DEF flows
<1>2. \A f \in flows : u[f] = v[f]
  BY <1>1
<1> QED
  BY <1>2, Zenon DEF OfFlows

LEMMA FlowsDiffer ==
  ASSUME NEW u, NEW v, OfFlows(u), OfFlows(v), NEW r \in Sides, NEW i \in Streams, NEW x, u[<<r, i>>] = x,
         \A q \in Sides, j \in Streams : q # r \/ j # i => u[<<q, j>>] = v[<<q, j>>]
  PROVE  u = [v EXCEPT ![<<r, i>>] = x]
<1> DEFINE w == [v EXCEPT ![<<r, i>>] = x]
<1>1. v = [f \in flows |-> v[f]] /\ <<r, i>> \in flows
  BY DEF OfFlows, flows
<1>2. OfFlows(w) /\ w[<<r, i>>] = x
  BY <1>1 DEF OfFlows
<1>3. ASSUME NEW q \in Sides, NEW j \in Streams PROVE u[<<q, j>>] = w[<<q, j>>]
  <2>1. CASE q = r /\ j = i
    BY <2>1, <1>2
  <2>2. CASE q # r \/ j # i
    <3>1. <<q, j>> \in flows /\ <<q, j>> # <<r, i>>
      BY <2>2 DEF flows
    <3>2. w[<<q, j>>] = v[<<q, j>>]
      BY <3>1, <1>1
    <3> QED
      BY <2>2, <3>2
  <2> QED
    BY <2>1, <2>2
<1> HIDE DEF w
<1>4. u = w
  BY <1>2, <1>3, FlowsAgree
<1> QED
  BY <1>4 DEF w

-----------------------------------------------------------------------------
(* The steps of MuxFlowControl, said flow by flow.                         *)
LivesStay == \A j \in Streams : FlowLife(j)' = FlowLife(j)
Same(r, i) ==
  /\ SwOf(r, i)' = SwOf(r, i) /\ RwOf(r, i)' = RwOf(r, i) /\ BufOf(r, i)' = BufOf(r, i)
  /\ FlightOf(r, i)' = FlightOf(r, i) /\ BackOf(r, i)' = BackOf(r, i)
OthersSame(r, i) == \A q \in Sides, j \in Streams : q # r \/ j # i => Same(q, j)

LEMMA ViewSame ==
  ASSUME \A r \in Sides, i \in Streams : Same(r, i)
  PROVE  flowSw' = flowSw /\ flowRw' = flowRw /\ flowBuf' = flowBuf /\ flowFlight' = flowFlight /\ flowBack' = flowBack
<1>1. ASSUME NEW r \in Sides, NEW i \in Streams
      PROVE  /\ flowSw'[<<r, i>>] = flowSw[<<r, i>>] /\ flowRw'[<<r, i>>] = flowRw[<<r, i>>]
             /\ flowBuf'[<<r, i>>] = flowBuf[<<r, i>>] /\ flowFlight'[<<r, i>>] = flowFlight[<<r, i>>]
             /\ flowBack'[<<r, i>>] = flowBack[<<r, i>>]
  <2>1. Same(r, i)
    OBVIOUS
  <2> QED
    BY <2>1, ViewNow, ViewNext DEF Same
<1>2. flowSw' = flowSw
  <2>1. OfFlows(flowSw) /\ OfFlows(flowSw')
    BY ViewFunctions
  <2>2. \A r \in Sides, i \in Streams : flowSw'[<<r, i>>] = flowSw[<<r, i>>]
    BY <1>1
  <2> QED
    BY <2>1, <2>2, FlowsAgree
<1>3. flowRw' = flowRw
  <2>1. OfFlows(flowRw) /\ OfFlows(flowRw')
    BY ViewFunctions
  <2>2. \A r \in Sides, i \in Streams : flowRw'[<<r, i>>] = flowRw[<<r, i>>]
    BY <1>1
  <2> QED
    BY <2>1, <2>2, FlowsAgree
<1>4. flowBuf' = flowBuf
  <2>1. OfFlows(flowBuf) /\ OfFlows(flowBuf')
    BY ViewFunctions
  <2>2. \A r \in Sides, i \in Streams : flowBuf'[<<r, i>>] = flowBuf[<<r, i>>]
    BY <1>1
  <2> QED
    BY <2>1, <2>2, FlowsAgree
<1>5. flowFlight' = flowFlight
  <2>1. OfFlows(flowFlight) /\ OfFlows(flowFlight')
    BY ViewFunctions
  <2>2. \A r \in Sides, i \in Streams : flowFlight'[<<r, i>>] = flowFlight[<<r, i>>]
    BY <1>1
  <2> QED
    BY <2>1, <2>2, FlowsAgree
<1>6. flowBack' = flowBack
  <2>1. OfFlows(flowBack) /\ OfFlows(flowBack')
    BY ViewFunctions
  <2>2. \A r \in Sides, i \in Streams : flowBack'[<<r, i>>] = flowBack[<<r, i>>]
    BY <1>1
  <2> QED
    BY <2>1, <2>2, FlowsAgree
<1> QED
  BY <1>2, <1>3, <1>4, <1>5, <1>6

LEMMA LivesSame == ASSUME LivesStay PROVE flowLife' = flowLife
<1>1. OfFlows(flowLife) /\ OfFlows(flowLife')
  BY ViewFunctions
<1>2. \A r \in Sides, i \in Streams : flowLife'[<<r, i>>] = flowLife[<<r, i>>]
  BY ViewNow, ViewNext DEF LivesStay
<1> QED
  BY <1>1, <1>2, FlowsAgree

LEMMA AbstractStutter ==
  ASSUME LivesStay, \A r \in Sides, i \in Streams : Same(r, i)
  PROVE  Flow!FStep
<1>1. flowLife' = flowLife
  BY LivesSame
<1>2. flowSw' = flowSw /\ flowRw' = flowRw /\ flowBuf' = flowBuf /\ flowFlight' = flowFlight /\ flowBack' = flowBack
  BY ViewSame
<1> QED
  BY <1>1, <1>2 DEF Flow!FStep, Flow!fvars

(* One flow moves: what its five numbers become.                           *)
Moves(r, i, a, b, c, d, e) ==
  /\ LivesStay /\ OthersSame(r, i)
  /\ SwOf(r, i)' = a /\ RwOf(r, i)' = b /\ BufOf(r, i)' = c /\ FlightOf(r, i)' = d /\ BackOf(r, i)' = e

LEMMA MovesAre ==
  ASSUME NEW r \in Sides, NEW i \in Streams, NEW a, NEW b, NEW c, NEW d, NEW e, Moves(r, i, a, b, c, d, e)
  PROVE  /\ flowLife' = flowLife
         /\ flowSw' = [flowSw EXCEPT ![<<r, i>>] = a] /\ flowRw' = [flowRw EXCEPT ![<<r, i>>] = b]
         /\ flowBuf' = [flowBuf EXCEPT ![<<r, i>>] = c] /\ flowFlight' = [flowFlight EXCEPT ![<<r, i>>] = d]
         /\ flowBack' = [flowBack EXCEPT ![<<r, i>>] = e]
<1>1. flowLife' = flowLife
  BY LivesSame DEF Moves
<1>2. \A q \in Sides, j \in Streams : q # r \/ j # i =>
        /\ flowSw'[<<q, j>>] = flowSw[<<q, j>>] /\ flowRw'[<<q, j>>] = flowRw[<<q, j>>]
        /\ flowBuf'[<<q, j>>] = flowBuf[<<q, j>>] /\ flowFlight'[<<q, j>>] = flowFlight[<<q, j>>]
        /\ flowBack'[<<q, j>>] = flowBack[<<q, j>>]
  BY ViewNow, ViewNext DEF Moves, OthersSame, Same
<1>3. /\ flowSw'[<<r, i>>] = a /\ flowRw'[<<r, i>>] = b /\ flowBuf'[<<r, i>>] = c
      /\ flowFlight'[<<r, i>>] = d /\ flowBack'[<<r, i>>] = e
  BY ViewNext DEF Moves
<1>4. flowSw' = [flowSw EXCEPT ![<<r, i>>] = a]
  BY <1>2, <1>3, ViewFunctions, FlowsDiffer
<1>5. flowRw' = [flowRw EXCEPT ![<<r, i>>] = b]
  BY <1>2, <1>3, ViewFunctions, FlowsDiffer
<1>6. flowBuf' = [flowBuf EXCEPT ![<<r, i>>] = c]
  BY <1>2, <1>3, ViewFunctions, FlowsDiffer
<1>7. flowFlight' = [flowFlight EXCEPT ![<<r, i>>] = d]
  BY <1>2, <1>3, ViewFunctions, FlowsDiffer
<1>8. flowBack' = [flowBack EXCEPT ![<<r, i>>] = e]
  BY <1>2, <1>3, ViewFunctions, FlowsDiffer
<1> QED
  BY <1>1, <1>4, <1>5, <1>6, <1>7, <1>8

LEMMA PutBack ==
  ASSUME NEW u, OfFlows(u), NEW f
  PROVE  [u EXCEPT ![f] = u[f]] = u
<1>1. u = [g \in flows |-> u[g]]
  BY DEF OfFlows
<1> QED
  BY <1>1

LEMMA AbstractSpend ==
  ASSUME NEW r \in Sides, NEW i \in Streams, FlowLife(i) = "live", NEW n \in Nat, n > 0, SwOf(r, i) \in Nat, n <= SwOf(r, i),
         Moves(r, i, SwOf(r, i) - n, RwOf(r, i), BufOf(r, i), FlightOf(r, i) + n, BackOf(r, i))
  PROVE  Flow!FStep
<1> DEFINE f == <<r, i>>
<1>1. f \in Flow!Flows /\ f \in flows
  BY DEF Flow!Flows, flows
<1>2. /\ flowLife[f] = "live" /\ flowSw[f] = SwOf(r, i) /\ flowRw[f] = RwOf(r, i) /\ flowBuf[f] = BufOf(r, i)
      /\ flowFlight[f] = FlightOf(r, i) /\ flowBack[f] = BackOf(r, i)
  BY ViewNow
<1>3. /\ flowLife' = flowLife /\ flowSw' = [flowSw EXCEPT ![f] = flowSw[f] - n]
      /\ flowRw' = [flowRw EXCEPT ![f] = flowRw[f]] /\ flowBuf' = [flowBuf EXCEPT ![f] = flowBuf[f]]
      /\ flowFlight' = [flowFlight EXCEPT ![f] = flowFlight[f] + n] /\ flowBack' = [flowBack EXCEPT ![f] = flowBack[f]]
  BY <1>2, MovesAre
<1> HIDE DEF f
<1>4. flowRw' = flowRw /\ flowBuf' = flowBuf /\ flowBack' = flowBack
  BY <1>3, ViewFunctions, PutBack
<1>5. n \in 1..flowSw[f]
  BY <1>2
<1>6. Flow!Spend(f, n)
  BY <1>1, <1>2, <1>3, <1>4, <1>5 DEF Flow!Spend, Flow!Live
<1>7. Flow!FNext
  BY <1>1, <1>5, <1>6 DEF Flow!FNext
<1> QED
  BY <1>7 DEF Flow!FStep

LEMMA AbstractArrive ==
  ASSUME NEW r \in Sides, NEW i \in Streams, FlowLife(i) = "live", NEW n \in Nat, n > 0,
         FlightOf(r, i) \in Nat, n <= FlightOf(r, i), RwOf(r, i) \in Nat, n <= RwOf(r, i),
         Moves(r, i, SwOf(r, i), RwOf(r, i) - n, BufOf(r, i) + n, FlightOf(r, i) - n, BackOf(r, i))
  PROVE  Flow!FStep
<1> DEFINE f == <<r, i>>
<1>1. f \in Flow!Flows /\ f \in flows
  BY DEF Flow!Flows, flows
<1>2. /\ flowLife[f] = "live" /\ flowSw[f] = SwOf(r, i) /\ flowRw[f] = RwOf(r, i) /\ flowBuf[f] = BufOf(r, i)
      /\ flowFlight[f] = FlightOf(r, i) /\ flowBack[f] = BackOf(r, i)
  BY ViewNow
<1>3. /\ flowLife' = flowLife /\ flowSw' = [flowSw EXCEPT ![f] = flowSw[f]]
      /\ flowRw' = [flowRw EXCEPT ![f] = flowRw[f] - n] /\ flowBuf' = [flowBuf EXCEPT ![f] = flowBuf[f] + n]
      /\ flowFlight' = [flowFlight EXCEPT ![f] = flowFlight[f] - n] /\ flowBack' = [flowBack EXCEPT ![f] = flowBack[f]]
  BY <1>2, MovesAre
<1> HIDE DEF f
<1>4. flowSw' = flowSw /\ flowBack' = flowBack
  BY <1>3, ViewFunctions, PutBack
<1>5. n \in 1..flowFlight[f] /\ n <= flowRw[f]
  BY <1>2
<1>6. Flow!Arrive(f, n)
  BY <1>1, <1>2, <1>3, <1>4, <1>5 DEF Flow!Arrive, Flow!Live
<1>7. Flow!FNext
  BY <1>1, <1>5, <1>6 DEF Flow!FNext
<1> QED
  BY <1>7 DEF Flow!FStep

LEMMA AbstractRegain ==
  ASSUME NEW r \in Sides, NEW i \in Streams, FlowLife(i) = "live", NEW n \in Nat, n > 0,
         BackOf(r, i) \in Nat, n <= BackOf(r, i),
         Moves(r, i, SwOf(r, i) + n, RwOf(r, i), BufOf(r, i), FlightOf(r, i), BackOf(r, i) - n)
  PROVE  Flow!FStep
<1> DEFINE f == <<r, i>>
<1>1. f \in Flow!Flows /\ f \in flows
  BY DEF Flow!Flows, flows
<1>2. /\ flowLife[f] = "live" /\ flowSw[f] = SwOf(r, i) /\ flowRw[f] = RwOf(r, i) /\ flowBuf[f] = BufOf(r, i)
      /\ flowFlight[f] = FlightOf(r, i) /\ flowBack[f] = BackOf(r, i)
  BY ViewNow
<1>3. /\ flowLife' = flowLife /\ flowSw' = [flowSw EXCEPT ![f] = flowSw[f] + n]
      /\ flowRw' = [flowRw EXCEPT ![f] = flowRw[f]] /\ flowBuf' = [flowBuf EXCEPT ![f] = flowBuf[f]]
      /\ flowFlight' = [flowFlight EXCEPT ![f] = flowFlight[f]] /\ flowBack' = [flowBack EXCEPT ![f] = flowBack[f] - n]
  BY <1>2, MovesAre
<1> HIDE DEF f
<1>4. flowRw' = flowRw /\ flowBuf' = flowBuf /\ flowFlight' = flowFlight
  BY <1>3, ViewFunctions, PutBack
<1>5. n \in 1..flowBack[f]
  BY <1>2
<1>6. Flow!Regain(f, n)
  BY <1>1, <1>2, <1>3, <1>4, <1>5 DEF Flow!Regain, Flow!Live
<1>7. Flow!FNext
  BY <1>1, <1>5, <1>6 DEF Flow!FNext
<1> QED
  BY <1>7 DEF Flow!FStep

LEMMA AbstractDeliver ==
  ASSUME NEW r \in Sides, NEW i \in Streams, FlowLife(i) = "live", NEW c \in Nat,
         BufOf(r, i) \in Nat, c < BufOf(r, i),
         Moves(r, i, SwOf(r, i), RwOf(r, i), c, FlightOf(r, i), BackOf(r, i))
  PROVE  Flow!FStep
<1> DEFINE f == <<r, i>>
           k == BufOf(r, i) - c
<1>1. f \in Flow!Flows /\ f \in flows
  BY DEF Flow!Flows, flows
<1>2. /\ flowLife[f] = "live" /\ flowSw[f] = SwOf(r, i) /\ flowRw[f] = RwOf(r, i) /\ flowBuf[f] = BufOf(r, i)
      /\ flowFlight[f] = FlightOf(r, i) /\ flowBack[f] = BackOf(r, i)
  BY ViewNow
<1>3. /\ flowLife' = flowLife /\ flowSw' = [flowSw EXCEPT ![f] = flowSw[f]]
      /\ flowRw' = [flowRw EXCEPT ![f] = flowRw[f]] /\ flowBuf' = [flowBuf EXCEPT ![f] = c]
      /\ flowFlight' = [flowFlight EXCEPT ![f] = flowFlight[f]] /\ flowBack' = [flowBack EXCEPT ![f] = flowBack[f]]
  BY <1>2, MovesAre
<1>4. k \in 1..flowBuf[f] /\ c = flowBuf[f] - k
  BY <1>2
<1> HIDE DEF f, k
<1>5. flowSw' = flowSw /\ flowRw' = flowRw /\ flowFlight' = flowFlight /\ flowBack' = flowBack
  BY <1>3, ViewFunctions, PutBack
<1>6. Flow!Deliver(f, k)
  BY <1>1, <1>2, <1>3, <1>4, <1>5 DEF Flow!Deliver, Flow!Live
<1>7. Flow!FNext
  BY <1>1, <1>4, <1>6 DEF Flow!FNext
<1> QED
  BY <1>7 DEF Flow!FStep

(* poll_read with the window update it queues, the maximum being fixed.    *)
LEMMA AbstractGrant ==
  ASSUME NEW r \in Sides, NEW i \in Streams, FlowLife(i) = "live", NEW c \in Nat, NEW n \in Nat,
         BufOf(r, i) \in Nat, c <= BufOf(r, i), RwOf(r, i) \in Nat,
         Credit - RwOf(r, i) >= c, n = (Credit - RwOf(r, i)) - c, n >= Credit \div 2,
         Moves(r, i, SwOf(r, i), RwOf(r, i) + n, c, FlightOf(r, i), BackOf(r, i) + n)
  PROVE  Flow!FStep
<1> DEFINE f == <<r, i>>
           k == BufOf(r, i) - c
           top == [g \in flows |-> Credit]
           none == [s \in Sides |-> 0]
<1>1. f \in Flow!Flows /\ f \in flows /\ f[1] = r /\ Credit \in Nat
  BY MuxAssumption DEF Flow!Flows, flows
<1>2. /\ flowLife[f] = "live" /\ flowSw[f] = SwOf(r, i) /\ flowRw[f] = RwOf(r, i) /\ flowBuf[f] = BufOf(r, i)
      /\ flowFlight[f] = FlightOf(r, i) /\ flowBack[f] = BackOf(r, i)
  BY ViewNow
<1>3. /\ flowLife' = flowLife /\ flowSw' = [flowSw EXCEPT ![f] = flowSw[f]]
      /\ flowRw' = [flowRw EXCEPT ![f] = flowRw[f] + n] /\ flowBuf' = [flowBuf EXCEPT ![f] = c]
      /\ flowFlight' = [flowFlight EXCEPT ![f] = flowFlight[f]] /\ flowBack' = [flowBack EXCEPT ![f] = flowBack[f] + n]
  BY <1>2, MovesAre
<1>4. k \in 0..flowBuf[f] /\ flowBuf[f] - k = c
  BY <1>2
<1>5. top[f] = Credit /\ [top EXCEPT ![f] = Credit] = top /\ none[r] = 0 /\ [none EXCEPT ![r] = 0] = none
  BY <1>1
<1> HIDE DEF f, k, top, none
<1>6. flowSw' = flowSw /\ flowFlight' = flowFlight
  BY <1>3, ViewFunctions, PutBack
<1>7. Flow!Owed(Credit, flowRw[f], c) = n
  BY <1>2 DEF Flow!Owed
<1>8. Flow!Tuned(Credit, 0, FALSE) = Credit /\ Flow!Charge(0, Credit, Credit) = 0
  BY <1>1 DEF Flow!Tuned, Flow!Charge
<1>9. Flow!DeliverAndGrant(f, k, FALSE)
  <2>1. Flow!Tuned(top[f], none[f[1]], FALSE) = Credit
    BY <1>1, <1>5, <1>8
  <2>2. Flow!Charge(none[f[1]], top[f], Credit) = 0
    BY <1>1, <1>5, <1>8
  <2>3. Flow!Live(f)
    BY <1>2 DEF Flow!Live
  <2> QED
    BY <2>1, <2>2, <2>3, <1>1, <1>3, <1>4, <1>5, <1>6, <1>7 DEF Flow!DeliverAndGrant, top, none
<1>10. Flow!FNext
  BY <1>1, <1>4, <1>9 DEF Flow!FNext
<1> QED
  BY <1>10 DEF Flow!FStep

(* A cut flow has nothing.                                                 *)
LEMMA CutNext ==
  ASSUME NEW r \in Sides, NEW i \in Streams, FlowLife(i)' = "cut"
  PROVE  SwOf(r, i)' = 0 /\ RwOf(r, i)' = 0 /\ BufOf(r, i)' = 0 /\ FlightOf(r, i)' = 0 /\ BackOf(r, i)' = 0
BY DEF SwOf, RwOf, BufOf, FlightOf, BackOf, UnlessCut

LEMMA CutNow ==
  ASSUME NEW r \in Sides, NEW i \in Streams, FlowLife(i) = "cut"
  PROVE  SwOf(r, i) = 0 /\ RwOf(r, i) = 0 /\ BufOf(r, i) = 0 /\ FlightOf(r, i) = 0 /\ BackOf(r, i) = 0
BY DEF SwOf, RwOf, BufOf, FlightOf, BackOf, UnlessCut

LEMMA CutStaysSame ==
  ASSUME NEW r \in Sides, NEW i \in Streams, FlowLife(i) = "cut", FlowLife(i)' = "cut"
  PROVE  Same(r, i)
BY CutNow, CutNext DEF Same

LEMMA AbstractCut ==
  ASSUME NEW T, T \subseteq Streams, T # {}, \A i \in T : FlowLife(i) = "live" /\ FlowLife(i)' = "cut",
         \A j \in Streams : j \notin T => FlowLife(j)' = FlowLife(j) /\ \A r \in Sides : Same(r, j)
  PROVE  Flow!FStep
<1> DEFINE S == Sides \X T
           Zeroed(v) == [f \in flows |-> IF f \in S THEN 0 ELSE v[f]]
<1>1. S \in SUBSET Flow!Flows /\ S # {} /\ Flow!Flows = flows
  <2>1. PICK i \in T : TRUE
    OBVIOUS
  <2>2. <<"client", i>> \in S
    BY <2>1, SideFacts
  <2> QED
    BY <2>2 DEF Flow!Flows, flows
<1>2. \A r \in Sides, i \in Streams : <<r, i>> \in flows /\ (<<r, i>> \in S <=> i \in T)
  BY DEF flows
<1>3. \A f \in S : f = <<f[1], f[2]>> /\ f[1] \in Sides /\ f[2] \in T
  OBVIOUS
<1>4. \A f \in S : flowLife[f] = "live"
  BY <1>3, ViewNow
<1> HIDE DEF S
<1>5. flowLife' = [f \in flows |-> IF f \in S THEN "cut" ELSE flowLife[f]]
  <2> DEFINE w == [f \in flows |-> IF f \in S THEN "cut" ELSE flowLife[f]]
  <2>1. OfFlows(w)
    BY DEF OfFlows
  <2>2. ASSUME NEW r \in Sides, NEW i \in Streams PROVE flowLife'[<<r, i>>] = w[<<r, i>>]
    <3>1. w[<<r, i>>] = IF i \in T THEN "cut" ELSE flowLife[<<r, i>>]
      BY <1>2
    <3> HIDE DEF w
    <3> QED
      BY <3>1, ViewNow, ViewNext
  <2> HIDE DEF w
  <2>3. flowLife' = w
    BY <2>1, <2>2, ViewFunctions, FlowsAgree
  <2> QED
    BY <2>3 DEF w
<1>6. ASSUME NEW u, NEW v, OfFlows(u), OfFlows(v),
             \A r \in Sides, i \in Streams : u[<<r, i>>] = IF i \in T THEN 0 ELSE v[<<r, i>>]
      PROVE  u = Zeroed(v)
  <2>1. OfFlows(Zeroed(v))
    BY DEF OfFlows
  <2>2. ASSUME NEW r \in Sides, NEW i \in Streams PROVE u[<<r, i>>] = Zeroed(v)[<<r, i>>]
    BY <1>2, <1>6
  <2> HIDE DEF Zeroed
  <2> QED
    BY <2>1, <2>2, <1>6, FlowsAgree
<1> HIDE DEF Zeroed
<1>7. \A r \in Sides, i \in Streams :
        /\ flowSw'[<<r, i>>] = IF i \in T THEN 0 ELSE flowSw[<<r, i>>]
        /\ flowRw'[<<r, i>>] = IF i \in T THEN 0 ELSE flowRw[<<r, i>>]
        /\ flowBuf'[<<r, i>>] = IF i \in T THEN 0 ELSE flowBuf[<<r, i>>]
        /\ flowFlight'[<<r, i>>] = IF i \in T THEN 0 ELSE flowFlight[<<r, i>>]
        /\ flowBack'[<<r, i>>] = IF i \in T THEN 0 ELSE flowBack[<<r, i>>]
  <2> SUFFICES ASSUME NEW r \in Sides, NEW i \in Streams
               PROVE  /\ flowSw'[<<r, i>>] = IF i \in T THEN 0 ELSE flowSw[<<r, i>>]
                      /\ flowRw'[<<r, i>>] = IF i \in T THEN 0 ELSE flowRw[<<r, i>>]
                      /\ flowBuf'[<<r, i>>] = IF i \in T THEN 0 ELSE flowBuf[<<r, i>>]
                      /\ flowFlight'[<<r, i>>] = IF i \in T THEN 0 ELSE flowFlight[<<r, i>>]
                      /\ flowBack'[<<r, i>>] = IF i \in T THEN 0 ELSE flowBack[<<r, i>>]
    OBVIOUS
  <2>1. CASE i \in T
    BY <2>1, ViewNext, CutNext
  <2>2. CASE i \notin T
    BY <2>2, ViewNow, ViewNext DEF Same
  <2> QED
    BY <2>1, <2>2
<1>8. flowSw' = Zeroed(flowSw)
  BY <1>6, <1>7, ViewFunctions
<1>9. flowRw' = Zeroed(flowRw)
  BY <1>6, <1>7, ViewFunctions
<1>10. flowBuf' = Zeroed(flowBuf)
  BY <1>6, <1>7, ViewFunctions
<1>11. flowFlight' = Zeroed(flowFlight)
  BY <1>6, <1>7, ViewFunctions
<1>12. flowBack' = Zeroed(flowBack)
  BY <1>6, <1>7, ViewFunctions
<1>13. Flow!Cut(S)
  BY <1>1, <1>4, <1>5, <1>8, <1>9, <1>10, <1>11, <1>12 DEF Flow!Cut, Flow!Live, Zeroed
<1>14. Flow!FNext
  BY <1>1, <1>13 DEF Flow!FNext
<1> QED
  BY <1>14 DEF Flow!FStep

(* The instance counts with a copy of Cardinality.                         *)
LEMMA SameCardinality == ASSUME NEW S PROVE Flow!Cardinality(S) = Cardinality(S)
BY DEF Flow!Cardinality, Cardinality

LEMMA AbstractCreate ==
  ASSUME NEW i \in Streams, FlowLife(i) = "none", FlowLife(i)' = "live",
         \A j \in Streams : j # i => FlowLife(j)' = FlowLife(j), \A r \in Sides, j \in Streams : Same(r, j)
  PROVE  Flow!FStep
<1>1. ASSUME NEW r \in Sides PROVE flowLife[<<r, i>>] = "none" /\ Cardinality(Flow!Controllers(r)) < Cardinality(Streams)
  <2>1. flowLife[<<r, i>>] = "none"
    BY ViewNow
  <2>2. Flow!Controllers(r) \subseteq Streams /\ i \notin Flow!Controllers(r)
    BY <2>1 DEF Flow!Controllers
  <2>3. IsFiniteSet(Streams)
    BY MuxAssumption
  <2>4. Flow!Controllers(r) \subseteq Streams \ {i}
    BY <2>2
  <2>5. IsFiniteSet(Streams \ {i}) /\ Cardinality(Streams \ {i}) = Cardinality(Streams) - 1
    BY <2>3, FS_RemoveElement
  <2>6. Cardinality(Flow!Controllers(r)) <= Cardinality(Streams \ {i}) /\ IsFiniteSet(Flow!Controllers(r))
    BY <2>4, <2>5, FS_Subset
  <2>7. Cardinality(Streams) \in Nat /\ Cardinality(Flow!Controllers(r)) \in Nat
    BY <2>3, <2>6, FS_CardinalityType
  <2> QED
    BY <2>1, <2>5, <2>6, <2>7
<1>2. flowLife' = [f \in flows |-> IF f[2] = i THEN "live" ELSE flowLife[f]]
  <2> DEFINE w == [f \in flows |-> IF f[2] = i THEN "live" ELSE flowLife[f]]
  <2>1. OfFlows(w)
    BY DEF OfFlows
  <2>2. ASSUME NEW r \in Sides, NEW j \in Streams PROVE flowLife'[<<r, j>>] = w[<<r, j>>]
    <3>1. w[<<r, j>>] = IF j = i THEN "live" ELSE flowLife[<<r, j>>]
      BY DEF flows
    <3> HIDE DEF w
    <3> QED
      BY <3>1, ViewNow, ViewNext
  <2> HIDE DEF w
  <2>3. flowLife' = w
    BY <2>1, <2>2, ViewFunctions, FlowsAgree
  <2> QED
    BY <2>3 DEF w
<1>3. flowSw' = flowSw /\ flowRw' = flowRw /\ flowBuf' = flowBuf /\ flowFlight' = flowFlight /\ flowBack' = flowBack
  BY ViewSame
<1>4. Flow!Flows = flows
  BY DEF Flow!Flows, flows
<1>5. Flow!Create(i)
  <2>1. \A r \in Sides : flowLife[<<r, i>>] = "none" /\ Cardinality(Flow!Controllers(r)) < Cardinality(Streams)
    BY <1>1
  <2>2. flowLife' = [f \in Flow!Flows |-> IF f[2] = i THEN "live" ELSE flowLife[f]]
    BY <1>2, <1>4
  <2> QED
    BY <2>1, <2>2, <1>3, SameCardinality DEF Flow!Create
<1>6. Flow!FNext
  BY <1>5 DEF Flow!FNext
<1> QED
  BY <1>6 DEF Flow!FStep

-----------------------------------------------------------------------------
(* The life of a stream's flows, by where its announcement is.             *)
LEMMA NoMarks ==
  ASSUME NEW s \in Seq(Frames), NEW i
  PROVE  Syns(s, i) = 0 <=> ~\E j \in DOMAIN s : s[j].id = i /\ "SYN" \in s[j].fl
<1> DEFINE w == Marks(s, i)
<1>1. w \in Seq(Nat) /\ Len(w) = Len(s) /\ DOMAIN s = 1..Len(s) /\ \A j \in 1..Len(s) : w[j] = Syn(s[j], i) /\ Syn(s[j], i) \in Nat
  BY PartsLook
<1>2. Syns(s, i) = Total(w)
  BY SumsAre
<1> HIDE DEF w
<1>3. \A j \in 1..Len(w) : w[j] <= Total(w)
  BY <1>1, TotalCovers
<1>4. (\A j \in 1..Len(w) : w[j] = 0) => Total(w) = 0
  BY <1>1, TotalHasTerm
<1>5. \A j \in DOMAIN s : Syn(s[j], i) = IF s[j].id = i /\ "SYN" \in s[j].fl THEN 1 ELSE 0
  BY DEF Syn
<1>6. ASSUME Total(w) = 0, NEW j \in DOMAIN s PROVE Syn(s[j], i) = 0
  <2>1. w[j] <= 0 /\ w[j] \in Nat
    BY <1>1, <1>3, <1>6
  <2> QED
    BY <2>1, <1>1
<1>7. Total(w) = 0 => ~\E j \in DOMAIN s : s[j].id = i /\ "SYN" \in s[j].fl
  BY <1>5, <1>6
<1>8. (~\E j \in DOMAIN s : s[j].id = i /\ "SYN" \in s[j].fl) => Total(w) = 0
  BY <1>1, <1>4, <1>5
<1> QED
  BY <1>2, <1>7, <1>8

LEMMA TravelsNow ==
  ASSUME MuxShape, NEW i \in Streams
  PROVE  SynTravels(i) <=> UnderWay(i) # 0
<1>1. /\ Owed(i) \in Nat /\ InChan(i) \in Nat /\ InData(i) \in Nat /\ InWire(i) \in Nat
      /\ UnderWay(i) = Owed(i) + InChan(i) + InData(i) + InWire(i)
  BY SynNat
<1>2. UnderWay(i) = 0 <=> Owed(i) = 0 /\ InChan(i) = 0 /\ InData(i) = 0 /\ InWire(i) = 0
  BY <1>1
<1>3. chan["client"][i] \in Seq(Frames) /\ data["client"] \in Seq(Frames) /\ wire["client"] \in Seq(Frames)
  BY SideFacts, ShapeQueues
<1>4. /\ InChan(i) = 0 <=> ~\E j \in DOMAIN chan["client"][i] : chan["client"][i][j].id = i /\ "SYN" \in chan["client"][i][j].fl
      /\ InData(i) = 0 <=> ~\E j \in DOMAIN data["client"] : data["client"][j].id = i /\ "SYN" \in data["client"][j].fl
      /\ InWire(i) = 0 <=> ~\E j \in DOMAIN wire["client"] : wire["client"][j].id = i /\ "SYN" \in wire["client"][j].fl
  BY <1>3, NoMarks DEF InChan, InData, InWire
<1>5. Owed(i) = 0 <=> "SYN" \notin ep["client"][i].flag
  BY DEF Owed
<1> QED
  BY <1>2, <1>4, <1>5 DEF SynTravels

LEMMA TravelsNext ==
  ASSUME MuxShape', NEW i \in Streams
  PROVE  SynTravels(i)' <=> UnderWay(i)' # 0
<1>1. chan'["client"][i] \in Seq(Frames) /\ data'["client"] \in Seq(Frames) /\ wire'["client"] \in Seq(Frames)
  BY SideFacts DEF MuxShape
<1>2. InChan(i)' \in Nat /\ InData(i)' \in Nat /\ InWire(i)' \in Nat
  BY <1>1, SumNat DEF InChan, InData, InWire
<1>3. Owed(i)' \in Nat /\ (Owed(i)' = 0 <=> "SYN" \notin ep'["client"][i].flag)
  BY DEF Owed
<1>4. UnderWay(i)' = Owed(i)' + InChan(i)' + InData(i)' + InWire(i)'
  BY DEF UnderWay
<1>5. UnderWay(i)' = 0 <=> Owed(i)' = 0 /\ InChan(i)' = 0 /\ InData(i)' = 0 /\ InWire(i)' = 0
  <2> DEFINE u == UnderWay(i)'
             v == Owed(i)'
             w == InChan(i)'
             x == InData(i)'
             y == InWire(i)'
  <2>1. v \in Nat /\ w \in Nat /\ x \in Nat /\ y \in Nat /\ u = v + w + x + y
    BY <1>2, <1>3, <1>4
  <2> HIDE DEF u, v, w, x, y
  <2>2. u = 0 <=> v = 0 /\ w = 0 /\ x = 0 /\ y = 0
    BY <2>1
  <2> QED
    BY <2>2 DEF u, v, w, x, y
<1>6. /\ InChan(i)' = 0 <=> ~\E j \in DOMAIN chan'["client"][i] : chan'["client"][i][j].id = i /\ "SYN" \in chan'["client"][i][j].fl
      /\ InData(i)' = 0 <=> ~\E j \in DOMAIN data'["client"] : data'["client"][j].id = i /\ "SYN" \in data'["client"][j].fl
      /\ InWire(i)' = 0 <=> ~\E j \in DOMAIN wire'["client"] : wire'["client"][j].id = i /\ "SYN" \in wire'["client"][j].fl
  BY <1>1, NoMarks DEF InChan, InData, InWire
<1> QED
  BY <1>3, <1>5, <1>6 DEF SynTravels

Severed(i) ==
  \/ EndGone("client", i) \/ EndGone("server", i)
  \/ ep["server"][i].handle = "none" /\ UnderWay(i) = 0

LEMMA LifeNow ==
  ASSUME MuxShape, NEW i \in Streams
  PROVE  FlowLife(i) = IF ep["client"][i].handle = "none" THEN "none" ELSE IF Severed(i) THEN "cut" ELSE "live"
BY TravelsNow, SideFacts DEF FlowLife, Severed

LEMMA LifeNext ==
  ASSUME MuxShape', NEW i \in Streams
  PROVE  FlowLife(i)' = IF ep'["client"][i].handle = "none" THEN "none" ELSE IF Severed(i)' THEN "cut" ELSE "live"
BY TravelsNext, SideFacts DEF FlowLife, Severed

-----------------------------------------------------------------------------
(* A step that shows at a stream nothing that its flows are made of.       *)
Living(h) == h \in {"held", "dropped"}
SameHandle(p, j) ==
  ep'[p][j].handle = ep[p][j].handle \/ (Living(ep'[p][j].handle) /\ Living(ep[p][j].handle))
Still(j) ==
  /\ conn' = conn /\ (UnderWay(j)' = 0 <=> UnderWay(j) = 0)
  /\ \A p \in Sides :
       /\ SameHandle(p, j)
       /\ ep'[p][j].sw = ep[p][j].sw /\ ep'[p][j].rw = ep[p][j].rw /\ ep'[p][j].buf = ep[p][j].buf
       /\ \A k \in Kinds : InFlight(p, k, j)' = InFlight(p, k, j)

LEMMA SameLife ==
  ASSUME MuxShape, MuxShape', NEW j \in Streams, conn' = conn, UnderWay(j)' = 0 <=> UnderWay(j) = 0,
         \A p \in Sides : SameHandle(p, j)
  PROVE  FlowLife(j)' = FlowLife(j)
<1>1. \A p \in Sides : /\ ep'[p][j].handle = "none" <=> ep[p][j].handle = "none"
                       /\ EndGone(p, j)' <=> EndGone(p, j)
  BY DEF SameHandle, Living, EndGone
<1>2. Severed(j)' <=> Severed(j)
  BY <1>1, SideFacts DEF Severed
<1> QED
  BY <1>1, <1>2, LifeNow, LifeNext, SideFacts

LEMMA SameNumbers ==
  ASSUME NEW j \in Streams, FlowLife(j)' = FlowLife(j),
         \A p \in Sides :
           /\ ep'[p][j].handle = "none" <=> ep[p][j].handle = "none"
           /\ ep'[p][j].sw = ep[p][j].sw /\ ep'[p][j].rw = ep[p][j].rw /\ ep'[p][j].buf = ep[p][j].buf
           /\ InFlight(p, "data", j)' = InFlight(p, "data", j) /\ InFlight(p, "wu", j)' = InFlight(p, "wu", j)
  PROVE  \A r \in Sides : Same(r, j)
<1>1. ASSUME NEW p \in Sides
      PROVE  End(p, j)'.sw = End(p, j).sw /\ End(p, j)'.rw = End(p, j).rw /\ End(p, j)'.buf = End(p, j).buf
  BY DEF End
<1>2. ASSUME NEW r \in Sides PROVE Same(r, j)
  <2>1. Peer(r) \in Sides
    BY SideFacts
  <2> QED
    BY <1>1, <2>1 DEF Same, SwOf, RwOf, BufOf, FlightOf, BackOf, UnlessCut
<1> QED
  BY <1>2

LEMMA StillSame ==
  ASSUME MuxShape, MuxShape', NEW j \in Streams, Still(j)
  PROVE  FlowLife(j)' = FlowLife(j) /\ \A r \in Sides : Same(r, j)
<1>1. FlowLife(j)' = FlowLife(j)
  BY SameLife DEF Still
<1>2. "data" \in Kinds /\ "wu" \in Kinds
  BY DEF Kinds
<1>3. \A p \in Sides : ep'[p][j].handle = "none" <=> ep[p][j].handle = "none"
  BY DEF Still, SameHandle, Living
<1> QED
  BY <1>1, <1>2, <1>3, SameNumbers DEF Still

LEMMA StillStutters ==
  ASSUME MuxShape, MuxShape', \A j \in Streams : Still(j)
  PROVE  Flow!FStep
BY StillSame, AbstractStutter DEF LivesStay

(* A step that cuts some streams and shows nothing at the others.          *)
LEMMA CutOrStutter ==
  ASSUME \A j \in Streams : \/ FlowLife(j)' = FlowLife(j) /\ \A r \in Sides : Same(r, j)
                            \/ FlowLife(j) = "live" /\ FlowLife(j)' = "cut"
  PROVE  Flow!FStep
<1> DEFINE T == {j \in Streams : FlowLife(j) = "live" /\ FlowLife(j)' = "cut"}
<1>1. T \subseteq Streams /\ (\A j \in T : FlowLife(j) = "live" /\ FlowLife(j)' = "cut")
      /\ (\A j \in Streams : j \notin T => FlowLife(j)' = FlowLife(j) /\ \A r \in Sides : Same(r, j))
  OBVIOUS
<1> HIDE DEF T
<1>2. CASE T = {}
  BY <1>1, <1>2, AbstractStutter DEF LivesStay
<1>3. CASE T # {}
  BY <1>1, <1>3, AbstractCut
<1> QED
  BY <1>2, <1>3

(* A stream the server has an end of, or the client, is one the client     *)
(* opened.                                                                 *)
LEMMA ClientFirst ==
  ASSUME MuxInv, NEW i \in Streams
  PROVE  ep["client"][i].handle = "none" => ep["server"][i].handle = "none" /\ UnderWay(i) = 0
<1>1. Announced(i) /\ MuxShape
  BY DEF MuxInv, SynOnce
<1>2. UnderWay(i) \in Nat /\ Met(i) \in Nat
  BY <1>1, SynNat
<1>3. ep["client"][i].handle = "none" => UnderWay(i) + Met(i) = 0
  BY <1>1 DEF Announced
<1> QED
  BY <1>2, <1>3 DEF Met

LEMMA FlowIsEither ==
  ASSUME MuxInv, NEW p \in Sides, NEW i \in Streams, ep[p][i].handle # "none"
  PROVE  FlowLife(i) \in {"live", "cut"}
BY LifeNow, ClientFirst, SideFacts DEF MuxInv

-----------------------------------------------------------------------------
LEMMA TakeRefines ==
  ASSUME MuxInv, MuxInv', NEW p \in Sides, NEW i \in Streams, TakeCommand(p, i)
  PROVE  Flow!FStep
<1>1. MuxShape /\ MuxShape' /\ SynOnce
  BY DEF MuxInv
<1>2. conn' = conn /\ ep' = ep
  BY DEF TakeCommand
<1>3. \A j \in Streams : Still(j)
  BY <1>1, <1>2, TakeAlike, TakeSyn DEF Still, SameHandle
<1> QED
  BY <1>1, <1>3, StillStutters

LEMMA TransmitRefines ==
  ASSUME MuxInv, MuxInv', NEW p \in Sides, Transmit(p)
  PROVE  Flow!FStep
<1>1. MuxShape /\ MuxShape' /\ SynOnce
  BY DEF MuxInv
<1>2. PICK f : Sends(p, f)
  BY <1>1, TransmitSends
<1>3. conn' = conn /\ ep' = ep
  BY DEF Transmit
<1>4. \A j \in Streams : Still(j)
  BY <1>1, <1>2, <1>3, SendsAlike, SendsSyn DEF Still, SameHandle
<1> QED
  BY <1>1, <1>4, StillStutters

(* What the abstract variables are while a flow is not cut.                *)
LEMMA LiveNow ==
  ASSUME NEW r \in Sides, NEW i \in Streams, FlowLife(i) # "cut"
  PROVE  /\ SwOf(r, i) = End(Peer(r), i).sw /\ RwOf(r, i) = End(r, i).rw /\ BufOf(r, i) = End(r, i).buf
         /\ FlightOf(r, i) = InFlight(Peer(r), "data", i) /\ BackOf(r, i) = InFlight(r, "wu", i)
BY DEF SwOf, RwOf, BufOf, FlightOf, BackOf, UnlessCut

LEMMA LiveNext ==
  ASSUME NEW r \in Sides, NEW i \in Streams, FlowLife(i)' # "cut"
  PROVE  /\ SwOf(r, i)' = End(Peer(r), i)'.sw /\ RwOf(r, i)' = End(r, i)'.rw /\ BufOf(r, i)' = End(r, i)'.buf
         /\ FlightOf(r, i)' = InFlight(Peer(r), "data", i)' /\ BackOf(r, i)' = InFlight(r, "wu", i)'
BY DEF SwOf, RwOf, BufOf, FlightOf, BackOf, UnlessCut

(* One stream may show, the others do not.                                 *)
LEMMA OneShows ==
  ASSUME MuxShape, MuxShape', NEW i \in Streams, \A j \in Streams : j # i => Still(j), FlowLife(i)' = FlowLife(i)
  PROVE  LivesStay /\ \A j \in Streams, r \in Sides : j # i => Same(r, j)
BY StillSame DEF LivesStay

LEMMA OneMoves ==
  ASSUME NEW i \in Streams, NEW r \in Sides, NEW q \in Sides, \A s \in Sides : s = r \/ s = q,
         \A j \in Streams, s \in Sides : j # i => Same(s, j), Same(q, i)
  PROVE  OthersSame(r, i)
BY DEF OthersSame

(* A turn of a user spends a's bytes, or grants b's credit, or delivers.   *)
LEMMA TurnRefines ==
  ASSUME MuxInv, MuxInv', NEW p \in Sides, NEW i \in Streams, NEW e, Turn(p, i, e)
  PROVE  Flow!FStep
<1> DEFINE q == Peer(p)
           d == ep[p][i]
<1>1. MuxShape /\ MuxShape'
  BY DEF MuxInv
<1>2. q \in Sides /\ q # p /\ Peer(q) = p /\ \A r \in Sides : r = p \/ r = q
  BY SideFacts
<1>3. PICK a, b \in Nat : Exchange(p, i, e, a, b)
  BY <1>1, TurnNumbers
<1>4. /\ ep'[p][i] = e /\ \A r \in Sides, j \in Streams : r # p \/ j # i => ep'[r][j] = ep[r][j]
      /\ \A j \in Streams : UnderWay(j)' = UnderWay(j)
  BY <1>1, TurnEnds
<1>5. conn' = conn /\ d.handle \in {"held", "dropped"} /\ e.handle \in {"held", "dropped"} /\ e \in EndStates /\ e.buf <= d.buf
  BY DEF Turn, Present
<1>6. \A r \in Sides, j \in Streams, k \in Kinds : r # p \/ j # i => InFlight(r, k, j)' = InFlight(r, k, j)
  BY <1>1, TurnFlight
<1>7. ASSUME NEW j \in Streams, j # i PROVE Still(j)
  BY <1>4, <1>5, <1>6, <1>7 DEF Still, SameHandle
<1>8. FlowLife(i)' = FlowLife(i)
  <2>1. SameHandle(p, i)
    BY <1>4, <1>5 DEF SameHandle, Living
  <2>2. SameHandle(q, i)
    BY <1>2, <1>4 DEF SameHandle
  <2>3. \A r \in Sides : SameHandle(r, i)
    BY <1>2, <2>1, <2>2
  <2> QED
    BY <2>3, <1>1, <1>4, <1>5, SameLife
<1>9. LivesStay /\ \A j \in Streams, r \in Sides : j # i => Same(r, j)
  BY <1>1, <1>7, <1>8, OneShows
<1>10. CASE FlowLife(i) = "cut"
  <2>1. \A r \in Sides : Same(r, i)
    BY <1>8, <1>10, CutStaysSame
  <2> QED
    BY <2>1, <1>9, AbstractStutter
<1>11. CASE FlowLife(i) # "cut"
  <2>1. FlowLife(i) = "live"
    BY <1>5, <1>11, FlowIsEither
  <2>2. /\ {d.sw, d.rw, d.buf} \subseteq Nat /\ {e.sw, e.rw, e.buf} \subseteq Nat
        /\ InFlight(p, "data", i) \in Nat /\ InFlight(p, "wu", i) \in Nat
    BY <1>1, <1>5, EndFacts, FlightNat DEF EndStates
  <2>3. End(p, i) = d /\ End(p, i)' = e /\ End(q, i)' = End(q, i)
    BY <1>2, <1>4, <1>5 DEF End
  <2>4. /\ SwOf(q, i) = d.sw /\ SwOf(q, i)' = e.sw /\ RwOf(p, i) = d.rw /\ RwOf(p, i)' = e.rw
        /\ BufOf(p, i) = d.buf /\ BufOf(p, i)' = e.buf
        /\ FlightOf(q, i) = InFlight(p, "data", i) /\ FlightOf(q, i)' = InFlight(p, "data", i)'
        /\ BackOf(p, i) = InFlight(p, "wu", i) /\ BackOf(p, i)' = InFlight(p, "wu", i)'
    BY <2>3, <1>2, <1>8, <1>11, LiveNow, LiveNext
  <2>5. /\ SwOf(p, i)' = SwOf(p, i) /\ RwOf(q, i)' = RwOf(q, i) /\ BufOf(q, i)' = BufOf(q, i)
        /\ FlightOf(p, i)' = FlightOf(p, i) /\ BackOf(q, i)' = BackOf(q, i)
    <3>1. InFlight(q, "data", i)' = InFlight(q, "data", i) /\ InFlight(q, "wu", i)' = InFlight(q, "wu", i)
      BY <1>2, <1>6 DEF Kinds
    <3> QED
      BY <3>1, <2>3, <1>2, <1>8, <1>11, LiveNow, LiveNext
  <2>6. /\ d.sw = e.sw + a /\ e.rw = d.rw + b
        /\ InFlight(p, "data", i)' = InFlight(p, "data", i) + a /\ InFlight(p, "wu", i)' = InFlight(p, "wu", i) + b
        /\ (a > 0 => b = 0 /\ e.buf = d.buf)
        /\ (b > 0 => Credit - d.rw >= e.buf /\ b = (Credit - d.rw) - e.buf /\ b >= Credit \div 2)
    BY <1>3 DEF Exchange, Due
  <2> HIDE DEF q, d
  <2>7. CASE a > 0
    <3>1. Same(p, i)
      BY <2>2, <2>4, <2>5, <2>6, <2>7 DEF Same
    <3>2. SwOf(q, i)' = SwOf(q, i) - a /\ a <= SwOf(q, i) /\ SwOf(q, i) \in Nat
      BY <2>2, <2>4, <2>6
    <3>3. Moves(q, i, SwOf(q, i) - a, RwOf(q, i), BufOf(q, i), FlightOf(q, i) + a, BackOf(q, i))
      BY <3>1, <3>2, <2>4, <2>5, <2>6, <1>2, <1>9, OneMoves DEF Moves
    <3> QED
      BY <3>2, <3>3, <2>1, <2>7, <1>2, AbstractSpend
  <2>8. CASE b > 0
    <3>1. a = 0
      BY <2>6, <2>8
    <3>2. Same(q, i)
      BY <3>1, <2>2, <2>4, <2>5, <2>6 DEF Same
    <3>3. Moves(p, i, SwOf(p, i), RwOf(p, i) + b, e.buf, FlightOf(p, i), BackOf(p, i) + b)
      BY <3>2, <2>4, <2>5, <2>6, <1>2, <1>9, OneMoves DEF Moves
    <3>4. BufOf(p, i) \in Nat /\ e.buf \in Nat /\ e.buf <= BufOf(p, i) /\ RwOf(p, i) \in Nat
      BY <2>2, <2>4, <1>5 DEF d
    <3>5. Credit - RwOf(p, i) >= e.buf /\ b = (Credit - RwOf(p, i)) - e.buf /\ b >= Credit \div 2
      BY <2>4, <2>6, <2>8
    <3> QED
      BY <3>3, <3>4, <3>5, <2>1, AbstractGrant
  <2>9. CASE a = 0 /\ b = 0
    <3>1. Same(q, i)
      BY <2>2, <2>4, <2>5, <2>6, <2>9 DEF Same
    <3>2. RwOf(p, i)' = RwOf(p, i) /\ BackOf(p, i)' = BackOf(p, i)
      BY <2>2, <2>4, <2>6, <2>9
    <3>3. CASE e.buf < d.buf
      <4>1. Moves(p, i, SwOf(p, i), RwOf(p, i), e.buf, FlightOf(p, i), BackOf(p, i))
        BY <3>1, <3>2, <2>4, <2>5, <1>2, <1>9, OneMoves DEF Moves
      <4>2. BufOf(p, i) \in Nat /\ e.buf \in Nat /\ e.buf < BufOf(p, i)
        BY <3>3, <2>2, <2>4
      <4> QED
        BY <4>1, <4>2, <2>1, AbstractDeliver
    <3>4. CASE ~(e.buf < d.buf)
      <4>1. e.buf = d.buf
        <5>1. e.buf <= d.buf
          BY <1>5 DEF d
        <5> QED
          BY <5>1, <3>4, <2>2
      <4>2. Same(p, i)
        BY <4>1, <3>2, <2>4, <2>5 DEF Same
      <4> QED
        BY <4>2, <3>1, <1>2, <1>9, AbstractStutter
    <3> QED
      BY <3>3, <3>4
  <2> QED
    BY <2>7, <2>8, <2>9
<1> QED
  BY <1>10, <1>11

-----------------------------------------------------------------------------
(* A stream opens: its flows are created with their first credit.          *)
LEMMA OpenRefines ==
  ASSUME MuxInv, MuxInv', NEW i \in Streams, OpenStream(i)
  PROVE  Flow!FStep
<1> DEFINE e == NewEnd({"SYN"})
           c == "client"
           s == "server"
<1>1. /\ conn[c] = "active" /\ ep[c][i].handle = "none" /\ ep' = [ep EXCEPT ![c][i] = e]
      /\ conn' = conn /\ chan' = chan /\ ctrl' = ctrl /\ data' = data /\ wire' = wire
  BY DEF OpenStream
<1>2. /\ e.handle = "held" /\ e.flag = {"SYN"} /\ e.sw = Credit /\ e.rw = Credit /\ e.buf = 0
      /\ NewEnd({}).sw = Credit /\ NewEnd({}).rw = Credit /\ NewEnd({}).buf = 0
  BY NewEndIs
<1> HIDE DEF e
<1>3. MuxShape /\ MuxShape' /\ c \in Sides /\ s \in Sides /\ c # s /\ (\A r \in Sides : r = c \/ r = s)
      /\ \A r \in Sides : Peer(r) \in Sides
  BY SideFacts DEF MuxInv
<1>4. ep'[c][i] = e /\ \A r \in Sides, j \in Streams : r # c \/ j # i => ep'[r][j] = ep[r][j]
  <2>1. MuxShape /\ c \in Sides /\ ep' = [ep EXCEPT ![c][i] = e]
    BY <1>1, <1>3
  <2> HIDE DEF c
  <2> QED
    BY <2>1 DEF MuxShape
<1>5. \A r \in Sides, j \in Streams, k \in Kinds : InFlight(r, k, j)' = InFlight(r, k, j)
  BY <1>1 DEF InFlight
<1>6. ASSUME NEW j \in Streams, j # i PROVE Still(j)
  <2>1. UnderWay(j)' = UnderWay(j)
    BY <1>1, <1>3, <1>4, <1>6 DEF UnderWay, Owed, InChan, InData, InWire
  <2> QED
    BY <2>1, <1>1, <1>4, <1>5, <1>6 DEF Still, SameHandle
<1>7. FlowLife(i) = "none" /\ ep[s][i].handle = "none"
  BY <1>1, <1>3, LifeNow, ClientFirst
<1>8. FlowLife(i)' = "live"
  <2>1. UnderWay(i)' # 0
    BY <1>2, <1>3, <1>4, TravelsNext DEF SynTravels
  <2>2. ep'[s][i] = ep[s][i]
    BY <1>3, <1>4
  <2>3. ~Severed(i)'
    BY <2>1, <2>2, <1>1, <1>2, <1>4, <1>7 DEF Severed, EndGone
  <2> QED
    BY <2>3, <1>2, <1>3, <1>4, LifeNext
<1>9. ASSUME NEW r \in Sides PROVE Same(r, i)
  <2>1. ASSUME NEW t \in Sides
        PROVE  End(t, i)'.sw = End(t, i).sw /\ End(t, i)'.rw = End(t, i).rw /\ End(t, i)'.buf = End(t, i).buf
    <3>1. CASE t = c
      <4>1. End(t, i) = NewEnd({}) /\ End(t, i)' = e
        BY <3>1, <1>1, <1>2, <1>4 DEF End
      <4> QED
        BY <4>1, <1>2
    <3>2. CASE t = s
      <4>1. End(t, i)' = End(t, i)
        BY <3>2, <1>3, <1>4 DEF End
      <4> QED
        BY <4>1
    <3> QED
      BY <3>1, <3>2, <1>3
  <2>2. InFlight(Peer(r), "data", i)' = InFlight(Peer(r), "data", i) /\ InFlight(r, "wu", i)' = InFlight(r, "wu", i)
    BY <1>3, <1>5 DEF Kinds
  <2>3. FlowLife(i) # "cut" /\ FlowLife(i)' # "cut"
    BY <1>7, <1>8
  <2> QED
    BY <2>1, <2>2, <2>3, <1>3, LiveNow, LiveNext DEF Same
<1>10. \A j \in Streams : j # i => FlowLife(j)' = FlowLife(j) /\ \A r \in Sides : Same(r, j)
  BY <1>3, <1>6, StillSame
<1> QED
  BY <1>7, <1>8, <1>9, <1>10, AbstractCreate

(* Before the server's end exists nothing comes back, and nothing of a     *)
(* stream is anywhere before the client opens it.                          *)
LEMMA QuietNow ==
  ASSUME MuxInv, NEW j \in Streams, ep["server"][j].handle = "none"
  PROVE  /\ InFlight("server", "data", j) = 0 /\ InFlight("server", "wu", j) = 0 /\ InFlight("client", "wu", j) = 0
         /\ ep["client"][j].handle = "none" => InFlight("client", "data", j) = 0
<1>1. Unmet(j) /\ LedgerAt(j)
  BY DEF MuxInv, Ledger, LedgerAt
<1> QED
  BY <1>1 DEF Unmet, LedgerAt, Kinds

LEMMA QuietNext ==
  ASSUME MuxInv', NEW j \in Streams, ep'["server"][j].handle = "none"
  PROVE  /\ InFlight("server", "data", j)' = 0 /\ InFlight("server", "wu", j)' = 0 /\ InFlight("client", "wu", j)' = 0
         /\ ep'["client"][j].handle = "none" => InFlight("client", "data", j)' = 0
<1>1. Unmet(j)' /\ LedgerAt(j)'
  BY DEF MuxInv, Ledger, LedgerAt
<1> QED
  BY <1>1 DEF Unmet, LedgerAt, Kinds

(* A connection closes on one side: the streams it has an end of are cut.  *)
LEMMA CloseRefines ==
  ASSUME MuxInv, MuxInv', NEW p \in Sides, CloseConn(p), wire' = wire
  PROVE  Flow!FStep
<1> DEFINE c == "client"
           s == "server"
<1>1. MuxShape /\ MuxShape' /\ c \in Sides /\ s \in Sides /\ Peer(s) = c /\ Peer(c) = s /\ \A r \in Sides : r = c \/ r = s
  BY SideFacts DEF MuxInv
<1>2. \A r \in Sides, j \in Streams :
        /\ ep'[r][j].handle = ep[r][j].handle /\ ep'[r][j].flag = ep[r][j].flag
        /\ ep'[r][j].sw = ep[r][j].sw /\ ep'[r][j].rw = ep[r][j].rw /\ ep'[r][j].buf = ep[r][j].buf
  BY <1>1, CloseFacts
<1>3. conn'[p] = "closed" /\ \A r \in Sides : conn[r] = "closed" => conn'[r] = "closed"
  BY <1>1, CloseFacts
<1>4. \A r \in Sides : r # p => conn'[r] = conn[r]
  BY <1>1, CloseFacts
<1>5. ASSUME NEW j \in Streams
      PROVE  \/ FlowLife(j)' = FlowLife(j) /\ \A r \in Sides : Same(r, j)
             \/ FlowLife(j) = "live" /\ FlowLife(j)' = "cut"
  <2>1. CASE ep[c][j].handle = "none"
    <3>1. ep[s][j].handle = "none" /\ ep'[s][j].handle = "none" /\ ep'[c][j].handle = "none"
      BY <2>1, <1>1, <1>2, ClientFirst
    <3>2. FlowLife(j)' = FlowLife(j)
      BY <3>1, <2>1, <1>1, LifeNow, LifeNext
    <3>3. \A r \in Sides : InFlight(r, "data", j)' = InFlight(r, "data", j) /\ InFlight(r, "wu", j)' = InFlight(r, "wu", j)
      BY <3>1, <2>1, <1>1, QuietNow, QuietNext
    <3> QED
      BY <3>2, <3>3, <1>2, SameNumbers
  <2>2. CASE ep[c][j].handle # "none" /\ ep[p][j].handle # "none"
    <3>1. EndGone(p, j)'
      BY <2>2, <1>2, <1>3 DEF EndGone
    <3>2. Severed(j)'
      BY <3>1, <1>1 DEF Severed
    <3>3. FlowLife(j)' = "cut"
      BY <3>2, <2>2, <1>1, <1>2, LifeNext
    <3>4. FlowLife(j) \in {"live", "cut"}
      BY <2>2, <1>1, FlowIsEither
    <3> QED
      BY <3>3, <3>4, CutStaysSame
  <2>3. CASE ep[c][j].handle # "none" /\ ep[p][j].handle = "none"
    <3>1. p = s /\ ep[s][j].handle = "none" /\ ep'[s][j].handle = "none" /\ ep'[c][j].handle # "none"
      BY <2>3, <1>1, <1>2
    <3>2. chan'[c][j] = chan[c][j] /\ ctrl'[c] = ctrl[c] /\ data'[c] = data[c] /\ conn'[c] = conn[c]
      BY <3>1, <1>1, CloseFacts
    <3>3. UnderWay(j)' = UnderWay(j)
      BY <3>2, <1>1, <1>2 DEF UnderWay, Owed, InChan, InData, InWire
    <3>4. Severed(j)' <=> Severed(j)
      BY <3>1, <3>2, <3>3, <1>1, <1>2 DEF Severed, EndGone
    <3>5. FlowLife(j)' = FlowLife(j)
      BY <3>1, <3>4, <2>3, <1>1, LifeNow, LifeNext
    <3>6. InFlight(c, "data", j)' = InFlight(c, "data", j)
      BY <3>2 DEF InFlight
    <3>7. \A r \in Sides : InFlight(r, "data", j)' = InFlight(r, "data", j) /\ InFlight(r, "wu", j)' = InFlight(r, "wu", j)
      BY <3>1, <3>6, <1>1, QuietNow, QuietNext
    <3> QED
      BY <3>5, <3>7, <1>2, SameNumbers
  <2> QED
    BY <2>1, <2>2, <2>3
<1> QED
  BY <1>5, CutOrStutter

(* The driver lets go of a dropped stream: its flows are cut.              *)
LEMMA ReapRefines ==
  ASSUME MuxInv, MuxInv', NEW p \in Sides, NEW i \in Streams, ReapDropped(p, i)
  PROVE  Flow!FStep
<1>1. MuxShape /\ MuxShape'
  BY DEF MuxInv
<1>2. PICK e \in EndStates : /\ ep' = [ep EXCEPT ![p][i] = e] /\ e.handle = "gone" /\ e.flag = ep[p][i].flag
                             /\ e.sw = ep[p][i].sw /\ e.rw = ep[p][i].rw /\ e.buf = ep[p][i].buf
  BY <1>1, ReapFacts
<1>3. ep'[p][i] = e /\ \A q \in Sides, j \in Streams : q # p \/ j # i => ep'[q][j] = ep[q][j]
  BY <1>1, <1>2, PutEnd
<1>4. ep[p][i].handle = "dropped" /\ conn' = conn
  BY <1>1, ReapFacts
<1>5. \A q \in Sides, j \in Streams, k \in Kinds : InFlight(q, k, j)' = InFlight(q, k, j)
  BY <1>1, ReapFlight
<1>6. \A j \in Streams : UnderWay(j)' = UnderWay(j)
  <2>1. chan' = chan /\ data' = data /\ wire' = wire
    BY <1>1, ReapFacts
  <2>2. \A j \in Streams : ep'["client"][j].flag = ep["client"][j].flag
    BY <1>2, <1>3, SideFacts
  <2> QED
    BY <2>1, <2>2 DEF UnderWay, Owed, InChan, InData, InWire
<1>7. ASSUME NEW j \in Streams, j # i PROVE FlowLife(j)' = FlowLife(j) /\ \A r \in Sides : Same(r, j)
  <2>1. Still(j)
    BY <1>3, <1>4, <1>5, <1>6, <1>7 DEF Still, SameHandle
  <2> QED
    BY <2>1, <1>1, StillSame
<1>8. FlowLife(i)' = "cut"
  <2>1. EndGone(p, i)'
    BY <1>2, <1>3 DEF EndGone
  <2>2. Severed(i)'
    BY <2>1, SideFacts DEF Severed
  <2>3. ep["client"][i].handle # "none"
    BY <1>4, ClientFirst, SideFacts
  <2>4. ep'["client"][i].handle # "none"
    BY <2>3, <1>2, <1>3, SideFacts
  <2> QED
    BY <2>2, <2>4, <1>1, LifeNext
<1>9. FlowLife(i) \in {"live", "cut"}
  BY <1>4, FlowIsEither
<1>10. ASSUME NEW j \in Streams
      PROVE  \/ FlowLife(j)' = FlowLife(j) /\ \A r \in Sides : Same(r, j)
             \/ FlowLife(j) = "live" /\ FlowLife(j)' = "cut"
  BY <1>7, <1>8, <1>9, CutStaysSame
<1> QED
  BY <1>10, CutOrStutter

-----------------------------------------------------------------------------
(* A frame is read: what it does not carry for a stream does not show.     *)
LEMMA ArrivesStill ==
  ASSUME MuxShape, NEW p \in Sides, NEW f, Arrives(p, f), NEW j \in Streams,
         \A r \in Sides : ep'[r][j] = ep[r][j], Syn(f, j) = 0, \A k \in Kinds : Part(f, k, j) = 0
  PROVE  Still(j)
<1>1. conn' = conn
  BY DEF Arrives
<1>2. UnderWay(j)' = UnderWay(j)
  <2>1. Owed(j)' = Owed(j)
    BY SideFacts DEF Owed
  <2>2. UnderWay(j) = UnderWay(j)' + 0 /\ UnderWay(j)' \in Nat
    BY <2>1, ArrivesWay
  <2> QED
    BY <2>2
<1>3. ASSUME NEW r \in Sides, NEW k \in Kinds PROVE InFlight(r, k, j)' = InFlight(r, k, j)
  <2>1. r = p \/ r = Peer(p)
    BY SideFacts
  <2>2. InFlight(p, k, j)' = InFlight(p, k, j) /\ InFlight(Peer(p), k, j) = InFlight(Peer(p), k, j)' + 0
        /\ InFlight(Peer(p), k, j)' \in Nat
    BY ArrivesFlight
  <2> QED
    BY <2>1, <2>2
<1> QED
  BY <1>1, <1>2, <1>3 DEF Still, SameHandle

LEMMA ArrivesElsewhere ==
  ASSUME MuxShape, NEW p \in Sides, NEW f, Arrives(p, f),
         \A r \in Sides, j \in Streams : r # p \/ j # f.id => ep'[r][j] = ep[r][j]
  PROVE  \A j \in Streams : j # f.id => Still(j)
<1> SUFFICES ASSUME NEW j \in Streams, j # f.id PROVE Still(j)
  OBVIOUS
<1>1. f \in Frames
  BY ArrivesFacts
<1>2. Syn(f, j) = 0 /\ \A k : Part(f, k, j) = 0
  BY <1>1, OtherStream
<1>3. \A r \in Sides : ep'[r][j] = ep[r][j]
  OBVIOUS
<1> QED
  BY <1>2, <1>3, ArrivesStill

(* A frame lands on a stream in the map: payload arrives, or credit.       *)
LEMMA LandsRefines ==
  ASSUME MuxInv, MuxInv', NEW p \in Sides, NEW f, NEW e, Lands(p, f, e)
  PROVE  Flow!FStep
<1> DEFINE i == f.id
           q == Peer(p)
           a == Part(f, "data", i)
           b == Part(f, "wu", i)
           d == ep[p][i]
<1>1. MuxShape /\ MuxShape'
  BY DEF MuxInv
<1>2. q \in Sides /\ q # p /\ Peer(q) = p /\ \A r \in Sides : r = p \/ r = q
  BY SideFacts
<1>3. Arrives(p, f) /\ i \in known[p] /\ e \in EndStates /\ ep' = [ep EXCEPT ![p][i] = e]
      /\ e.handle = d.handle /\ e.flag = d.flag
      /\ d.rw = e.rw + a /\ e.buf = d.buf + a /\ e.sw = d.sw + b /\ conn' = conn
  BY DEF Lands, Arrives
<1>4. i \in Streams
  BY <1>1, <1>3, ArrivesFacts
<1>5. Syn(f, i) = 0
  <2>1. "SYN" \notin f.fl
    BY <1>3, SynArrives
  <2> QED
    BY <2>1 DEF Syn
<1>6. a > 0 => b = 0
  BY DEF Part
<1>7. ep'[p][i] = e /\ \A r \in Sides, j \in Streams : r # p \/ j # i => ep'[r][j] = ep[r][j]
  <2> HIDE DEF i
  <2> QED
    BY <1>1, <1>3, <1>4 DEF MuxShape
<1>8. \A j \in Streams : j # i => Still(j)
  BY <1>1, <1>3, <1>7, ArrivesElsewhere
<1> HIDE DEF i, a, b, d
<1>9. d.handle \in {"held", "dropped"}
  BY <1>3, <1>4 DEF MuxInv, Members, MemberAt, Present, d
<1>10. FlowLife(i)' = FlowLife(i)
  <2>1. \A r \in Sides : ep'[r][i].handle = ep[r][i].handle /\ ep'[r][i].flag = ep[r][i].flag
    BY <1>2, <1>3, <1>4, <1>7 DEF d
  <2>2. Owed(i)' = Owed(i)
    BY <2>1, SideFacts DEF Owed
  <2>3. UnderWay(i) = UnderWay(i)' + 0 /\ UnderWay(i)' \in Nat
    BY <2>2, <1>1, <1>3, <1>4, <1>5, ArrivesWay
  <2>4. UnderWay(i)' = UnderWay(i)
    BY <2>3
  <2> QED
    BY <2>1, <2>4, <1>1, <1>3, <1>4, SameLife DEF SameHandle
<1>11. LivesStay /\ \A j \in Streams, r \in Sides : j # i => Same(r, j)
  BY <1>1, <1>4, <1>8, <1>10, OneShows
<1>12. CASE FlowLife(i) = "cut"
  <2>1. \A r \in Sides : Same(r, i)
    BY <1>4, <1>10, <1>12, CutStaysSame
  <2>2. \A r \in Sides, j \in Streams : Same(r, j)
    BY <2>1, <1>11
  <2> QED
    BY <2>2, <1>11, AbstractStutter
<1>13. CASE FlowLife(i) # "cut"
  <2>1. FlowLife(i) = "live"
    BY <1>4, <1>9, <1>13, FlowIsEither DEF d
  <2>2. {d.sw, d.rw, d.buf} \subseteq Nat /\ {e.sw, e.rw, e.buf} \subseteq Nat
    BY <1>1, <1>3, <1>4, EndFacts DEF EndStates, d
  <2>3. /\ InFlight(p, "data", i)' = InFlight(p, "data", i) /\ InFlight(p, "wu", i)' = InFlight(p, "wu", i)
        /\ InFlight(q, "data", i) = InFlight(q, "data", i)' + a /\ InFlight(q, "wu", i) = InFlight(q, "wu", i)' + b
        /\ InFlight(q, "data", i)' \in Nat /\ InFlight(q, "wu", i)' \in Nat /\ a \in Nat /\ b \in Nat
    BY <1>1, <1>3, <1>4, ArrivesFlight DEF Kinds, a, b
  <2>4. End(p, i) = d /\ End(p, i)' = e /\ End(q, i)' = End(q, i)
    BY <1>2, <1>3, <1>4, <1>7, <1>9 DEF End, d
  <2>5. /\ SwOf(q, i) = d.sw /\ SwOf(q, i)' = e.sw /\ RwOf(p, i) = d.rw /\ RwOf(p, i)' = e.rw
        /\ BufOf(p, i) = d.buf /\ BufOf(p, i)' = e.buf
        /\ FlightOf(p, i) = InFlight(q, "data", i) /\ FlightOf(p, i)' = InFlight(q, "data", i)'
        /\ BackOf(q, i) = InFlight(q, "wu", i) /\ BackOf(q, i)' = InFlight(q, "wu", i)'
    BY <2>4, <1>2, <1>4, <1>10, <1>13, LiveNow, LiveNext
  <2>6. /\ SwOf(p, i)' = SwOf(p, i) /\ RwOf(q, i)' = RwOf(q, i) /\ BufOf(q, i)' = BufOf(q, i)
        /\ FlightOf(q, i)' = FlightOf(q, i) /\ BackOf(p, i)' = BackOf(p, i)
    BY <2>3, <2>4, <1>2, <1>4, <1>10, <1>13, LiveNow, LiveNext
  <2> DEFINE m == InFlight(q, "data", i)'
             n == InFlight(q, "wu", i)'
  <2>7. m \in Nat /\ n \in Nat /\ FlightOf(p, i)' = m /\ FlightOf(p, i) = m + a /\ BackOf(q, i)' = n /\ BackOf(q, i) = n + b
    BY <2>3, <2>5
  <2> HIDE DEF q, m, n
  <2>8. CASE a > 0
    <3>1. b = 0
      BY <2>8, <1>6 DEF a, b
    <3>2. Same(q, i)
      BY <3>1, <2>2, <2>5, <2>6, <2>7, <1>3 DEF Same
    <3>3. /\ RwOf(p, i)' = RwOf(p, i) - a /\ BufOf(p, i)' = BufOf(p, i) + a /\ FlightOf(p, i)' = FlightOf(p, i) - a
          /\ RwOf(p, i) \in Nat /\ FlightOf(p, i) \in Nat /\ a <= RwOf(p, i) /\ a <= FlightOf(p, i)
      BY <2>2, <2>3, <2>5, <2>7, <1>3
    <3>4. Moves(p, i, SwOf(p, i), RwOf(p, i) - a, BufOf(p, i) + a, FlightOf(p, i) - a, BackOf(p, i))
      BY <3>2, <3>3, <2>6, <1>2, <1>4, <1>11, OneMoves DEF Moves
    <3> QED
      BY <3>3, <3>4, <2>1, <2>3, <2>8, <1>4, AbstractArrive
  <2>9. CASE a = 0
    <3>1. Same(p, i)
      BY <2>2, <2>5, <2>6, <2>7, <2>9, <1>3 DEF Same
    <3>2. CASE b > 0
      <4>1. SwOf(q, i)' = SwOf(q, i) + b /\ BackOf(q, i)' = BackOf(q, i) - b /\ BackOf(q, i) \in Nat /\ b <= BackOf(q, i)
        <5>1. SwOf(q, i)' = SwOf(q, i) + b
          BY <2>5, <1>3
        <5>2. BackOf(q, i)' = BackOf(q, i) - b /\ BackOf(q, i) \in Nat /\ b <= BackOf(q, i)
          BY <2>3, <2>7
        <5> QED
          BY <5>1, <5>2
      <4>2. Moves(q, i, SwOf(q, i) + b, RwOf(q, i), BufOf(q, i), FlightOf(q, i), BackOf(q, i) - b)
        BY <3>1, <4>1, <2>6, <1>2, <1>4, <1>11, OneMoves DEF Moves
      <4> QED
        BY <4>1, <4>2, <3>2, <2>1, <2>3, <1>2, <1>4, AbstractRegain
    <3>3. CASE b = 0
      <4>1. Same(q, i)
        BY <3>3, <2>2, <2>5, <2>6, <2>7, <1>3 DEF Same
      <4>2. \A r \in Sides, j \in Streams : Same(r, j)
        BY <3>1, <4>1, <1>2, <1>11
      <4> QED
        BY <4>2, <1>11, AbstractStutter
    <3> QED
      BY <3>2, <3>3, <2>3
  <2> QED
    BY <2>8, <2>9, <2>3
<1> QED
  BY <1>12, <1>13

(* A frame finds no stream: it was cut, or the announcement is refused.    *)
LEMMA IgnoredRefines ==
  ASSUME MuxInv, MuxInv', NEW p \in Sides, NEW f, Ignored(p, f), conn[p] = "active"
  PROVE  Flow!FStep
<1> DEFINE i == f.id
           c == "client"
           s == "server"
<1>1. MuxShape /\ MuxShape' /\ c \in Sides /\ s \in Sides /\ (\A r \in Sides : r = c \/ r = s) /\ Peer(s) = c /\ Peer(c) = s
  BY SideFacts DEF MuxInv
<1>2. Arrives(p, f) /\ i \notin known[p] /\ ep' = ep /\ conn' = conn
  BY DEF Ignored, Arrives
<1>3. i \in Streams
  BY <1>1, <1>2, ArrivesFacts
<1>4. \A j \in Streams : j # i => Still(j)
  BY <1>1, <1>2, ArrivesElsewhere
<1> HIDE DEF i
<1>5. ep[p][i].handle \in {"none", "gone"}
  <2>1. ep[p][i].handle \in {"none", "held", "dropped", "gone"}
    BY <1>1, <1>3, EndFacts
  <2>2. MemberAt(p, i)
    BY <1>3 DEF MuxInv, Members
  <2> QED
    BY <2>1, <2>2, <1>2 DEF MemberAt, Present
<1>6. \/ FlowLife(i)' = FlowLife(i) /\ \A r \in Sides : Same(r, i)
      \/ FlowLife(i) = "live" /\ FlowLife(i)' = "cut"
  <2>1. CASE ep[p][i].handle = "gone"
    <3>1. Severed(i) /\ Severed(i)'
      BY <2>1, <1>1, <1>2 DEF Severed, EndGone
    <3>2. ep[c][i].handle # "none"
      BY <2>1, <1>1, <1>3, ClientFirst
    <3>3. FlowLife(i) = "cut" /\ FlowLife(i)' = "cut"
      BY <3>1, <3>2, <1>1, <1>2, <1>3, LifeNow, LifeNext
    <3> QED
      BY <3>3, <1>3, CutStaysSame
  <2>2. CASE ep[c][i].handle = "none"
    <3>1. ep[s][i].handle = "none" /\ ep'[s][i].handle = "none" /\ ep'[c][i].handle = "none"
      BY <2>2, <1>2, <1>3, ClientFirst
    <3>2. FlowLife(i)' = FlowLife(i)
      BY <3>1, <2>2, <1>1, <1>3, LifeNow, LifeNext
    <3>3. \A r \in Sides : InFlight(r, "data", i)' = InFlight(r, "data", i) /\ InFlight(r, "wu", i)' = InFlight(r, "wu", i)
      BY <3>1, <2>2, <1>1, <1>3, QuietNow, QuietNext
    <3> QED
      BY <3>2, <3>3, <1>2, <1>3, SameNumbers
  <2>3. CASE ep[c][i].handle # "none" /\ ep[p][i].handle = "none"
    <3>1. p = s /\ ep[s][i].handle = "none"
      BY <2>3, <1>1
    <3>2. UnderWay(i) = UnderWay(i)' + Syn(f, i) /\ UnderWay(i)' \in Nat /\ Syn(f, i) \in Nat
      <4>1. Owed(i)' = Owed(i)
        BY <1>2 DEF Owed
      <4> QED
        BY <4>1, <1>1, <1>2, <1>3, ArrivesWay
    <3>3. CASE UnderWay(i)' = 0
      <4>1. Severed(i)'
        BY <3>1, <3>3, <1>2 DEF Severed
      <4>2. FlowLife(i)' = "cut"
        BY <4>1, <2>3, <1>1, <1>2, <1>3, LifeNext
      <4>3. FlowLife(i) \in {"live", "cut"}
        BY <2>3, <1>1, <1>3, FlowIsEither
      <4> QED
        BY <4>2, <4>3, <1>3, CutStaysSame
    <3>4. CASE UnderWay(i)' # 0
      <4>1. UnderWay(i) + Met(i) <= 1 /\ Met(i) \in Nat
        BY <1>1, <1>3, SynNat DEF MuxInv, SynOnce, Announced
      <4>2. Syn(f, i) = 0 /\ UnderWay(i) = 1
        BY <4>1, <3>2, <3>4
      <4>3. Part(f, "data", i) = 0
        BY <4>2, <3>1, <1>2, <1>3, NothingAhead
      <4>4. Part(f, "wu", i) = 0
        <5>1. InFlight(c, "wu", i) = 0
          BY <3>1, <1>3, QuietNow
        <5>2. InFlight(c, "wu", i) = InFlight(c, "wu", i)' + Part(f, "wu", i) /\ InFlight(c, "wu", i)' \in Nat /\ Part(f, "wu", i) \in Nat
          BY <3>1, <1>1, <1>2, <1>3, ArrivesFlight DEF Kinds
        <5> QED
          BY <5>1, <5>2
      <4>5. \A k \in Kinds : Part(f, k, i) = 0
        BY <4>3, <4>4 DEF Kinds
      <4>6. Still(i)
        BY <4>2, <4>5, <1>1, <1>2, <1>3, ArrivesStill
      <4> QED
        BY <4>6, <1>1, <1>3, StillSame
    <3> QED
      BY <3>3, <3>4
  <2> QED
    BY <2>1, <2>2, <2>3, <1>5
<1>7. ASSUME NEW j \in Streams
      PROVE  \/ FlowLife(j)' = FlowLife(j) /\ \A r \in Sides : Same(r, j)
             \/ FlowLife(j) = "live" /\ FlowLife(j)' = "cut"
  BY <1>1, <1>4, <1>6, StillSame
<1> QED
  BY <1>7, CutOrStutter

(* The announcement is accepted: the end it makes is the one the flows     *)
(* had from the start.                                                     *)
LEMMA AcceptRefines ==
  ASSUME MuxInv, MuxInv', NEW p \in Sides, NEW f, NEW e, Accepted(p, f, e)
  PROVE  Flow!FStep
<1> DEFINE i == f.id
           c == "client"
           s == "server"
<1>1. MuxShape /\ MuxShape' /\ c \in Sides /\ s \in Sides /\ c # s /\ (\A r \in Sides : r = c \/ r = s) /\ Peer(s) = c /\ Peer(c) = s
  BY SideFacts DEF MuxInv
<1>2. /\ Arrives(p, f) /\ ep' = [ep EXCEPT ![p][i] = e] /\ conn[p] = "active" /\ conn' = conn
      /\ e.handle = "held" /\ e.sw = Credit /\ e.rw = Credit /\ e.buf = 0
  BY DEF Accepted, Arrives
<1>3. /\ p = s /\ i \in Streams /\ f.n = 0 /\ UnderWay(i) = 1 /\ ep[s][i].handle = "none" /\ ep[c][i].handle # "none"
  BY SynArrives DEF Accepted
<1>4. ep'[p][i] = e /\ \A r \in Sides, j \in Streams : r # p \/ j # i => ep'[r][j] = ep[r][j]
  <2>1. MuxShape /\ i \in Streams /\ ep' = [ep EXCEPT ![p][i] = e]
    BY <1>1, <1>2, <1>3
  <2> HIDE DEF i
  <2> QED
    BY <2>1 DEF MuxShape
<1>5. \A j \in Streams : j # i => Still(j)
  BY <1>1, <1>2, <1>4, ArrivesElsewhere
<1>6. Part(f, "data", i) = 0 /\ Part(f, "wu", i) = 0
  BY <1>3 DEF Part
<1> HIDE DEF i
<1>7. ep'[s][i] = e /\ ep'[c][i] = ep[c][i]
  BY <1>1, <1>3, <1>4
<1>8. FlowLife(i)' = FlowLife(i)
  <2>1. Severed(i)' <=> Severed(i)
    BY <1>2, <1>3, <1>7 DEF Severed, EndGone
  <2> QED
    BY <2>1, <1>1, <1>3, <1>7, LifeNow, LifeNext
<1>9. \A r \in Sides : InFlight(r, "data", i)' = InFlight(r, "data", i) /\ InFlight(r, "wu", i)' = InFlight(r, "wu", i)
  <2>1. ASSUME NEW k \in Kinds PROVE InFlight(s, k, i)' = InFlight(s, k, i) /\ InFlight(c, k, i)' = InFlight(c, k, i)
    <3>1. /\ InFlight(s, k, i)' = InFlight(s, k, i) /\ InFlight(c, k, i) = InFlight(c, k, i)' + Part(f, k, i)
          /\ InFlight(c, k, i)' \in Nat
      BY <1>1, <1>2, <1>3, ArrivesFlight
    <3>2. Part(f, k, i) = 0
      BY <1>6 DEF Kinds
    <3>3. InFlight(c, k, i) = InFlight(c, k, i)' + 0
      BY <3>1, <3>2
    <3> QED
      BY <3>1, <3>3
  <2> QED
    BY <2>1, <1>1 DEF Kinds
<1>10. \A r \in Sides : End(r, i)'.sw = End(r, i).sw /\ End(r, i)'.rw = End(r, i).rw /\ End(r, i)'.buf = End(r, i).buf
  <2>1. End(s, i) = NewEnd({}) /\ End(s, i)' = e /\ End(c, i)' = End(c, i)
    BY <1>2, <1>3, <1>7 DEF End
  <2>2. NewEnd({}).sw = Credit /\ NewEnd({}).rw = Credit /\ NewEnd({}).buf = 0
    BY NewEndIs
  <2>3. End(s, i)'.sw = End(s, i).sw /\ End(s, i)'.rw = End(s, i).rw /\ End(s, i)'.buf = End(s, i).buf
    BY <2>1, <2>2, <1>2
  <2>4. End(c, i)'.sw = End(c, i).sw /\ End(c, i)'.rw = End(c, i).rw /\ End(c, i)'.buf = End(c, i).buf
    BY <2>1
  <2> QED
    BY <2>3, <2>4, <1>1
<1>11. \A r \in Sides : Same(r, i)
  BY <1>1, <1>8, <1>9, <1>10 DEF Same, SwOf, RwOf, BufOf, FlightOf, BackOf, UnlessCut
<1>12. LivesStay /\ \A j \in Streams, r \in Sides : j # i => Same(r, j)
  BY <1>1, <1>3, <1>5, <1>8, OneShows
<1>13. \A r \in Sides, j \in Streams : Same(r, j)
  BY <1>11, <1>12
<1> QED
  BY <1>12, <1>13, AbstractStutter

LEMMA ReceiveRefines ==
  ASSUME MuxInv, MuxInv', NEW p \in Sides, ReceiveFrame(p)
  PROVE  Flow!FStep
<1> DEFINE f == Head(wire[Peer(p)])
<1>1. wire[Peer(p)] \in Seq(Sendable(Peer(p))) /\ wire[Peer(p)] # <<>> /\ conn[p] = "active"
  BY SideFacts, ShapeQueues DEF MuxInv, ReceiveFrame
<1>2. f.k # "goaway"
  <2>1. f \in Sendable(Peer(p))
    BY <1>1
  <2> QED
    BY <2>1 DEF Sendable
<1>3. /\ \/ OnReset(p, f) \/ OnSyn(p, f) \/ OnData(p, f) \/ OnWindowUpdate(p, f) \/ OnUnknown(p, f)
      /\ conn' = conn /\ chan' = chan /\ ctrl' = ctrl /\ data' = data
      /\ wire' = [wire EXCEPT ![Peer(p)] = Tail(wire[Peer(p)])]
  BY <1>2 DEF ReceiveFrame
<1>4. Arrives(p, f)
  BY <1>1, <1>3 DEF Arrives
<1> HIDE DEF f
<1>5. (\E e : Lands(p, f, e)) \/ Ignored(p, f) \/ \E e : Accepted(p, f, e)
  BY <1>1, <1>3, <1>4, ResetLands, DataLands, UpdateLands, UnknownIgnored, SynIsSettled
<1> QED
  BY <1>1, <1>5, LandsRefines, IgnoredRefines, AcceptRefines

LEMMA UserRefines ==
  ASSUME MuxInv, MuxInv', NEW p \in Sides, User(p)
  PROVE  Flow!FStep
<1>1. PICK i \in Streams : \/ Write(p, i) \/ PollRead(p, i) \/ PollReadDry(p, i) \/ PollReadSettle(p, i)
                           \/ Shutdown(p, i) \/ DropStream(p, i)
  BY DEF User
<1>2. \E e : Turn(p, i, e)
  BY <1>1, WriteTurns, ReadTurns, SettleTurns, ShutdownTurns
<1> QED
  BY <1>2, TurnRefines

(* Every flow begins before its stream, with the first credit on both ends.*)
LEMMA FlowStarts == Init => Flow!FInit
<1> SUFFICES ASSUME Init PROVE Flow!FInit
  OBVIOUS
<1>1. ASSUME NEW r \in Sides, NEW i \in Streams
      PROVE  /\ FlowLife(i) = "none" /\ SwOf(r, i) = Credit /\ RwOf(r, i) = Credit /\ BufOf(r, i) = 0
             /\ FlightOf(r, i) = 0 /\ BackOf(r, i) = 0
  <2>1. Peer(r) \in Sides /\ "client" \in Sides
    BY SideFacts
  <2>2. \A p \in Sides : ep[p][i].handle = "none"
    BY DEF Init, NoEnd
  <2>3. FlowLife(i) = "none"
    BY <2>1, <2>2 DEF FlowLife
  <2>4. \A p \in Sides : End(p, i) = NewEnd({})
    BY <2>2 DEF End
  <2>5. NewEnd({}).sw = Credit /\ NewEnd({}).rw = Credit /\ NewEnd({}).buf = 0
    BY NewEndIs
  <2>6. \A p \in Sides, k \in Kinds : InFlight(p, k, i) = 0
    BY SumEmpty DEF Init, InFlight
  <2>7. InFlight(Peer(r), "data", i) = 0 /\ InFlight(r, "wu", i) = 0
    BY <2>1, <2>6 DEF Kinds
  <2>8. FlowLife(i) # "cut"
    BY <2>3
  <2> QED
    BY <2>1, <2>3, <2>4, <2>5, <2>7, <2>8, LiveNow
<1>2. ASSUME NEW u, NEW x, OfFlows(u), \A r \in Sides, i \in Streams : u[<<r, i>>] = x
      PROVE  u = [f \in Flow!Flows |-> x]
  <2> DEFINE w == [f \in flows |-> x]
  <2>1. OfFlows(w) /\ \A r \in Sides, i \in Streams : w[<<r, i>>] = x
    BY DEF OfFlows, flows
  <2> HIDE DEF w
  <2>2. u = w
    BY <2>1, <1>2, FlowsAgree
  <2> QED
    BY <2>2 DEF w, flows, Flow!Flows
<1>3. flowLife = [f \in Flow!Flows |-> "none"]
  <2>1. OfFlows(flowLife)
    BY ViewFunctions
  <2>2. \A r \in Sides, i \in Streams : flowLife[<<r, i>>] = "none"
    BY <1>1, ViewNow
  <2> QED
    BY <2>1, <2>2, <1>2
<1>4. flowSw = [f \in Flow!Flows |-> Credit]
  <2>1. OfFlows(flowSw)
    BY ViewFunctions
  <2>2. \A r \in Sides, i \in Streams : flowSw[<<r, i>>] = Credit
    BY <1>1, ViewNow
  <2> QED
    BY <2>1, <2>2, <1>2
<1>5. flowRw = [f \in Flow!Flows |-> Credit]
  <2>1. OfFlows(flowRw)
    BY ViewFunctions
  <2>2. \A r \in Sides, i \in Streams : flowRw[<<r, i>>] = Credit
    BY <1>1, ViewNow
  <2> QED
    BY <2>1, <2>2, <1>2
<1>6. flowBuf = [f \in Flow!Flows |-> 0]
  <2>1. OfFlows(flowBuf)
    BY ViewFunctions
  <2>2. \A r \in Sides, i \in Streams : flowBuf[<<r, i>>] = 0
    BY <1>1, ViewNow
  <2> QED
    BY <2>1, <2>2, <1>2
<1>7. flowFlight = [f \in Flow!Flows |-> 0]
  <2>1. OfFlows(flowFlight)
    BY ViewFunctions
  <2>2. \A r \in Sides, i \in Streams : flowFlight[<<r, i>>] = 0
    BY <1>1, ViewNow
  <2> QED
    BY <2>1, <2>2, <1>2
<1>8. flowBack = [f \in Flow!Flows |-> 0]
  <2>1. OfFlows(flowBack)
    BY ViewFunctions
  <2>2. \A r \in Sides, i \in Streams : flowBack[<<r, i>>] = 0
    BY <1>1, ViewNow
  <2> QED
    BY <2>1, <2>2, <1>2
<1>9. Flow!Flows = flows
  BY DEF flows, Flow!Flows
<1> QED
  BY <1>3, <1>4, <1>5, <1>6, <1>7, <1>8, <1>9 DEF Flow!FInit

LEMMA FlowSteps == MuxInv /\ MuxInv' /\ [Next]_vars => Flow!FStep
<1> SUFFICES ASSUME MuxInv, MuxInv', [Next]_vars PROVE Flow!FStep
  OBVIOUS
<1>1. ASSUME NEW i \in Streams, OpenStream(i) PROVE Flow!FStep
  BY <1>1, OpenRefines
<1>2. ASSUME NEW i \in Streams, SynAnnounce(i) PROVE Flow!FStep
  BY <1>2, SideFacts, AnnounceTurns, TurnRefines
<1>3. CASE OpenAtCap
  BY <1>3, SideFacts, CloseRefines DEF OpenAtCap
<1>4. ASSUME NEW p \in Sides, User(p) PROVE Flow!FStep
  BY <1>4, UserRefines
<1>5. ASSUME NEW p \in Sides, DriverEnd(p) PROVE Flow!FStep
  BY <1>5, CloseRefines DEF DriverEnd
<1>6. ASSUME NEW p \in Sides, Driver(p) PROVE Flow!FStep
  <2>1. CASE Transmit(p)
    BY <2>1, TransmitRefines
  <2>2. CASE ReceiveFrame(p)
    BY <2>2, ReceiveRefines
  <2>3. CASE ReceiveEof(p)
    BY <2>3, CloseRefines DEF ReceiveEof
  <2>4. ASSUME NEW i \in Streams, TakeCommand(p, i) \/ ReapDropped(p, i) PROVE Flow!FStep
    BY <2>4, TakeRefines, ReapRefines
  <2> QED
    BY <2>1, <2>2, <2>3, <2>4, <1>6 DEF Driver
<1>7. CASE UNCHANGED vars
  <2>1. UNCHANGED <<conn, known, ep, chan, ctrl, data, reply, wire>>
    BY <1>7 DEF vars
  <2>2. \A j \in Streams : Still(j)
    BY <2>1 DEF Still, SameHandle, UnderWay, Owed, InChan, InData, InWire, InFlight
  <2> QED
    BY <2>2, StillStutters DEF MuxInv
<1> QED
  BY <1>1, <1>2, <1>3, <1>4, <1>5, <1>6, <1>7 DEF Next

(* The connection implements the abstract window exchange of               *)
(* MuxFlowControl: channels, priority queue, payload queue, socket and     *)
(* handlers, in every interleaving, with streams dropped, refused and cut, *)
(* only ever spend, carry, deliver and give back the credit of a flow.     *)
THEOREM WindowsAreImplemented == Spec => ImplementsFlowControl /\ Flow!FSpec
<1>1. Init => Flow!FInit
  BY FlowStarts
<1>2. MuxInv /\ MuxInv' /\ [Next]_vars => Flow!FStep
  BY FlowSteps
<1>3. Spec => []MuxInv
  BY MuxAlways
<1>4. Flow!FStep => [UNCHANGED vars \/ Flow!FStep]_vars
  OBVIOUS
<1>5. Flow!FStep => [Flow!FNext]_(Flow!fvars)
  BY DEF Flow!FStep
<1> QED
  BY <1>1, <1>2, <1>3, <1>4, <1>5, PTL DEF Spec, ImplementsFlowControl, Flow!FSpec

-----------------------------------------------------------------------------
(***************************************************************************)
(* The KCP listener.                                                       *)
(***************************************************************************)

Datagrams == [key : Keys, ctrl : BOOLEAN]
Sessions == [key : Keys, first : BOOLEAN, pump : {"live", "ended", "exited"},
             queued : 0..QueueCap, stream : {"handed", "queued", "held", "dropped"}]

(* The state's shape, what waits in the queues included.                   *)
Shape ==
  /\ ListenerTypeOK
  /\ ses \in [Slots -> Sessions]
  /\ socket \in Seq(Datagrams) /\ batch \in Seq(Datagrams)
  /\ accepts \in Seq(Slots) /\ gone \in Seq(Keys) /\ seen \subseteq Keys
  /\ doing \in {"send", "accept"} => at \in Slots

(* Whoever has a pump, and whoever was announced as gone, was seen.        *)
SeenBefore ==
  /\ \A s \in Slots : ses[s].pump # "exited" => ses[s].key \in seen
  /\ \A i \in 1..Len(gone) : gone[i] \in seen

(* A first session whose pump lives is what the map names for its client,  *)
(* and the only session of that client: none other has a pump, and none    *)
(* has been announced as gone.                                             *)
Leads(s) == ses[s].first /\ ses[s].pump = "live"
Alone(s) ==
  /\ map[ses[s].key] = s
  /\ \A i \in 1..Len(gone) : gone[i] # ses[s].key
  /\ \A t \in Slots : t # s /\ ses[t].key = ses[s].key => ses[t].pump = "exited"
FirstAlone == doing # "stopped" => \A s \in Slots : Leads(s) => Alone(s)

ListenerInv == Shape /\ SeenBefore /\ FirstAlone /\ SessionsBounded

Leaders == {s \in Slots : ses[s].pump = "live" /\ ses[s].first}

-----------------------------------------------------------------------------
(* What a step that opens no session does to the sessions: their pumps     *)
(* only get older, and who they belong to stays.                           *)
Ages ==
  \A t \in Slots : ses'[t].pump # "exited" =>
    /\ ses[t].pump # "exited" /\ (ses'[t].pump = "live" => ses[t].pump = "live")
    /\ ses'[t].key = ses[t].key /\ ses'[t].first = ses[t].first

(* What it does to the channel of announcements: only ended pumps join it. *)
Announces ==
  \A i \in 1..Len(gone') :
    \/ \E j \in 1..Len(gone) : gone'[i] = gone[j]
    \/ \E t \in Slots : ses[t].pump = "ended" /\ gone'[i] = ses[t].key

(* What it does to the map: a leader's entry stays.                        *)
RoutesStay ==
  doing' # "stopped" =>
    /\ doing # "stopped"
    /\ \A s \in Slots : Leads(s) /\ Alone(s) => map'[ses[s].key] = map[ses[s].key]

(* Facts about queues.                                                     *)
LEMMA AppendFacts ==
  ASSUME NEW S, NEW q \in Seq(S), NEW x \in S
  PROVE  /\ Append(q, x) \in Seq(S) /\ Len(Append(q, x)) = Len(q) + 1
         /\ \A j \in 1..Len(q) : Append(q, x)[j] = q[j]
         /\ Append(q, x)[Len(q) + 1] = x
  OBVIOUS

LEMMA TailFacts ==
  ASSUME NEW S, NEW q \in Seq(S), q # <<>>
  PROVE  /\ Head(q) \in S /\ Head(q) = q[1] /\ 1 \in 1..Len(q)
         /\ Tail(q) \in Seq(S) /\ Len(Tail(q)) = Len(q) - 1
         /\ \A j \in 1..Len(Tail(q)) : Tail(q)[j] = q[j + 1] /\ j + 1 \in 1..Len(q)
  OBVIOUS

LEMMA UnusedIsSession == Unused \in Sessions
<1>1. (CHOOSE k \in Keys : TRUE) \in Keys
  BY ListenerConstants
<1>2. 0 \in 0..QueueCap
  BY ListenerConstants
<1>3. QED
  BY <1>1, <1>2 DEF Unused, Sessions

(* Tidy keeps the shape of the sessions and changes no pump that runs.     *)
LEMMA TidyFacts ==
  ASSUME NEW f \in [Slots -> Sessions]
  PROVE  /\ Tidy(f) \in [Slots -> Sessions]
         /\ \A t \in Slots : Tidy(f)[t].pump = f[t].pump
         /\ \A t \in Slots : f[t].pump # "exited" => Tidy(f)[t] = f[t]
<1>1. Unused \in Sessions /\ Unused.pump = "exited"
  BY UnusedIsSession DEF Unused
<1>2. \A t \in Slots : f[t] \in Sessions
  OBVIOUS
<1>3. Tidy(f) \in [Slots -> Sessions]
  BY <1>1, <1>2 DEF Tidy
<1>4. \A t \in Slots : Tidy(f)[t].pump = f[t].pump
  BY <1>1 DEF Tidy
<1>5. QED
  BY <1>3, <1>4 DEF Tidy

(* Fewer sessions lead: the cap still holds.                               *)
LEMMA FewerLeaders ==
  ASSUME SessionsBounded, Leaders' \subseteq Leaders
  PROVE  SessionsBounded'
<1>1. IsFiniteSet(Leaders)
  BY ListenerConstants, FS_Subset DEF Leaders
<1>2. Cardinality(Leaders') <= Cardinality(Leaders) /\ IsFiniteSet(Leaders')
  BY <1>1, FS_Subset
<1>3. Cardinality(Leaders') \in Nat /\ Cardinality(Leaders) \in Nat /\ SessionCap \in Nat
  BY <1>1, <1>2, FS_CardinalityType, ListenerConstants
<1>4. Cardinality(Leaders) <= SessionCap
  BY DEF SessionsBounded, Leaders
<1>5. Cardinality(Leaders') <= SessionCap
  BY <1>2, <1>3, <1>4
<1>6. QED
  BY <1>5 DEF SessionsBounded, Leaders

(* The three facts together keep the invariant.                            *)
LEMMA AgingKeeps ==
  ASSUME ListenerInv, Shape', Ages, Announces, RoutesStay, seen' = seen
  PROVE  ListenerInv'
<1> USE DEF ListenerInv
<1>1. SeenBefore'
  <2>1. \A s \in Slots : ses'[s].pump # "exited" => ses'[s].key \in seen'
    BY DEF Ages, SeenBefore
  <2>2. \A i \in 1..Len(gone') : gone'[i] \in seen'
    BY DEF Announces, SeenBefore
  <2>3. QED
    BY <2>1, <2>2 DEF SeenBefore
<1>2. FirstAlone'
  <2>1. SUFFICES ASSUME doing' # "stopped", NEW s \in Slots, Leads(s)' PROVE Alone(s)'
    BY DEF FirstAlone
  <2>2. Leads(s) /\ ses'[s].key = ses[s].key
    BY <2>1 DEF Ages, Leads
  <2>3. Alone(s)
    BY <2>1, <2>2 DEF FirstAlone, RoutesStay
  <2>4. map'[ses'[s].key] = s
    BY <2>1, <2>2, <2>3 DEF RoutesStay, Alone
  <2>5. \A i \in 1..Len(gone') : gone'[i] # ses'[s].key
    BY <2>2, <2>3 DEF Announces, Alone, Leads
  <2>6. \A t \in Slots : t # s /\ ses'[t].key = ses'[s].key => ses'[t].pump = "exited"
    BY <2>2, <2>3 DEF Ages, Alone
  <2>7. QED
    BY <2>4, <2>5, <2>6 DEF Alone
<1>3. SessionsBounded'
  <2>1. Leaders' \subseteq Leaders
    BY DEF Leaders, Ages
  <2>2. QED
    BY <2>1, FewerLeaders
<1>4. QED
  BY <1>1, <1>2, <1>3

-----------------------------------------------------------------------------
(* The steps.  A change of one field of one session, tidied.               *)

LEMMA SetFacts ==
  ASSUME Shape, NEW s \in Slots, NEW r \in Sessions
  PROVE  LET f == [ses EXCEPT ![s] = r] IN
         /\ Tidy(f) \in [Slots -> Sessions]
         /\ Tidy(f)[s].pump = r.pump /\ (r.pump # "exited" => Tidy(f)[s] = r)
         /\ \A t \in Slots \ {s} : Tidy(f)[t].pump = ses[t].pump
         /\ \A t \in Slots \ {s} : ses[t].pump # "exited" => Tidy(f)[t] = ses[t]
<1> DEFINE f == [ses EXCEPT ![s] = r]
<1>1. ses \in [Slots -> Sessions] /\ f \in [Slots -> Sessions]
  BY DEF Shape
<1>2. f[s] = r /\ \A t \in Slots \ {s} : f[t] = ses[t]
  BY <1>1
<1> HIDE DEF f
<1>3. /\ Tidy(f) \in [Slots -> Sessions]
      /\ Tidy(f)[s].pump = r.pump /\ (r.pump # "exited" => Tidy(f)[s] = r)
      /\ \A t \in Slots \ {s} : Tidy(f)[t].pump = ses[t].pump
      /\ \A t \in Slots \ {s} : ses[t].pump # "exited" => Tidy(f)[t] = ses[t]
  BY <1>1, <1>2, TidyFacts
<1>4. QED
  BY <1>3 DEF f

(* One session gets older, the others stay.                                *)
LEMMA OneAges ==
  ASSUME Shape, NEW s \in Slots, NEW r \in Sessions,
         ses' = Tidy([ses EXCEPT ![s] = r]),
         r.key = ses[s].key, r.first = ses[s].first,
         r.pump = ses[s].pump \/ r.pump = "exited" \/ (r.pump = "ended" /\ ses[s].pump = "live")
  PROVE  ses' \in [Slots -> Sessions] /\ Ages
<1>1. /\ ses' \in [Slots -> Sessions]
      /\ ses'[s].pump = r.pump /\ (r.pump # "exited" => ses'[s] = r)
      /\ \A t \in Slots \ {s} : ses'[t].pump = ses[t].pump
      /\ \A t \in Slots \ {s} : ses[t].pump # "exited" => ses'[t] = ses[t]
  BY SetFacts
<1>2. QED
  BY <1>1 DEF Ages

(* The change of a single field is such a change.                          *)
LEMMA FieldFacts ==
  ASSUME Shape, NEW s \in Slots
  PROVE  /\ ses[s] \in Sessions
         /\ \A v \in {"handed", "queued", "held", "dropped"} :
              /\ Set(s, "stream", v) = Tidy([ses EXCEPT ![s] = [ses[s] EXCEPT !.stream = v]])
              /\ [ses[s] EXCEPT !.stream = v] \in Sessions
              /\ [ses[s] EXCEPT !.stream = v].key = ses[s].key
              /\ [ses[s] EXCEPT !.stream = v].first = ses[s].first
              /\ [ses[s] EXCEPT !.stream = v].pump = ses[s].pump
         /\ \A n \in 0..QueueCap :
              /\ Set(s, "queued", n) = Tidy([ses EXCEPT ![s] = [ses[s] EXCEPT !.queued = n]])
              /\ [ses[s] EXCEPT !.queued = n] \in Sessions
              /\ [ses[s] EXCEPT !.queued = n].key = ses[s].key
              /\ [ses[s] EXCEPT !.queued = n].first = ses[s].first
              /\ [ses[s] EXCEPT !.queued = n].pump = ses[s].pump
         /\ Set(s, "pump", "ended") = Tidy([ses EXCEPT ![s] = [ses[s] EXCEPT !.pump = "ended"]])
         /\ [ses[s] EXCEPT !.pump = "ended"] \in Sessions
         /\ [ses[s] EXCEPT !.pump = "ended"].pump = "ended"
         /\ [ses[s] EXCEPT !.pump = "ended"].key = ses[s].key
         /\ [ses[s] EXCEPT !.pump = "ended"].first = ses[s].first
<1>1. ses \in [Slots -> Sessions] /\ ses[s] \in Sessions
  BY DEF Shape
<1>2. QED
  BY <1>1 DEF Set, Sessions

(* A step that touches neither sessions nor map.                           *)
LEMMA QuietKeeps ==
  ASSUME ListenerInv, Shape', UNCHANGED <<map, ses, gone, doing, seen>>
  PROVE  ListenerInv'
<1>1. Ages /\ Announces /\ RoutesStay
  BY DEF Ages, Announces, RoutesStay
<1>2. QED
  BY <1>1, AgingKeeps

LEMMA ClientSendsKeeps ==
  ASSUME ListenerInv, NEW k \in Keys, NEW c \in BOOLEAN, ClientSends(k, c)
  PROVE  ListenerInv'
<1> USE DEF ListenerInv
<1>1. [key |-> k, ctrl |-> c] \in Datagrams
  BY DEF Datagrams
<1>2. socket' \in Seq(Datagrams)
  BY <1>1, AppendFacts DEF ClientSends, Shape
<1>3. Shape'
  BY <1>2 DEF ClientSends, Shape, ListenerTypeOK
<1>4. QED
  BY <1>3, QuietKeeps DEF ClientSends

LEMMA QuietSteps ==
  ASSUME ListenerInv, Receive \/ RouteNowhere \/ \E k \in Keys : ClientCloses(k)
  PROVE  ListenerInv'
<1> USE DEF ListenerInv
<1>1. batch # <<>> => Tail(batch) \in Seq(Datagrams)
  BY TailFacts DEF Shape
<1>2. Shape' /\ UNCHANGED <<map, ses, gone, doing, seen>>
  BY <1>1 DEF Shape, ListenerTypeOK, Receive, RouteNowhere, Routing, ClientCloses
<1>3. QED
  BY <1>2, QuietKeeps

(* HandOff: only the slot of an exited pump is forgotten.                  *)
LEMMA HandOffFacts ==
  ASSUME ListenerInv, NEW s \in Slots, HandOff(s), doing # "stopped"
  PROVE  /\ ses' \in [Slots -> Sessions] /\ Ages /\ RoutesStay
         /\ map' \in [Keys -> Slots \cup {NoSlot}] /\ at' \in Slots \cup {NoSlot}
         /\ doing' \in {"recv", "send"} /\ (doing' = "send" => at' \in Slots)
<1> USE DEF ListenerInv
<1>1. CASE ses[s].pump = "exited"
  <2>1. map' = Forgotten(s) /\ at' = NoSlot /\ doing' = "recv" /\ UNCHANGED ses
    BY <1>1 DEF HandOff
  <2>2. map' \in [Keys -> Slots \cup {NoSlot}]
    BY <2>1 DEF Forgotten, Shape, ListenerTypeOK
  <2>3. ASSUME NEW t \in Slots, Leads(t), Alone(t) PROVE map'[ses[t].key] = map[ses[t].key]
    <3>1. t # s /\ map[ses[t].key] = t /\ ses[t].key \in Keys
      BY <1>1, <2>3 DEF Leads, Alone, Shape, Sessions
    <3>2. QED
      BY <2>1, <3>1 DEF Forgotten
  <2>4. QED
    BY <2>1, <2>2, <2>3 DEF Ages, RoutesStay, Shape
<1>2. CASE ses[s].pump # "exited" /\ ~Full(s)
  <2>1. ses' = Set(s, "queued", ses[s].queued + 1) /\ at' = NoSlot /\ doing' = "recv" /\ UNCHANGED map
    BY <1>2 DEF HandOff
  <2>2. ses[s].queued + 1 \in 0..QueueCap
    BY <1>2, ListenerConstants DEF Full, Shape, Sessions
  <2> DEFINE r == [ses[s] EXCEPT !.queued = ses[s].queued + 1]
  <2>3. /\ ses' = Tidy([ses EXCEPT ![s] = r]) /\ r \in Sessions
        /\ r.key = ses[s].key /\ r.first = ses[s].first /\ r.pump = ses[s].pump
    BY <2>1, <2>2, FieldFacts
  <2> HIDE DEF r
  <2>4. ses' \in [Slots -> Sessions] /\ Ages
    BY <2>3, OneAges
  <2>5. QED
    BY <2>1, <2>4 DEF RoutesStay, Shape, ListenerTypeOK
<1>3. CASE ses[s].pump # "exited" /\ Full(s)
  <2>1. at' = s /\ doing' = "send" /\ UNCHANGED <<map, ses>>
    BY <1>3 DEF HandOff
  <2>2. QED
    BY <2>1 DEF Ages, RoutesStay, Shape, ListenerTypeOK
<1>4. QED
  BY <1>1, <1>2, <1>3

LEMMA HandOffKeeps ==
  ASSUME ListenerInv, RouteKnown \/ SendResumes
  PROVE  ListenerInv'
<1> USE DEF ListenerInv
<1>1. PICK s \in Slots : HandOff(s)
  <2>1. CASE RouteKnown
    <3>0. batch # <<>> /\ Head(batch) \in Datagrams
      BY <2>1, TailFacts DEF RouteKnown, Routing, Shape
    <3>1. Key \in Keys
      BY <3>0 DEF Key, Datagrams
    <3>2. map[Key] \in Slots
      BY <2>1, <3>1 DEF RouteKnown, Shape, ListenerTypeOK
    <3>3. QED
      BY <2>1, <3>2 DEF RouteKnown
  <2>2. CASE SendResumes
    BY <2>2 DEF SendResumes, Shape
  <2>3. QED
    BY <2>1, <2>2
<1>2. doing # "stopped"
  BY DEF RouteKnown, SendResumes, Routing
<1>3. /\ ses' \in [Slots -> Sessions] /\ Ages /\ RoutesStay
      /\ map' \in [Keys -> Slots \cup {NoSlot}] /\ at' \in Slots \cup {NoSlot}
      /\ doing' \in {"recv", "send"} /\ (doing' = "send" => at' \in Slots)
  BY <1>1, <1>2, HandOffFacts
<1>4. batch' \in Seq(Datagrams)
  BY TailFacts DEF RouteKnown, SendResumes, Routing, Shape
<1>5. UNCHANGED <<client, socket, accepts, gone, seen>>
  BY DEF RouteKnown, SendResumes
<1>6. \A t \in Slots : ses'[t].queued \in 0..QueueCap
  BY <1>3 DEF Sessions
<1>7. Shape'
  BY <1>3, <1>4, <1>5, <1>6 DEF Shape, ListenerTypeOK
<1>8. Announces
  BY <1>5 DEF Announces
<1>9. QED
  BY <1>3, <1>5, <1>7, <1>8, AgingKeeps

(* A field of one session changes, and nothing is forgotten.               *)
LEMMA StreamAges ==
  ASSUME Shape, NEW s \in Slots, NEW v \in {"handed", "queued", "held", "dropped"},
         ses' = Set(s, "stream", v)
  PROVE  ses' \in [Slots -> Sessions] /\ Ages
<1> DEFINE r == [ses[s] EXCEPT !.stream = v]
<1>1. /\ ses' = Tidy([ses EXCEPT ![s] = r]) /\ r \in Sessions
      /\ r.key = ses[s].key /\ r.first = ses[s].first /\ r.pump = ses[s].pump
  BY FieldFacts
<1> HIDE DEF r
<1>2. QED
  BY <1>1, OneAges

LEMMA AcceptSendsKeeps == ASSUME ListenerInv, AcceptSends PROVE ListenerInv'
<1> USE DEF ListenerInv
<1>1. at \in Slots
  BY DEF AcceptSends, Shape
<1>2. ses' \in [Slots -> Sessions] /\ Ages
  BY <1>1, StreamAges DEF AcceptSends
<1>3. accepts' \in Seq(Slots) /\ Len(accepts') = Len(accepts) + 1
  BY <1>1, AppendFacts DEF AcceptSends, Shape
<1>4. Len(accepts') <= AcceptCap
  BY <1>3, ListenerConstants DEF AcceptSends, Shape
<1>5. \A t \in Slots : ses'[t].queued \in 0..QueueCap
  BY <1>2 DEF Sessions
<1>6. Shape'
  BY <1>2, <1>3, <1>4, <1>5 DEF AcceptSends, Shape, ListenerTypeOK
<1>7. Announces /\ RoutesStay /\ seen' = seen
  BY DEF AcceptSends, Announces, RoutesStay
<1>8. QED
  BY <1>2, <1>6, <1>7, AgingKeeps

LEMMA AbandonedAges ==
  ASSUME Shape, ses' = Abandoned
  PROVE  ses' \in [Slots -> Sessions] /\ Ages
<1>1. CASE doing = "accept"
  <2>1. at \in Slots /\ ses' = Set(at, "stream", "dropped")
    BY <1>1 DEF Abandoned, Shape
  <2>2. QED
    BY <2>1, StreamAges
<1>2. CASE doing # "accept"
  BY <1>2 DEF Abandoned, Ages, Shape
<1>3. QED
  BY <1>1, <1>2

(* The announcement that is taken was of no leader: its entry may go.      *)
LEMMA TakeGoneKeeps == ASSUME ListenerInv, TakeGone PROVE ListenerInv'
<1> USE DEF ListenerInv
<1>1. ses' \in [Slots -> Sessions] /\ Ages
  BY AbandonedAges DEF TakeGone
<1>2. /\ gone # <<>> /\ gone \in Seq(Keys) /\ gone' = Tail(gone)
      /\ map' = [map EXCEPT ![Head(gone)] = NoSlot]
      /\ batch' = <<>> /\ at' = NoSlot /\ doing' = "recv" /\ doing # "stopped"
      /\ UNCHANGED <<client, socket, accepts, seen>>
  BY DEF TakeGone, Shape, GonePolled, Waiting
<1>3. /\ Head(gone) \in Keys /\ Head(gone) = gone[1] /\ 1 \in 1..Len(gone)
      /\ gone' \in Seq(Keys) /\ Len(gone') = Len(gone) - 1
      /\ \A j \in 1..Len(gone') : gone'[j] = gone[j + 1] /\ j + 1 \in 1..Len(gone)
  BY <1>2, TailFacts
<1>4. \A t \in Slots : ses'[t].queued \in 0..QueueCap
  BY <1>1 DEF Sessions
<1>5. Len(gone') <= GoneCap
  BY <1>2, <1>3, ListenerConstants DEF Shape, ListenerTypeOK
<1>6. Shape'
  BY <1>1, <1>2, <1>3, <1>4, <1>5 DEF Shape, ListenerTypeOK
<1>7. Announces
  BY <1>3 DEF Announces
<1>8. RoutesStay
  <2>1. SUFFICES ASSUME NEW s \in Slots, Leads(s), Alone(s) PROVE map'[ses[s].key] = map[ses[s].key]
    BY <1>2 DEF RoutesStay
  <2>2. Head(gone) # ses[s].key /\ ses[s].key \in Keys
    BY <1>3, <2>1 DEF Alone, Shape, Sessions
  <2>3. QED
    BY <1>2, <2>2 DEF Shape, ListenerTypeOK
<1>9. QED
  BY <1>1, <1>2, <1>6, <1>7, <1>8, AgingKeeps

LEMMA DispatchStopsKeeps == ASSUME ListenerInv, DispatchStops PROVE ListenerInv'
<1> USE DEF ListenerInv
<1>1. ses' \in [Slots -> Sessions] /\ Ages
  BY AbandonedAges DEF DispatchStops
<1>2. /\ gone' = <<>> /\ map' = [k \in Keys |-> NoSlot]
      /\ batch' = <<>> /\ at' = NoSlot /\ doing' = "stopped"
      /\ UNCHANGED <<client, socket, accepts, seen>>
  BY DEF DispatchStops, MapCleared
<1>3. \A t \in Slots : ses'[t].queued \in 0..QueueCap
  BY <1>1 DEF Sessions
<1>4. Len(gone') = 0 /\ gone' \in Seq(Keys) /\ batch' \in Seq(Datagrams) /\ 0 <= GoneCap
  BY <1>2, ListenerConstants
<1>5. Shape'
  BY <1>1, <1>2, <1>3, <1>4 DEF Shape, ListenerTypeOK
<1>6. Announces /\ RoutesStay
  BY <1>2, <1>4 DEF Announces, RoutesStay
<1>7. QED
  BY <1>1, <1>2, <1>5, <1>6, AgingKeeps

(* The pumps.                                                              *)
LEMMA PumpKeeps ==
  ASSUME ListenerInv, NEW s \in Slots, PumpTakes(s) \/ PumpEnds(s) \/ PumpHears(s) PROVE ListenerInv'
<1> USE DEF ListenerInv
<1>1. ses' \in [Slots -> Sessions] /\ Ages
  <2>1. CASE PumpTakes(s)
    <3> DEFINE r == [ses[s] EXCEPT !.queued = ses[s].queued - 1]
    <3>1. ses[s].queued - 1 \in 0..QueueCap
      BY <2>1, ListenerConstants DEF PumpTakes, Shape, Sessions
    <3>2. /\ ses' = Tidy([ses EXCEPT ![s] = r]) /\ r \in Sessions
          /\ r.key = ses[s].key /\ r.first = ses[s].first /\ r.pump = ses[s].pump
      BY <2>1, <3>1, FieldFacts DEF PumpTakes
    <3> HIDE DEF r
    <3>3. QED
      BY <3>2, OneAges
  <2>2. CASE PumpEnds(s) \/ PumpHears(s)
    <3> DEFINE r == [ses[s] EXCEPT !.pump = "ended"]
    <3>1. /\ ses' = Tidy([ses EXCEPT ![s] = r]) /\ r \in Sessions
          /\ r.key = ses[s].key /\ r.first = ses[s].first /\ r.pump = "ended"
      BY <2>2, FieldFacts DEF PumpEnds, PumpHears
    <3>2. ses[s].pump = "live"
      BY <2>2 DEF PumpEnds, PumpHears
    <3> HIDE DEF r
    <3>3. QED
      BY <3>1, <3>2, OneAges
  <2>3. QED
    BY <2>1, <2>2
<1>2. UNCHANGED <<client, socket, batch, at, doing, map, accepts, gone, seen>>
  BY DEF PumpTakes, PumpEnds, PumpHears
<1>3. \A t \in Slots : ses'[t].queued \in 0..QueueCap
  BY <1>1 DEF Sessions
<1>4. Shape' /\ Announces /\ RoutesStay
  BY <1>1, <1>2, <1>3 DEF Shape, ListenerTypeOK, Announces, RoutesStay
<1>5. QED
  BY <1>1, <1>2, <1>4, AgingKeeps

(* The end of a pump is announced under its client's key, and no other     *)
(* session of that client leads.                                           *)
LEMMA PumpExitsKeeps ==
  ASSUME ListenerInv, NEW s \in Slots, PumpExits(s) PROVE ListenerInv'
<1> USE DEF ListenerInv
<1>1. ses' \in [Slots -> Sessions] /\ Ages
  <2> DEFINE r == [ses[s] EXCEPT !.pump = "exited", !.queued = 0]
  <2>1. ses \in [Slots -> Sessions] /\ ses[s] \in Sessions /\ 0 \in 0..QueueCap
    BY ListenerConstants DEF Shape
  <2>2. [ses EXCEPT ![s].pump = "exited", ![s].queued = 0] = [ses EXCEPT ![s] = r]
    BY <2>1
  <2>3. /\ ses' = Tidy([ses EXCEPT ![s] = r]) /\ r \in Sessions
        /\ r.key = ses[s].key /\ r.first = ses[s].first /\ r.pump = "exited"
    BY <2>1, <2>2 DEF PumpExits, Sessions
  <2> HIDE DEF r
  <2>4. QED
    BY <2>3, OneAges
<1>2. UNCHANGED <<client, socket, batch, at, doing, map, accepts, seen>>
  BY DEF PumpExits
<1>3. \A t \in Slots : ses'[t].queued \in 0..QueueCap
  BY <1>1 DEF Sessions
<1>4. ses[s].key \in Keys /\ ses[s].pump = "ended" /\ gone \in Seq(Keys)
  BY DEF PumpExits, Shape, Sessions
<1>5. gone' \in Seq(Keys) /\ Len(gone') <= GoneCap /\ Announces
  <2>1. CASE gone' = gone
    BY <2>1 DEF Shape, ListenerTypeOK, Announces
  <2>2. CASE Len(gone) < GoneCap /\ gone' = Append(gone, ses[s].key)
    <3>1. /\ gone' \in Seq(Keys) /\ Len(gone') = Len(gone) + 1 /\ Len(gone) \in Nat
          /\ \A j \in 1..Len(gone) : gone'[j] = gone[j]
          /\ gone'[Len(gone) + 1] = ses[s].key
      BY <1>4, <2>2, AppendFacts
    <3>2. Len(gone') <= GoneCap
      BY <2>2, <3>1, ListenerConstants
    <3>3. \A i \in 1..Len(gone') : i \in 1..Len(gone) \/ i = Len(gone) + 1
      BY <3>1
    <3>4. Announces
      BY <1>4, <3>1, <3>3 DEF Announces
    <3>5. QED
      BY <3>1, <3>2, <3>4
  <2>3. QED
    BY <2>1, <2>2 DEF PumpExits, Announce
<1>6. Shape' /\ RoutesStay
  BY <1>1, <1>2, <1>3, <1>5 DEF Shape, ListenerTypeOK, RoutesStay
<1>7. QED
  BY <1>1, <1>2, <1>5, <1>6, AgingKeeps

(* The handlers and the listener's own task.                               *)
LEMMA HandlerKeeps ==
  ASSUME ListenerInv, TakeAccepted \/ ListenerStops \/ \E s \in Slots : HandlerEnds(s)
  PROVE  ListenerInv'
<1> USE DEF ListenerInv
<1>1. ses' \in [Slots -> Sessions] /\ Ages
  <2>1. CASE TakeAccepted
    <3>1. Head(accepts) \in Slots
      BY <2>1, TailFacts DEF TakeAccepted, Shape
    <3>2. QED
      BY <2>1, <3>1, StreamAges DEF TakeAccepted
  <2>2. CASE ListenerStops
    <3> DEFINE f == [s \in Slots |-> IF ses[s].stream = "queued"
                                     THEN [ses[s] EXCEPT !.stream = "dropped"] ELSE ses[s]]
    <3>1. \A s \in Slots : /\ f[s] \in Sessions /\ f[s].key = ses[s].key
                            /\ f[s].first = ses[s].first /\ f[s].pump = ses[s].pump
      <4>1. ASSUME NEW s \in Slots
            PROVE  /\ f[s] \in Sessions /\ f[s].key = ses[s].key
                   /\ f[s].first = ses[s].first /\ f[s].pump = ses[s].pump
        <5>1. ses[s] \in Sessions
          BY DEF Shape
        <5>2. QED
          BY <5>1 DEF Sessions
      <4>2. QED
        BY <4>1
    <3>2. f \in [Slots -> Sessions] /\ ses' = Tidy(f)
      BY <2>2, <3>1 DEF ListenerStops
    <3> HIDE DEF f
    <3>3. /\ ses' \in [Slots -> Sessions]
          /\ \A t \in Slots : ses'[t].pump = f[t].pump
          /\ \A t \in Slots : f[t].pump # "exited" => ses'[t] = f[t]
      BY <3>2, TidyFacts
    <3>4. QED
      BY <3>1, <3>3 DEF Ages
  <2>3. CASE \E s \in Slots : HandlerEnds(s)
    BY <2>3, StreamAges DEF HandlerEnds
  <2>4. QED
    BY <2>1, <2>2, <2>3
<1>2. UNCHANGED <<client, socket, batch, at, doing, map, gone, seen>>
  BY DEF TakeAccepted, ListenerStops, HandlerEnds
<1>3. accepts' \in Seq(Slots) /\ Len(accepts') <= AcceptCap
  <2>1. CASE TakeAccepted
    <3>1. Tail(accepts) \in Seq(Slots) /\ Len(Tail(accepts)) = Len(accepts) - 1
      BY <2>1, TailFacts DEF TakeAccepted, Shape
    <3>2. QED
      BY <2>1, <3>1, ListenerConstants DEF TakeAccepted, Shape, ListenerTypeOK
  <2>2. CASE accepts' = <<>>
    BY <2>2, ListenerConstants
  <2>3. CASE accepts' = accepts
    BY <2>3 DEF Shape, ListenerTypeOK
  <2>4. QED
    BY <2>1, <2>2, <2>3 DEF ListenerStops, HandlerEnds
<1>4. \A t \in Slots : ses'[t].queued \in 0..QueueCap
  BY <1>1 DEF Sessions
<1>5. Shape' /\ Announces /\ RoutesStay
  BY <1>1, <1>2, <1>3, <1>4 DEF Shape, ListenerTypeOK, Announces, RoutesStay
<1>6. QED
  BY <1>1, <1>2, <1>5, AgingKeeps

(* Each leader has an entry of its own in the map: there are no more of    *)
(* them than entries.                                                      *)
LEMMA LeadersAreKnown ==
  ASSUME ListenerInv, doing # "stopped"
  PROVE  /\ IsFiniteSet(Leaders) /\ IsFiniteSet(Known)
         /\ Cardinality(Leaders) <= Cardinality(Known)
<1> USE DEF ListenerInv
<1> DEFINE route == [s \in Leaders |-> ses[s].key]
<1>1. \A s \in Leaders : s \in Slots /\ ses[s].key \in Keys /\ map[ses[s].key] = s
  BY DEF Leaders, Leads, FirstAlone, Alone, Shape, Sessions
<1>2. \A s \in Leaders : ses[s].key \in Known
  BY <1>1, SlotsAreNumbers DEF Known
<1>3. route \in [Leaders -> Known]
  BY <1>2
<1>4. \A s, t \in Leaders : route[s] = route[t] => s = t
  BY <1>1
<1>5. IsFiniteSet(Known) /\ IsFiniteSet(Leaders)
  BY ListenerConstants, FS_Subset DEF Known, Leaders
<1>6. route \in Injection(Leaders, Known)
  BY <1>3, <1>4 DEF Injection, IsInjective
<1>7. QED
  BY <1>5, <1>6, FS_Injection DEF ExistsInjection

(* A fresh session: of a client never seen it leads, alone; of another it  *)
(* does not, and a leader of that client would have an entry.              *)
LEMMA AdoptKeeps == ASSUME ListenerInv, NEW s \in Slots, Adopt(s) PROVE ListenerInv'
<1> USE DEF ListenerInv
<1> DEFINE new == [key |-> Key, first |-> Key \notin seen, pump |-> "live",
                   queued |-> 1, stream |-> "handed"]
<1>1. batch # <<>> /\ Head(batch) \in Datagrams /\ Tail(batch) \in Seq(Datagrams)
  BY TailFacts DEF Adopt, Routing, Shape
<1>2. Key \in Keys
  BY <1>1 DEF Key, Datagrams
<1>3. new \in Sessions /\ new.pump = "live" /\ new.key = Key /\ new.first = (Key \notin seen)
  BY <1>2, ListenerConstants DEF Sessions
<1>4. ses' = [ses EXCEPT ![s] = new]
  BY DEF Adopt
<1> HIDE DEF new
<1>5. ses' \in [Slots -> Sessions] /\ ses'[s] = new /\ \A t \in Slots \ {s} : ses'[t] = ses[t]
  BY <1>3, <1>4 DEF Shape
<1>6. /\ map[Key] = NoSlot /\ map' = [map EXCEPT ![Key] = s] /\ seen' = seen \cup {Key}
      /\ ses[s] = Unused /\ doing = "recv" /\ ~AtCap
      /\ at' = s /\ doing' = "accept" /\ batch' = Tail(batch)
      /\ UNCHANGED <<client, socket, accepts, gone>>
  BY DEF Adopt, Routing, IsFree
<1>7. map' \in [Keys -> Slots \cup {NoSlot}] /\ map'[Key] = s /\ \A k \in Keys \ {Key} : map'[k] = map[k]
  BY <1>2, <1>6 DEF Shape, ListenerTypeOK
<1>8. \A t \in Slots : ses'[t].queued \in 0..QueueCap
  BY <1>5 DEF Sessions
<1>9. Shape'
  BY <1>1, <1>2, <1>5, <1>6, <1>7, <1>8 DEF Shape, ListenerTypeOK
<1>10. SeenBefore'
  BY <1>3, <1>5, <1>6 DEF SeenBefore
<1>11. FirstAlone'
  <2>1. SUFFICES ASSUME NEW t \in Slots, Leads(t)' PROVE Alone(t)'
    BY DEF FirstAlone
  <2>2. CASE t = s
    <3>1. Key \notin seen /\ ses'[t].key = Key
      BY <1>3, <1>5, <2>1, <2>2 DEF Leads
    <3>2. \A i \in 1..Len(gone') : gone'[i] # Key
      BY <1>6, <3>1 DEF SeenBefore
    <3>3. \A u \in Slots : u # t /\ ses'[u].key = Key => ses'[u].pump = "exited"
      BY <1>5, <2>2, <3>1 DEF SeenBefore
    <3>4. QED
      BY <1>7, <2>2, <3>1, <3>2, <3>3 DEF Alone
  <2>3. CASE t # s
    <3>1. ses'[t] = ses[t] /\ Leads(t) /\ Alone(t) /\ ses[t].key \in Keys
      BY <1>5, <1>6, <2>1, <2>3 DEF Leads, FirstAlone, Shape, Sessions
    <3>2. ses[t].key # Key
      BY <1>6, <3>1, SlotsAreNumbers DEF Alone
    <3>3. map'[ses'[t].key] = t
      BY <1>7, <3>1, <3>2 DEF Alone
    <3>4. \A u \in Slots : u # t /\ ses'[u].key = ses'[t].key => ses'[u].pump = "exited"
      BY <1>3, <1>5, <3>1, <3>2 DEF Alone
    <3>5. QED
      BY <1>6, <3>1, <3>3, <3>4 DEF Alone
  <2>4. QED
    BY <2>2, <2>3
<1>12. SessionsBounded'
  <2>1. /\ IsFiniteSet(Leaders) /\ IsFiniteSet(Known)
        /\ Cardinality(Leaders) <= Cardinality(Known)
    BY <1>6, LeadersAreKnown
  <2>2. Leaders' \subseteq Leaders \cup {s}
    BY <1>5 DEF Leaders
  <2>3. /\ Cardinality(Leaders) \in Nat /\ Cardinality(Known) \in Nat
        /\ IsFiniteSet(Leaders \cup {s}) /\ Cardinality(Leaders \cup {s}) \in Nat
        /\ Cardinality(Leaders \cup {s}) <= Cardinality(Leaders) + 1
    <3>1. Cardinality(Leaders) \in Nat /\ Cardinality(Known) \in Nat
      BY <2>1, FS_CardinalityType
    <3>2. IsFiniteSet(Leaders \cup {s})
      BY <2>1, FS_AddElement
    <3>3. \/ Cardinality(Leaders \cup {s}) = Cardinality(Leaders)
          \/ Cardinality(Leaders \cup {s}) = Cardinality(Leaders) + 1
      BY <2>1, FS_AddElement
    <3>4. QED
      BY <3>1, <3>2, <3>3
  <2>4. Cardinality(Leaders') \in Nat /\ Cardinality(Leaders') <= Cardinality(Leaders \cup {s})
    BY <2>2, <2>3, FS_Subset, FS_CardinalityType
  <2>5. Cardinality(Known) < SessionCap /\ SessionCap \in Nat
    BY <1>6, <2>3, ListenerConstants DEF AtCap
  <2>6. Cardinality(Leaders') <= SessionCap
    BY <2>1, <2>3, <2>4, <2>5
  <2>7. QED
    BY <2>6 DEF SessionsBounded, Leaders
<1>13. QED
  BY <1>9, <1>10, <1>11, <1>12

-----------------------------------------------------------------------------
LEMMA ListenerInitial == ListenerInit => ListenerInv
<1> SUFFICES ASSUME ListenerInit PROVE ListenerInv
  OBVIOUS
<1>1. ses \in [Slots -> Sessions] /\ \A s \in Slots : ses[s].pump = "exited" /\ ses[s].queued = 0
  BY UnusedIsSession DEF ListenerInit, Unused
<1>2. Shape
  BY <1>1, ListenerConstants DEF ListenerInit, Shape, ListenerTypeOK
<1>3. SeenBefore /\ FirstAlone
  BY <1>1 DEF ListenerInit, SeenBefore, FirstAlone, Leads
<1>4. {s \in Slots : ses[s].pump = "live" /\ ses[s].first} = {}
  BY <1>1
<1>5. SessionsBounded
  BY <1>4, FS_EmptySet, ListenerConstants DEF SessionsBounded
<1>6. QED
  BY <1>2, <1>3, <1>5 DEF ListenerInv

LEMMA ListenerStep == ListenerInv /\ [ListenerNext]_listenerVars => ListenerInv'
<1> SUFFICES ASSUME ListenerInv, [ListenerNext]_listenerVars PROVE ListenerInv'
  OBVIOUS
<1>1. CASE Receive \/ RouteNowhere \/ \E k \in Keys : ClientCloses(k)
  BY <1>1, QuietSteps
<1>2. CASE RouteKnown \/ SendResumes
  BY <1>2, HandOffKeeps
<1>3. CASE AcceptSends
  BY <1>3, AcceptSendsKeeps
<1>4. CASE DispatchStops
  BY <1>4, DispatchStopsKeeps
<1>5. CASE \E s \in Slots : Adopt(s)
  BY <1>5, AdoptKeeps
<1>6. CASE TakeGone
  BY <1>6, TakeGoneKeeps
<1>7. CASE TakeAccepted \/ ListenerStops \/ \E s \in Slots : HandlerEnds(s)
  BY <1>7, HandlerKeeps
<1>8. CASE \E s \in Slots : PumpTakes(s) \/ PumpEnds(s) \/ PumpHears(s)
  BY <1>8, PumpKeeps
<1>9. CASE \E s \in Slots : PumpExits(s)
  BY <1>9, PumpExitsKeeps
<1>10. CASE \E k \in Keys, c \in BOOLEAN : ClientSends(k, c)
  BY <1>10, ClientSendsKeeps
<1>11. CASE UNCHANGED listenerVars
  <2>1. Shape' /\ UNCHANGED <<map, ses, gone, doing, seen>>
    BY <1>11 DEF listenerVars, ListenerInv, Shape, ListenerTypeOK
  <2>2. QED
    BY <2>1, QuietKeeps
<1>12. QED
  BY <1>1, <1>2, <1>3, <1>4, <1>5, <1>6, <1>7, <1>8, <1>9, <1>10, <1>11
     DEF ListenerNext, DispatchStep, PumpStep

(* The listener is safe for every number of clients, every cap and every   *)
(* depth of its queues: no queue outgrows its capacity, the route of a     *)
(* client's first session stands while its pump lives (route_datagram,     *)
(* dispatch), and MAX_LISTENER_SESSIONS bounds these sessions.             *)
THEOREM ListenerIsSafe == ListenerSpec => []ListenerSafe
<1>1. ListenerInv => ListenerSafe
  <2>1. FirstAlone => FirstKeepsRoute
    BY DEF FirstAlone, FirstKeepsRoute, Leads, Alone
  <2>2. QED
    BY <2>1 DEF ListenerInv, ListenerSafe, Shape
<1>2. QED
  BY <1>1, ListenerInitial, ListenerStep, PTL DEF ListenerSpec
=============================================================================
