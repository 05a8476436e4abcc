--------------------------- MODULE Instance_proofs ---------------------------
(***************************************************************************)
(* One running instance and its control connection.                        *)
(*                                                                         *)
(* The encrypted stream, for every record size and however its bytes are   *)
(* cut: it delivers the writer's bytes, and no false end.                  *)
(*                                                                         *)
(* The control session on the wire, for every cadence, delay and number of *)
(* connections: the registry is exact and a healthy session stays up.      *)
(*                                                                         *)
(* The watcher, the instance it keeps and the service table of a reload,   *)
(* for every set of names, keys and documents.                             *)
(***************************************************************************)
EXTENDS NoiseStream, SessionWire, ConfigReload, SequenceTheorems,
        FiniteSetTheorems, WellFoundedInduction, TLAPS

(***************************************************************************)
(* The encrypted stream.                                                   *)
(***************************************************************************)

Unit == Nat \X Nat \X Nat \X Nat

(* What the reader has before it: the bytes of its buffer it has not used, *)
(* then those of the connection, without a handshake message under way.    *)
HsPending == took < sent /\ Author = "snd"
Wire == IF HsPending THEN Tail(link["snd"]) ELSE link["snd"]
Ahead == Unserved \o Wire
Delivered == Len(got) + Len(payload)

(* The order of the bytes ahead: every byte has the bytes of its record    *)
(* around it, at their positions, and a whole record is followed by the    *)
(* first byte of the next, which starts where the payload ends.  Written   *)
(* for any two places rather than for neighbours, so that a record at the  *)
(* front is known without an induction over its length.                    *)
GoodUnit(u) == 1 <= u[2] /\ u[2] <= u[3] /\ 3 <= u[3] /\ u[3] <= MaxFrame
Block(s) == \A i, j \in 1..Len(s) : \A k \in 1..s[i][3] :
                j = i - s[i][2] + k => s[j] = <<s[i][1], k, s[i][3], s[i][4]>>
Follow(s) == \A i, j \in 1..Len(s) : j = i + 1 /\ s[i][2] = s[i][3] =>
                s[j][1] = s[i][1] + 1 /\ s[j][2] = 1 /\ s[j][4] = s[i][4] + (s[i][3] - 3)
Ordered(s) == s \in Seq(Unit) /\ (\A i \in 1..Len(s) : GoodUnit(s[i])) /\ Block(s) /\ Follow(s)

(* The handshake: its messages alternate, the reader opens after the last  *)
(* of them, and the writer writes no record before it is open.             *)
HsOk ==
    /\ first \in Ends /\ stage \in [Ends -> {"hs", "open", "failed"}] /\ fin \subseteq Ends
    /\ sent \in 0..2 /\ took \in 0..2 /\ took <= sent /\ sent <= took + 1
    /\ link \in [Ends -> Seq(Unit)]
    /\ HsPending => link["snd"] # <<>>
    /\ stage["rcv"] = "open" => sent = 2 /\ ~HsPending
    /\ stage["snd"] # "open" => w = NoWrite /\ records = 0 /\ Wire = <<>>

(* The record being written is the last one, and its payload is not among  *)
(* the bytes taken.                                                        *)
Writes == [rec : Nat \ {0}, off : Nat, len : 3..MaxFrame, base : Nat]
WriteOk ==
    /\ records \in 0..MaxRecords /\ accepted \in 0..MaxWritten
    /\ w # NoWrite => /\ w \in Writes /\ w.rec = records /\ w.off < w.len /\ w.base = accepted
                      /\ accepted + (w.len - 3) <= MaxWritten
    /\ "snd" \in fin => w = NoWrite

(* The reader's buffer, and a length it declared is the front record's.    *)
ReadOk ==
    /\ scratch \in Seq(Unit) /\ Len(scratch) <= MaxFrame /\ start \in 0..Len(scratch)
    /\ r \in {"record", "serve", "eof"} /\ payload \in Seq(Nat) /\ got \in Seq(Nat)
    /\ r = "serve" <=> payload # <<>>
    /\ opened \in Nat /\ expected \in Nat
    /\ expected # 0 => Unserved # <<>> /\ expected = Unserved[1][3]

(* The front of the bytes ahead is the first byte of the record to decrypt *)
(* next, whose payload starts where what was delivered ends.               *)
FrontOk ==
    /\ Ordered(Ahead)
    /\ Ahead # <<>> => Ahead[1][1] = opened + 1 /\ Ahead[1][2] = 1 /\ Ahead[1][4] = Delivered

(* The back of them is where the writer is: in the record it is writing,   *)
(* at the end of the last one, or in one that a shutdown cut.              *)
Done == IF w = NoWrite THEN records ELSE records - 1
BackAt(u) ==
    IF w # NoWrite /\ w.off > 0 THEN u = <<w.rec, w.off, w.len, w.base>>
    ELSE /\ "snd" \notin fin => u[2] = u[3] /\ u[1] = Done
         /\ u[2] = u[3] => u[4] + (u[3] - 3) = accepted
         /\ u[2] < u[3] => u[4] = accepted
BackOk ==
    /\ Ahead # <<>> => BackAt(Ahead[Len(Ahead)])
    /\ Ahead = <<>> => /\ w = NoWrite \/ w.off = 0
                       /\ "snd" \notin fin => opened = Done
                       /\ Delivered = accepted
InStep == got \o payload = Bytes(0, Delivered)

NoiseInv == HsOk /\ WriteOk /\ ReadOk /\ FrontOk /\ BackOk /\ InStep /\ EndIsReal

-----------------------------------------------------------------------------
(* Numbers and sequences.                                                  *)

LEMMA FrameNumbers ==
  /\ MaxMessage \in Nat /\ MaxMessage > 1 /\ PipeCap \in Nat /\ MaxWritten \in Nat /\ MaxRecords \in Nat
  /\ MaxFrame \in Nat /\ MaxFrame = 2 + MaxMessage
BY NoiseConstants DEF MaxFrame, LengthField, TagLen

LEMMA MinOfTwo ==
  ASSUME NEW a \in Int, NEW b \in Int
  PROVE  Min({a, b}) \in {a, b} /\ Min({a, b}) <= a /\ Min({a, b}) <= b
<1> DEFINE S == {a, b}
<1>1. \E x \in S : \A y \in S : x <= y
  OBVIOUS
<1> QED
  BY <1>1 DEF Min

LEMMA Dropped1 ==
  ASSUME NEW T, NEW s \in Seq(T), NEW k \in 0..Len(s)
  PROVE  /\ SubSeq(s, k + 1, Len(s)) \in Seq(T)
         /\ Len(SubSeq(s, k + 1, Len(s))) = Len(s) - k
         /\ \A i \in 1..(Len(s) - k) : SubSeq(s, k + 1, Len(s))[i] = s[i + k]
<1>1. \A i \in (k + 1)..Len(s) : s[i] \in T
  OBVIOUS
<1>2. Len(s) \in Nat /\ k \in Nat /\ k <= Len(s)
  OBVIOUS
<1>3. /\ SubSeq(s, k + 1, Len(s)) \in Seq(T)
      /\ Len(SubSeq(s, k + 1, Len(s))) = IF k + 1 <= Len(s) THEN Len(s) - (k + 1) + 1 ELSE 0
      /\ \A i \in 1..(Len(s) - (k + 1) + 1) : SubSeq(s, k + 1, Len(s))[i] = s[(k + 1) + i - 1]
  BY <1>1, <1>2, SubSeqProperties
<1> DEFINE d == SubSeq(s, k + 1, Len(s))
<1> HIDE DEF d
<1>4. Len(d) = Len(s) - k
  BY <1>2, <1>3 DEF d
<1>5. \A i \in 1..(Len(s) - k) : d[i] = s[i + k]
  BY <1>2, <1>3 DEF d
<1> QED
  BY <1>3, <1>4, <1>5 DEF d

LEMMA Taken1 ==
  ASSUME NEW T, NEW s \in Seq(T), NEW k \in 0..Len(s)
  PROVE  /\ SubSeq(s, 1, k) \in Seq(T)
         /\ Len(SubSeq(s, 1, k)) = k
         /\ \A i \in 1..k : SubSeq(s, 1, k)[i] = s[i]
<1>1. \A i \in 1..k : s[i] \in T
  OBVIOUS
<1>2. Len(s) \in Nat /\ k \in Nat
  OBVIOUS
<1>3. /\ SubSeq(s, 1, k) \in Seq(T)
      /\ Len(SubSeq(s, 1, k)) = IF 1 <= k THEN k - 1 + 1 ELSE 0
      /\ \A i \in 1..(k - 1 + 1) : SubSeq(s, 1, k)[i] = s[1 + i - 1]
  BY <1>1, <1>2, SubSeqProperties
<1> DEFINE d == SubSeq(s, 1, k)
<1> HIDE DEF d
<1>4. Len(d) = k
  BY <1>2, <1>3 DEF d
<1>5. \A i \in 1..k : d[i] = s[i]
  BY <1>2, <1>3 DEF d
<1> QED
  BY <1>3, <1>4, <1>5 DEF d

LEMMA Joined ==
  ASSUME NEW T, NEW s \in Seq(T), NEW t \in Seq(T)
  PROVE  /\ s \o t \in Seq(T) /\ Len(s \o t) = Len(s) + Len(t) /\ Len(s) \in Nat /\ Len(t) \in Nat
         /\ \A i \in 1..Len(s) : (s \o t)[i] = s[i]
         /\ \A i \in 1..Len(t) : (s \o t)[Len(s) + i] = t[i]
OBVIOUS


LEMMA NatsJoin ==
  ASSUME NEW a \in Seq(Nat), NEW b \in Seq(Nat), NEW c \in Seq(Nat)
  PROVE  a \o (b \o c) = (a \o b) \o c
<1> DEFINE T == Nat
<1>1. a \in Seq(T) /\ b \in Seq(T) /\ c \in Seq(T)
  OBVIOUS
<1> HIDE DEF T
<1> QED
  BY ONLY <1>1

LEMMA UnitsJoin ==
  ASSUME NEW a \in Seq(Unit), NEW b \in Seq(Unit), NEW c \in Seq(Unit)
  PROVE  a \o (b \o c) = (a \o b) \o c
OBVIOUS

(* Sequences of the same length and elements are one.                      *)
LEMMA SameSeq ==
  ASSUME NEW T, NEW s \in Seq(T), NEW t \in Seq(T), Len(s) = Len(t), \A i \in 1..Len(s) : s[i] = t[i]
  PROVE  s = t
OBVIOUS

LEMMA TailJoined ==
  ASSUME NEW T, NEW s \in Seq(T), NEW t \in Seq(T), s # <<>>
  PROVE  Tail(s) \in Seq(T) /\ Tail(s \o t) = Tail(s) \o t
<1>1. Len(s) \in Nat /\ Len(s) > 0 /\ Len(t) \in Nat
  OBVIOUS
<1>2. s \o t \in Seq(T) /\ Len(s \o t) = Len(s) + Len(t) /\ s \o t # <<>>
  BY <1>1
<1>3. /\ Tail(s) \in Seq(T) /\ Len(Tail(s)) = Len(s) - 1
      /\ \A i \in 1..(Len(s) - 1) : Tail(s)[i] = s[i + 1]
  OBVIOUS
<1>4. /\ Tail(s \o t) \in Seq(T) /\ Len(Tail(s \o t)) = Len(s) + Len(t) - 1
      /\ \A i \in 1..(Len(s) + Len(t) - 1) : Tail(s \o t)[i] = (s \o t)[i + 1]
  BY <1>1, <1>2
<1>5. Tail(s) \o t \in Seq(T) /\ Len(Tail(s) \o t) = Len(s) + Len(t) - 1
  BY <1>1, <1>3, Joined
<1>6. ASSUME NEW i \in 1..(Len(s) + Len(t) - 1) PROVE (s \o t)[i + 1] = (Tail(s) \o t)[i]
  <2>1. CASE i <= Len(s) - 1
    <3>1. i \in 1..(Len(s) - 1) /\ i + 1 \in 1..Len(s)
      BY <1>1, <2>1
    <3>2. (s \o t)[i + 1] = s[i + 1]
      BY <3>1, Joined
    <3>3. (Tail(s) \o t)[i] = Tail(s)[i]
      BY <1>3, <3>1, Joined
    <3> QED
      BY <1>3, <3>1, <3>2, <3>3
  <2>2. CASE i > Len(s) - 1
    <3> DEFINE d == i + 1 - Len(s)
    <3>1. d \in 1..Len(t) /\ i + 1 = Len(s) + d /\ i = (Len(s) - 1) + d
      BY <1>1, <2>2
    <3> HIDE DEF d
    <3>2. (s \o t)[i + 1] = t[d]
      BY <3>1, Joined
    <3>3. (Tail(s) \o t)[i] = t[d]
      BY <1>3, <3>1, Joined
    <3> QED
      BY <3>2, <3>3
  <2> QED
    BY <1>1, <2>1, <2>2
<1> QED
  BY <1>3, <1>4, <1>5, <1>6, SameSeq

LEMMA BytesLook ==
  ASSUME NEW b \in Nat, NEW n \in Nat
  PROVE  Bytes(b, n) \in Seq(Nat) /\ Len(Bytes(b, n)) = n /\ \A i \in 1..n : Bytes(b, n)[i] = b + i
BY DEF Bytes

LEMMA BytesJoin ==
  ASSUME NEW n \in Nat, NEW m \in Nat
  PROVE  Bytes(0, n) \o Bytes(n, m) = Bytes(0, n + m)
<1> DEFINE x == Bytes(0, n)
           y == Bytes(n, m)
           z == Bytes(0, n + m)
<1>0. \A i \in Nat : 0 + i = i
  OBVIOUS
<1>1. x \in Seq(Nat) /\ Len(x) = n /\ \A i \in 1..n : x[i] = i
  <2>1. x \in Seq(Nat) /\ Len(x) = n /\ \A i \in 1..n : x[i] = 0 + i
    BY BytesLook
  <2> HIDE DEF x
  <2> QED
    BY <1>0, <2>1
<1>2. y \in Seq(Nat) /\ Len(y) = m /\ \A i \in 1..m : y[i] = n + i
  BY BytesLook
<1>3. z \in Seq(Nat) /\ Len(z) = n + m /\ \A i \in 1..(n + m) : z[i] = i
  BY <1>0, BytesLook
<1> HIDE DEF x, y, z
<1>4. x \o y \in Seq(Nat) /\ Len(x \o y) = n + m
  BY <1>1, <1>2, Joined
<1>5. ASSUME NEW i \in 1..(n + m) PROVE (x \o y)[i] = i
  <2>1. CASE i <= n
    BY <1>1, <1>2, <2>1, Joined
  <2>2. CASE i > n
    <3>1. i - n \in 1..m /\ n + (i - n) = i
      BY <2>2
    <3>2. (x \o y)[n + (i - n)] = y[i - n] /\ y[i - n] = n + (i - n)
      BY <1>1, <1>2, <3>1, Joined
    <3> QED
      BY <3>1, <3>2
  <2>3. i <= n \/ i > n
    OBVIOUS
  <2> QED
    BY <2>1, <2>2, <2>3
<1>6. x \o y = z
  BY <1>3, <1>4, <1>5, SameSeq
<1> QED
  BY <1>6 DEF x, y, z

-----------------------------------------------------------------------------
(* The stream of units.                                                    *)

LEMMA UnitLooks ==
  ASSUME NEW u \in Unit
  PROVE  u[1] \in Nat /\ u[2] \in Nat /\ u[3] \in Nat /\ u[4] \in Nat /\ u = <<u[1], u[2], u[3], u[4]>>
BY DEF Unit

LEMMA BlockAt ==
  ASSUME NEW s, Ordered(s), NEW i \in 1..Len(s), NEW j \in 1..Len(s), NEW l \in 1..s[i][3], j = i - s[i][2] + l
  PROVE  s[j] = <<s[i][1], l, s[i][3], s[i][4]>>
BY DEF Ordered, Block

LEMMA FollowAt ==
  ASSUME NEW s, Ordered(s), NEW i \in 1..Len(s), NEW j \in 1..Len(s), j = i + 1, s[i][2] = s[i][3]
  PROVE  s[j][1] = s[i][1] + 1 /\ s[j][2] = 1 /\ s[j][4] = s[i][4] + (s[i][3] - 3)
BY DEF Ordered, Follow

LEMMA UnitAt ==
  ASSUME NEW s, Ordered(s), NEW i \in 1..Len(s)
  PROVE  /\ s[i] \in Unit /\ GoodUnit(s[i]) /\ i \in Nat /\ Len(s) \in Nat
         /\ s[i][1] \in Nat /\ s[i][2] \in Nat /\ s[i][3] \in Nat /\ s[i][4] \in Nat
<1>1. s[i] \in Unit /\ GoodUnit(s[i])
  BY DEF Ordered
<1>2. i \in Nat /\ Len(s) \in Nat
  BY DEF Ordered
<1>3. s[i][1] \in Nat /\ s[i][2] \in Nat /\ s[i][3] \in Nat /\ s[i][4] \in Nat
  BY <1>1, UnitLooks
<1> QED
  BY <1>1, <1>2, <1>3

(* The two forms of the order, for a sequence whose units are known.       *)
LEMMA OrderedIs ==
  ASSUME NEW s \in Seq(Unit), \A i \in 1..Len(s) : GoodUnit(s[i]),
         \A i, j \in 1..Len(s) : \A l \in 1..s[i][3] :
            j = i - s[i][2] + l => s[j] = <<s[i][1], l, s[i][3], s[i][4]>>,
         \A i, j \in 1..Len(s) : j = i + 1 /\ s[i][2] = s[i][3] =>
            s[j][1] = s[i][1] + 1 /\ s[j][2] = 1 /\ s[j][4] = s[i][4] + (s[i][3] - 3)
  PROVE  Ordered(s)
BY DEF Ordered, Block, Follow

LEMMA OrderedDrop ==
  ASSUME NEW s, Ordered(s), NEW k \in 0..Len(s), NEW d \in Seq(Unit), Len(d) = Len(s) - k,
         \A i \in 1..Len(d) : d[i] = s[i + k]
  PROVE  Ordered(d)
<1>1. Len(s) \in Nat /\ k \in Nat /\ Len(d) \in Nat
  BY DEF Ordered
<1>2. ASSUME NEW i \in 1..Len(d) PROVE i + k \in 1..Len(s) /\ d[i] = s[i + k] /\ i \in Nat /\ d[i] \in Unit
  BY <1>1
<1>3. ASSUME NEW i \in 1..Len(d) PROVE GoodUnit(d[i])
  BY <1>2, UnitAt
<1>4. ASSUME NEW i \in 1..Len(d), NEW j \in 1..Len(d), NEW l \in 1..d[i][3], j = i - d[i][2] + l
      PROVE  d[j] = <<d[i][1], l, d[i][3], d[i][4]>>
  <2> DEFINE I == i + k
             J == j + k
  <2>1. I \in 1..Len(s) /\ J \in 1..Len(s) /\ d[i] = s[I] /\ d[j] = s[J]
    BY <1>2
  <2> HIDE DEF I, J
  <2>2. s[I][2] \in Nat /\ s[I][3] \in Nat /\ i \in Nat /\ j \in Nat /\ l \in 1..s[I][3]
    BY <1>2, <2>1, UnitAt
  <2>3. j = i - s[I][2] + l
    BY <1>4, <2>1
  <2>4. J = I - s[I][2] + l
    <3> DEFINE x == s[I][2]
    <3>1. x \in Nat /\ l \in Nat /\ k \in Nat /\ i \in Nat /\ j \in Nat /\ j = i - x + l
      BY <1>1, <2>2, <2>3
    <3> HIDE DEF x
    <3>2. j + k = (i + k) - x + l
      BY <3>1
    <3> QED
      BY <3>2 DEF I, J, x
  <2>5. s[J] = <<s[I][1], l, s[I][3], s[I][4]>>
    BY <2>1, <2>2, <2>4, BlockAt
  <2> QED
    BY <2>1, <2>5
<1>5. ASSUME NEW i \in 1..Len(d), NEW j \in 1..Len(d), j = i + 1, d[i][2] = d[i][3]
      PROVE  d[j][1] = d[i][1] + 1 /\ d[j][2] = 1 /\ d[j][4] = d[i][4] + (d[i][3] - 3)
  <2> DEFINE I == i + k
             J == j + k
  <2>1. I \in 1..Len(s) /\ J \in 1..Len(s) /\ d[i] = s[I] /\ d[j] = s[J] /\ J = I + 1
    BY <1>1, <1>2, <1>5
  <2> HIDE DEF I, J
  <2>3. s[I][2] = s[I][3]
    BY <1>5, <2>1
  <2>2. s[J][1] = s[I][1] + 1 /\ s[J][2] = 1 /\ s[J][4] = s[I][4] + (s[I][3] - 3)
    BY <2>1, <2>3, FollowAt
  <2> QED
    BY <2>1, <2>2
<1> QED
  BY <1>3, <1>4, <1>5, OrderedIs

LEMMA HeadBlock ==
  ASSUME NEW s, Ordered(s), Len(s) > 0, s[1][2] = 1, NEW i \in 1..Len(s), i <= s[1][3]
  PROVE  s[i] = <<s[1][1], i, s[1][3], s[1][4]>>
<1>1. i \in Nat /\ 1 <= i /\ Len(s) \in Nat
  BY UnitAt
<1>2. 1 \in 1..Len(s)
  BY <1>1
<1>3. s[1][3] \in Nat
  BY <1>2, UnitAt
<1>4. i \in 1..s[1][3] /\ i = 1 - s[1][2] + i
  BY <1>1, <1>3
<1> QED
  BY <1>2, <1>4, BlockAt

(* The bytes of a write that starts a record after a whole one, or that    *)
(* goes on with the record the stream ends in, keep the order.             *)
Extended(s, t, L, n, rec, off, len, base) ==
    /\ n \in Nat /\ rec \in Nat /\ off \in Nat /\ len \in Nat /\ base \in Nat
    /\ 3 <= len /\ len <= MaxFrame /\ off + n <= len /\ n > 0
    /\ t \in Seq(Unit) /\ L \in Nat /\ L = Len(s) /\ Len(t) = L + n
    /\ \A i \in 1..L : t[i] = s[i]
    /\ \A i \in 1..n : t[L + i] = <<rec, off + i, len, base>>
    /\ off > 0 => L > 0 /\ s[L] = <<rec, off, len, base>>
    /\ off = 0 /\ L > 0 => s[L][2] = s[L][3] /\ rec = s[L][1] + 1 /\ base = s[L][4] + (s[L][3] - 3)

LEMMA OrderedAppend ==
  ASSUME NEW s, NEW t, NEW L, NEW n, NEW rec, NEW off, NEW len, NEW base,
         Ordered(s), Extended(s, t, L, n, rec, off, len, base)
  PROVE  Ordered(t)
<1>6. /\ n \in Nat /\ rec \in Nat /\ off \in Nat /\ len \in Nat /\ base \in Nat /\ L \in Nat
      /\ 3 <= len /\ len <= MaxFrame /\ off + n <= len /\ n > 0
  BY DEF Extended
<1>7. t \in Seq(Unit) /\ L = Len(s) /\ Len(t) = L + n
  BY DEF Extended
<1>8. \A i \in 1..n : t[L + i] = <<rec, off + i, len, base>>
  BY DEF Extended
<1>9. off > 0 => L > 0 /\ s[L] = <<rec, off, len, base>>
  BY DEF Extended
<1>10. off = 0 /\ L > 0 => s[L][2] = s[L][3] /\ rec = s[L][1] + 1 /\ base = s[L][4] + (s[L][3] - 3)
  BY DEF Extended
<1>1. ASSUME NEW i \in 1..L PROVE /\ t[i] = s[i] /\ i \in 1..Len(s) /\ GoodUnit(s[i]) /\ i \in Nat /\ s[i][1] \in Nat
                                  /\ s[i][2] \in Nat /\ s[i][3] \in Nat /\ s[i][4] \in Nat
  <2>1. t[i] = s[i]
    BY DEF Extended
  <2>2. i \in 1..Len(s)
    BY <1>7
  <2> QED
    BY <2>1, <2>2, UnitAt
<1>2. ASSUME NEW i \in 1..Len(t), ~(i \in 1..L)
      PROVE  /\ i \in Nat /\ i > L /\ i <= L + n /\ t[i] = <<rec, off + (i - L), len, base>>
             /\ off + (i - L) \in Nat /\ t[i][2] = off + (i - L) /\ t[i][3] = len /\ t[i][1] = rec /\ t[i][4] = base
  <2>1. i \in Nat /\ i > L /\ i <= L + n
    BY <1>2, <1>6, <1>7
  <2> DEFINE d == i - L
  <2>2. d \in 1..n /\ i = L + d /\ off + d \in Nat
    BY <1>6, <2>1
  <2> HIDE DEF d
  <2>3. t[i] = <<rec, off + d, len, base>>
    BY <1>8, <2>2
  <2> QED
    BY <2>1, <2>2, <2>3 DEF d
<1>3. ASSUME NEW i \in 1..Len(t) PROVE GoodUnit(t[i])
  <2>1. CASE i \in 1..L
    BY <1>1, <2>1
  <2>2. CASE ~(i \in 1..L)
    <3>1. t[i][2] = off + (i - L) /\ t[i][3] = len
      BY <1>2, <2>2
    <3>3. i \in Nat /\ i > L /\ i <= L + n
      BY <1>2, <2>2
    <3>2. 1 <= off + (i - L) /\ off + (i - L) <= len
      BY <1>6, <3>3
    <3> QED
      BY <1>6, <3>1, <3>2 DEF GoodUnit
  <2> QED
    BY <2>1, <2>2
<1>4. ASSUME NEW i \in 1..Len(t), NEW j \in 1..Len(t), NEW l \in 1..t[i][3], j = i - t[i][2] + l
      PROVE  t[j] = <<t[i][1], l, t[i][3], t[i][4]>>
  <2>1. CASE i \in 1..L /\ j \in 1..L
    <3>1. t[i] = s[i] /\ t[j] = s[j] /\ i \in 1..Len(s) /\ j \in 1..Len(s)
      BY <1>1, <2>1
    <3>2. l \in 1..s[i][3] /\ j = i - s[i][2] + l
      BY <1>4, <3>1
    <3>3. s[j] = <<s[i][1], l, s[i][3], s[i][4]>>
      BY <3>1, <3>2, BlockAt
    <3> QED
      BY <3>1, <3>3
  <2>2. CASE ~(i \in 1..L) /\ ~(j \in 1..L)
    <3>1. t[i][1] = rec /\ t[i][2] = off + (i - L) /\ t[i][3] = len /\ t[i][4] = base /\ i \in Nat
      BY <1>2, <2>2
    <3>2. t[j] = <<rec, off + (j - L), len, base>> /\ j \in Nat
      BY <1>2, <2>2
    <3>3. l \in 1..len /\ j = i - (off + (i - L)) + l
      BY <1>4, <3>1
    <3>4. l = off + (j - L)
      BY <1>6, <3>1, <3>2, <3>3
    <3> QED
      BY <3>1, <3>2, <3>4
  <2>3. CASE ~(i \in 1..L) /\ j \in 1..L
    <3>0. t[i][1] = rec /\ t[i][2] = off + (i - L) /\ t[i][3] = len /\ t[i][4] = base /\ i \in Nat
      BY <1>2, <2>3
    <3>1. l \in 1..len /\ j = i - (off + (i - L)) + l
      BY <1>4, <3>0
    <3>2. j \in Nat /\ j <= L /\ j >= 1
      BY <1>6, <2>3
    <3>3. j = L - off + l /\ off > 0
      BY <1>6, <3>0, <3>1, <3>2
    <3>4. L \in 1..Len(s) /\ j \in 1..Len(s)
      BY <1>6, <1>7, <3>2
    <3>6. s[L] = <<rec, off, len, base>>
      BY <1>9, <3>3
    <3>7. s[L][1] = rec /\ s[L][2] = off /\ s[L][3] = len /\ s[L][4] = base
      BY <3>6
    <3>8. l \in 1..s[L][3] /\ j = L - s[L][2] + l
      BY <3>1, <3>3, <3>7
    <3>9. s[j] = <<s[L][1], l, s[L][3], s[L][4]>>
      BY <3>4, <3>8, BlockAt
    <3>10. t[j] = s[j]
      BY <1>1, <2>3
    <3> QED
      BY <3>0, <3>7, <3>9, <3>10
  <2>4. CASE i \in 1..L /\ ~(j \in 1..L)
    <3> DEFINE p == s[i][2]
               e == s[i][3]
               q == L - i + p
    <3>1. t[i] = s[i] /\ p \in Nat /\ e \in Nat /\ i \in Nat /\ 1 <= p /\ i \in 1..Len(s) /\ i <= L
      BY <1>1, <1>6, <2>4 DEF GoodUnit
    <3>2. j \in Nat /\ j > L /\ t[j] = <<rec, off + (j - L), len, base>>
      BY <1>2, <2>4
    <3>3. l \in 1..e /\ j = i - p + l
      BY <1>4, <3>1
    <3>4. L \in 1..Len(s)
      BY <1>6, <1>7, <3>1
    <3> HIDE DEF p, e
    <3>5. q \in 1..e /\ q < e /\ L = i - p + q /\ q + (j - L) = l /\ q \in Nat
      BY <1>6, <3>1, <3>2, <3>3
    <3> HIDE DEF q
    <3>6. s[L] = <<s[i][1], q, s[i][3], s[i][4]>>
      BY <3>1, <3>4, <3>5, BlockAt DEF p, e
    <3>7. s[L][2] = q /\ s[L][3] = e
      BY <3>6 DEF e
    <3>8. off > 0
      <4>1. ~(s[L][2] = s[L][3])
        BY <3>1, <3>5, <3>7
      <4>2. L > 0
        BY <1>6, <3>1, <3>4
      <4> QED
        BY <1>6, <1>10, <4>1, <4>2
    <3>9. s[L] = <<rec, off, len, base>>
      BY <1>9, <3>8
    <3>10. s[i][1] = rec /\ q = off /\ s[i][3] = len /\ s[i][4] = base
      BY <3>6, <3>9
    <3>11. off + (j - L) = l
      BY <3>5, <3>10
    <3> QED
      BY <3>1, <3>2, <3>10, <3>11
  <2> QED
    BY <2>1, <2>2, <2>3, <2>4
<1>5. ASSUME NEW i \in 1..Len(t), NEW j \in 1..Len(t), j = i + 1, t[i][2] = t[i][3]
      PROVE  t[j][1] = t[i][1] + 1 /\ t[j][2] = 1 /\ t[j][4] = t[i][4] + (t[i][3] - 3)
  <2>4. L + n \in Nat /\ i \in 1..(L + n) /\ j \in 1..(L + n)
    BY <1>6, <1>7
  <2>0. i \in Nat /\ j \in Nat /\ 1 <= i
    BY <2>4
  <2>1. CASE j \in 1..L
    <3>1. i \in 1..L
      BY <1>5, <1>6, <2>0, <2>1
    <3>2. t[i] = s[i] /\ t[j] = s[j] /\ i \in 1..Len(s) /\ j \in 1..Len(s)
      BY <1>1, <2>1, <3>1
    <3>4. s[i][2] = s[i][3]
      BY <1>5, <3>2
    <3>3. s[j][1] = s[i][1] + 1 /\ s[j][2] = 1 /\ s[j][4] = s[i][4] + (s[i][3] - 3)
      BY <1>5, <3>2, <3>4, FollowAt
    <3> QED
      BY <3>2, <3>3
  <2>2. CASE i \in 1..L /\ ~(j \in 1..L)
    <3>0. j > L /\ t[j][1] = rec /\ t[j][2] = off + (j - L) /\ t[j][4] = base
      BY <1>2, <2>2
    <3>1. i = L /\ j - L = 1 /\ L > 0
      BY <1>5, <1>6, <2>0, <2>2, <3>0
    <3>2. t[i] = s[L]
      BY <1>1, <2>2, <3>1
    <3>3. off = 0
      <4>1. SUFFICES ASSUME off > 0 PROVE FALSE
        BY <1>6
      <4>2. t[i] = <<rec, off, len, base>>
        BY <1>9, <3>2, <4>1
      <4>3. off = len
        BY <1>5, <4>2
      <4> QED
        BY <1>6, <4>3
    <3>4. rec = s[L][1] + 1 /\ base = s[L][4] + (s[L][3] - 3)
      BY <1>10, <3>1, <3>3
    <3>5. t[j][2] = 1
      BY <3>0, <3>1, <3>3
    <3> QED
      BY <3>0, <3>2, <3>4, <3>5
  <2>3. CASE ~(i \in 1..L)
    <3>0. i > L /\ t[i][2] = off + (i - L) /\ t[i][3] = len
      BY <1>2, <2>3
    <3>1. j <= L + n
      BY <1>6, <1>7
    <3>2. off + (i - L) = len
      BY <1>5, <3>0
    <3> QED
      BY <1>5, <1>6, <2>0, <3>0, <3>1, <3>2
  <2> QED
    BY <2>1, <2>2, <2>3
<1> QED
  BY <1>3, <1>4, <1>5, <1>7, OrderedIs

-----------------------------------------------------------------------------
(* What the reader has before it.                                          *)

(* A buffer sc used up to st and what follows it in the pipe: U is unused, *)
(* and A is all that is ahead.                                             *)
Buffer(sc, st, wi, U, A) ==
    /\ sc \in Seq(Unit) /\ st \in 0..Len(sc) /\ wi \in Seq(Unit)
    /\ U = SubSeq(sc, st + 1, Len(sc)) /\ A = U \o wi
BufferParts(sc, st, wi, U, A) ==
    /\ U \in Seq(Unit) /\ Len(U) = Len(sc) - st /\ Len(U) \in Nat
    /\ \A i \in 1..Len(U) : U[i] = sc[i + st]
    /\ wi \in Seq(Unit) /\ Len(wi) \in Nat
    /\ A \in Seq(Unit) /\ Len(A) = Len(U) + Len(wi) /\ Len(A) \in Nat
    /\ \A i \in 1..Len(U) : A[i] = U[i]
    /\ \A i \in 1..Len(wi) : A[Len(U) + i] = wi[i]

LEMMA BufferLooks ==
  ASSUME NEW sc, NEW st, NEW wi, NEW U, NEW A, Buffer(sc, st, wi, U, A)
  PROVE  BufferParts(sc, st, wi, U, A)
<1>1. sc \in Seq(Unit) /\ st \in 0..Len(sc) /\ wi \in Seq(Unit)
  BY DEF Buffer
<1>2. /\ U \in Seq(Unit) /\ Len(U) = Len(sc) - st
      /\ \A i \in 1..Len(U) : U[i] = sc[i + st]
  BY <1>1, Dropped1 DEF Buffer
<1>3. U \in Seq(Unit) /\ A = U \o wi
  BY <1>2 DEF Buffer
<1>4. A \in Seq(Unit) /\ Len(A) = Len(U) + Len(wi)
  BY <1>1, <1>3
<1>5. \A i \in 1..Len(U) : A[i] = U[i]
  BY <1>1, <1>3
<1>6. \A i \in 1..Len(wi) : A[Len(U) + i] = wi[i]
  BY <1>1, <1>3
<1>7. Len(U) \in Nat /\ Len(wi) \in Nat /\ Len(A) \in Nat
  BY <1>1, <1>3, <1>4
<1> QED
  BY <1>1, <1>2, <1>4, <1>5, <1>6, <1>7 DEF BufferParts

LEMMA AheadLooks ==
  ASSUME HsOk, ReadOk
  PROVE  /\ Unserved \in Seq(Unit) /\ Len(Unserved) = Len(scratch) - start /\ Len(Unserved) \in Nat
         /\ \A i \in 1..Len(Unserved) : Unserved[i] = scratch[i + start]
         /\ Wire \in Seq(Unit) /\ Len(Wire) \in Nat
         /\ Ahead \in Seq(Unit) /\ Len(Ahead) = Len(Unserved) + Len(Wire) /\ Len(Ahead) \in Nat
         /\ \A i \in 1..Len(Unserved) : Ahead[i] = Unserved[i]
         /\ \A i \in 1..Len(Wire) : Ahead[Len(Unserved) + i] = Wire[i]
<1>1. scratch \in Seq(Unit) /\ start \in 0..Len(scratch)
  BY DEF ReadOk
<1>3. link["snd"] \in Seq(Unit) /\ (HsPending => link["snd"] # <<>>)
  BY DEF HsOk, Ends
<1>4. Wire \in Seq(Unit)
  BY <1>3 DEF Wire
<1>5. Buffer(scratch, start, Wire, Unserved, Ahead)
  BY <1>1, <1>4 DEF Unserved, Ahead, Buffer
<1>6. BufferParts(scratch, start, Wire, Unserved, Ahead)
  BY <1>5, BufferLooks
<1> QED
  BY <1>6 DEF BufferParts

LEMMA HsKeeps ==
  ASSUME NoiseInv, HsOk', Wire' = Wire, UNCHANGED <<writeVars, readVars>>, fin \subseteq fin',
         "snd" \in fin' => w = NoWrite
  PROVE  NoiseInv'
<1>1. /\ UNCHANGED <<w, records, accepted>>
      /\ UNCHANGED <<r, scratch, start, expected, payload, opened, got>>
  BY DEF writeVars, readVars
<1>2. Unserved' = Unserved
  BY <1>1 DEF Unserved
<1>3. Ahead' = Ahead /\ Delivered' = Delivered /\ Done' = Done
  BY <1>1, <1>2 DEF Ahead, Delivered, Done
<1>4. WriteOk'
  BY <1>1 DEF NoiseInv, WriteOk
<1>5. ReadOk'
  BY <1>1, <1>2 DEF NoiseInv, ReadOk
<1>6. FrontOk'
  BY <1>1, <1>3 DEF NoiseInv, FrontOk
<1>7. BackOk'
  <2>2. Ahead[Len(Ahead)]' = Ahead[Len(Ahead)]
    BY <1>3
  <2>3. Ahead # <<>> => BackAt(Ahead[Len(Ahead)])'
    <3>1. Ahead # <<>> => BackAt(Ahead[Len(Ahead)])
      BY DEF NoiseInv, BackOk
    <3> QED
      BY <1>1, <1>3, <2>2, <3>1 DEF BackAt
  <2> QED
    BY <1>1, <1>3, <2>3 DEF NoiseInv, BackOk
<1>8. InStep' /\ EndIsReal'
  BY <1>1, <1>3 DEF NoiseInv, InStep, EndIsReal
<1> QED
  BY <1>4, <1>5, <1>6, <1>7, <1>8 DEF NoiseInv

LEMMA NoiseStarts == NoiseInit => NoiseInv
<1> SUFFICES ASSUME NoiseInit PROVE NoiseInv
  OBVIOUS
<1>1. /\ first \in Ends /\ stage = [e \in Ends |-> "hs"] /\ sent = 0 /\ took = 0
      /\ link = [e \in Ends |-> <<>>] /\ fin = {} /\ w = NoWrite /\ records = 0 /\ accepted = 0
      /\ r = "record" /\ scratch = <<>> /\ start = 0 /\ expected = 0
      /\ payload = <<>> /\ opened = 0 /\ got = <<>>
  BY DEF NoiseInit, KeysInit, WriteInit, ReadInit
<1>2. ~HsPending /\ Wire = <<>>
  BY <1>1 DEF HsPending, Wire, Ends
<1>3. HsOk
  BY <1>1, <1>2 DEF HsOk, Ends
<1>4. ReadOk
  BY <1>1, FrameNumbers DEF ReadOk
<1>5. WriteOk
  BY <1>1, FrameNumbers DEF WriteOk
<1>6. Ahead = <<>> /\ Len(Ahead) = 0 /\ Ahead \in Seq(Unit)
  BY <1>1, <1>2, <1>3, <1>4, AheadLooks
<1>7. FrontOk
  BY <1>6 DEF FrontOk, Ordered, Block, Follow
<1>8. Delivered = 0
  BY <1>1 DEF Delivered
<1>9. BackOk
  BY <1>1, <1>6, <1>8 DEF BackOk, Done
<1>10. InStep /\ EndIsReal
  <2>1. Bytes(0, 0) = <<>>
    BY DEF Bytes
  <2> QED
    BY <1>1, <1>8, <2>1 DEF InStep, EndIsReal
<1> QED
  BY <1>3, <1>4, <1>5, <1>7, <1>9, <1>10 DEF NoiseInv

-----------------------------------------------------------------------------
(* The handshake.                                                          *)

LEMMA HsWriteKeeps == ASSUME NoiseInv, HsWrite PROVE NoiseInv'
<1>1. /\ sent = took /\ sent < 2 /\ stage[Turn] = "hs" /\ sent' = sent + 1 /\ took' = took
      /\ link' = [link EXCEPT ![Turn] = Append(@, HsUnit)]
      /\ stage' = [stage EXCEPT ![Turn] = IF sent' = 2 THEN "open" ELSE @]
      /\ UNCHANGED <<first, fin>> /\ UNCHANGED <<writeVars, readVars>> /\ UNCHANGED <<w, records>>
  BY DEF HsWrite, writeVars
<1>2. HsOk /\ WriteOk
  BY DEF NoiseInv
<1>3. Turn \in Ends /\ Author' = Turn /\ sent \in Nat
  BY <1>1, <1>2 DEF Turn, Author, HsOk, Ends, Peer
<1>4. HsUnit \in Unit
  BY DEF HsUnit, Unit
<1>5. ~HsPending /\ (HsPending' <=> Turn = "snd")
  BY <1>1, <1>3 DEF HsPending
<1>6. link \in [Ends -> Seq(Unit)] /\ stage \in [Ends -> {"hs", "open", "failed"}] /\ Wire = link["snd"]
  BY <1>2, <1>5 DEF HsOk, Wire
<1>7. link' \in [Ends -> Seq(Unit)] /\ link'[Turn] = Append(link[Turn], HsUnit)
  BY <1>1, <1>3, <1>4, <1>6
<1>8. Wire' = Wire /\ (HsPending' => link'["snd"] # <<>>)
  <2>1. CASE Turn = "snd"
    <3>1. link["snd"] = <<>>
      BY <1>1, <1>2, <1>6, <2>1 DEF HsOk
    <3>2. link'["snd"] = <<HsUnit>>
      BY <1>7, <2>1, <3>1
    <3> QED
      BY <1>5, <1>6, <2>1, <3>1, <3>2 DEF Wire
  <2>2. CASE Turn # "snd"
    <3>1. link'["snd"] = link["snd"]
      BY <1>1, <1>6, <2>2 DEF Ends
    <3> QED
      BY <1>5, <1>6, <2>2, <3>1 DEF Wire
  <2> QED
    BY <2>1, <2>2
<1>9. HsOk'
  <2>1. stage' \in [Ends -> {"hs", "open", "failed"}]
    BY <1>1, <1>3, <1>6
  <2>2. stage'["rcv"] = "open" => sent' = 2 /\ ~HsPending'
    <3>1. stage["rcv"] # "open"
      BY <1>1, <1>2 DEF HsOk
    <3>2. stage'["rcv"] = "open" => Turn = "rcv" /\ sent' = 2
      BY <1>1, <1>3, <1>6, <3>1 DEF Ends
    <3> QED
      BY <1>5, <3>2
  <2>3. stage'["snd"] # "open" => stage["snd"] # "open"
    BY <1>1, <1>3, <1>6 DEF Ends
  <2>4. sent' \in 0..2 /\ took' \in 0..2 /\ took' <= sent' /\ sent' <= took' + 1
    BY <1>1, <1>2 DEF HsOk
  <2> QED
    BY <1>1, <1>2, <1>7, <1>8, <2>1, <2>2, <2>3, <2>4 DEF HsOk
<1> QED
  BY <1>1, <1>2, <1>8, <1>9, HsKeeps DEF WriteOk

LEMMA HsReadKeeps == ASSUME NoiseInv, HsRead PROVE NoiseInv'
<1> DEFINE e == Peer(Author)
<1>1. /\ took < sent /\ stage[e] = "hs" /\ link[Author] # <<>> /\ took' = took + 1 /\ sent' = sent
      /\ link' = [link EXCEPT ![Author] = Tail(@)]
      /\ UNCHANGED <<first, sent>> /\ UNCHANGED <<writeVars, readVars>> /\ UNCHANGED <<w, records>>
      /\ \/ stage' = [stage EXCEPT ![e] = IF took' = 2 THEN "open" ELSE @] /\ fin' = fin
         \/ stage' = [stage EXCEPT ![e] = "failed"] /\ fin' = fin \cup {e}
  BY DEF HsRead, writeVars, HsFails
<1>2. HsOk /\ WriteOk
  BY DEF NoiseInv
<1>3. Author \in Ends /\ e \in Ends /\ sent \in Nat /\ took \in Nat /\ sent = took + 1
  BY <1>1, <1>2 DEF Author, HsOk, Ends, Peer
<1> HIDE DEF e
<1>5. (HsPending <=> Author = "snd") /\ ~HsPending'
  BY <1>1, <1>3 DEF HsPending
<1>6. link \in [Ends -> Seq(Unit)] /\ stage \in [Ends -> {"hs", "open", "failed"}]
  BY <1>2 DEF HsOk
<1>7. link' \in [Ends -> Seq(Unit)] /\ link'[Author] = Tail(link[Author])
  BY <1>1, <1>3, <1>6
<1>8. Wire' = Wire
  <2>1. CASE Author = "snd"
    BY <1>5, <1>7, <2>1 DEF Wire
  <2>2. CASE Author # "snd"
    <3>1. link'["snd"] = link["snd"]
      BY <1>1, <1>6, <2>2 DEF Ends
    <3> QED
      BY <1>5, <2>2, <3>1 DEF Wire
  <2> QED
    BY <2>1, <2>2
<1>10. fin \subseteq fin' /\ fin' \subseteq Ends /\ ("snd" \in fin' => w = NoWrite)
  <2>1. stage["snd"] = "hs" => w = NoWrite
    BY <1>2 DEF HsOk
  <2>2. "snd" \in fin => w = NoWrite
    BY <1>2 DEF WriteOk
  <2> QED
    BY <1>1, <1>2, <1>3, <2>1, <2>2 DEF HsOk
<1>9. HsOk'
  <2>1. stage' \in [Ends -> {"hs", "open", "failed"}]
    BY <1>1, <1>3, <1>6
  <2>2. stage'["rcv"] = "open" => sent' = 2 /\ ~HsPending'
    <3>1. stage["rcv"] = "open" => sent = 2
      BY <1>2 DEF HsOk
    <3>2. stage'["rcv"] = "open" => stage["rcv"] = "open" \/ took' = 2
      BY <1>1, <1>3, <1>6 DEF Ends
    <3> QED
      BY <1>1, <1>3, <1>5, <3>1, <3>2
  <2>3. stage'["snd"] # "open" => stage["snd"] # "open"
    BY <1>1, <1>3, <1>6 DEF Ends
  <2>4. sent' \in 0..2 /\ took' \in 0..2 /\ took' <= sent' /\ sent' <= took' + 1
    BY <1>1, <1>2, <1>3 DEF HsOk
  <2> QED
    BY <1>1, <1>2, <1>5, <1>7, <1>8, <1>10, <2>1, <2>2, <2>3, <2>4 DEF HsOk
<1> QED
  BY <1>1, <1>8, <1>9, <1>10, HsKeeps

LEMMA HsDroppedKeeps == ASSUME NoiseInv, NEW e \in Ends, HsDropped(e) PROVE NoiseInv'
<1>1. /\ stage[e] = "hs" /\ stage' = [stage EXCEPT ![e] = "failed"] /\ fin' = fin \cup {e}
      /\ UNCHANGED <<first, sent, took, link>> /\ UNCHANGED <<writeVars, readVars>> /\ UNCHANGED <<w, records>>
  BY DEF HsDropped, HsFails, writeVars
<1>2. HsOk /\ WriteOk
  BY DEF NoiseInv
<1>3. HsPending' = HsPending /\ Wire' = Wire
  BY <1>1 DEF HsPending, Author, Wire
<1>4. stage \in [Ends -> {"hs", "open", "failed"}]
  BY <1>2 DEF HsOk
<1>5. fin \subseteq fin' /\ fin' \subseteq Ends /\ ("snd" \in fin' => w = NoWrite)
  <2>1. stage["snd"] = "hs" => w = NoWrite
    BY <1>2 DEF HsOk
  <2>2. "snd" \in fin => w = NoWrite
    BY <1>2 DEF WriteOk
  <2> QED
    BY <1>1, <1>2, <2>1, <2>2 DEF HsOk
<1>6. HsOk'
  <2>1. stage' \in [Ends -> {"hs", "open", "failed"}]
    BY <1>1, <1>4
  <2>2. stage'["rcv"] = "open" => stage["rcv"] = "open"
    BY <1>1, <1>4 DEF Ends
  <2>3. stage'["snd"] # "open" => stage["snd"] # "open"
    BY <1>1, <1>4 DEF Ends
  <2> QED
    BY <1>1, <1>2, <1>3, <1>5, <2>1, <2>2, <2>3 DEF HsOk
<1> QED
  BY <1>1, <1>3, <1>5, <1>6, HsKeeps

-----------------------------------------------------------------------------
(* Writing.                                                                *)

LEMMA EncryptKeeps == ASSUME NoiseInv, NEW n \in 0..MaxMessage, Encrypt(n) PROVE NoiseInv'
<1> DEFINE p == PayloadLen(n)
<1>1. /\ stage["snd"] = "open" /\ "snd" \notin fin /\ w = NoWrite /\ records < MaxRecords /\ accepted + p <= MaxWritten
      /\ records' = records + 1
      /\ w' = [rec |-> records + 1, off |-> 0, len |-> LengthField + p + TagLen, base |-> accepted]
      /\ UNCHANGED <<first, stage, sent, took, link, fin, accepted>>
      /\ UNCHANGED <<r, scratch, start, expected, payload, opened, got>>
  BY DEF Encrypt, handshakeVars, readVars
<1>2. p \in Nat /\ p <= MaxMessage - 1
  <2>1. n \in Int /\ MaxMessage - TagLen \in Int
    BY FrameNumbers DEF TagLen
  <2>2. p \in {n, MaxMessage - TagLen} /\ p <= MaxMessage - TagLen
    BY <2>1, MinOfTwo DEF PayloadLen
  <2> QED
    BY <2>2, FrameNumbers DEF TagLen
<1> HIDE DEF p
<1>3. HsOk /\ WriteOk
  BY DEF NoiseInv
<1>4. records \in Nat /\ accepted \in Nat /\ accepted <= MaxWritten
  BY <1>3, FrameNumbers DEF WriteOk
<1> DEFINE m == LengthField + p + TagLen
<1>5. m \in 3..MaxFrame /\ m - 3 = p /\ 0 < m
  BY <1>2, FrameNumbers DEF LengthField, TagLen
<1>16. w' = [rec |-> records + 1, off |-> 0, len |-> m, base |-> accepted]
  BY <1>1
<1> HIDE DEF m
<1>6. w' \in Writes /\ w'.rec = records' /\ w'.off = 0 /\ w'.off < w'.len /\ w'.base = accepted /\ w'.len - 3 = p
  <2>3. records + 1 \in Nat \ {0}
    BY <1>4
  <2>4. w' \in Writes
    BY <1>4, <1>5, <1>16, <2>3 DEF Writes
  <2> QED
    BY <1>1, <1>5, <1>16, <2>4
<1>7. w' # NoWrite
  <2>1. w'.rec # NoWrite.rec
    BY <1>1, <1>4 DEF NoWrite
  <2> QED
    BY <2>1
<1>8. WriteOk'
  BY <1>1, <1>3, <1>4, <1>6, <1>7, FrameNumbers DEF WriteOk
<1>9. Unserved' = Unserved /\ Wire' = Wire /\ HsPending' = HsPending
  BY <1>1 DEF Unserved, Wire, HsPending, Author
<1>10. Ahead' = Ahead /\ Delivered' = Delivered /\ Done' = records /\ Done = records
  BY <1>1, <1>4, <1>7, <1>9 DEF Ahead, Delivered, Done
<1>11. HsOk'
  BY <1>1, <1>3, <1>9 DEF HsOk
<1>12. ReadOk'
  BY <1>1, <1>9 DEF NoiseInv, ReadOk
<1>13. FrontOk'
  BY <1>1, <1>10 DEF NoiseInv, FrontOk
<1>14. BackOk'
  <2>1. Ahead # <<>> => BackAt(Ahead[Len(Ahead)])
    BY DEF NoiseInv, BackOk
  <2>2. Ahead # <<>> => BackAt(Ahead[Len(Ahead)])'
    BY <1>1, <1>6, <1>10, <2>1 DEF BackAt
  <2> QED
    BY <1>1, <1>6, <1>10, <2>2 DEF NoiseInv, BackOk
<1>15. InStep' /\ EndIsReal'
  BY <1>1, <1>10 DEF NoiseInv, InStep, EndIsReal
<1> QED
  BY <1>8, <1>11, <1>12, <1>13, <1>14, <1>15 DEF NoiseInv

LEMMA ShutdownKeeps == ASSUME NoiseInv, Shutdown PROVE NoiseInv'
<1>1. /\ stage["snd"] = "open" /\ "snd" \notin fin /\ fin' = fin \cup {"snd"} /\ w' = NoWrite
      /\ UNCHANGED <<first, stage, sent, took, link, records, accepted>>
      /\ UNCHANGED <<r, scratch, start, expected, payload, opened, got>>
  BY DEF Shutdown, handshakeVars, readVars
<1>2. HsOk /\ WriteOk /\ ReadOk /\ BackOk /\ Ordered(Ahead)
  BY DEF NoiseInv, FrontOk
<1>3. Unserved' = Unserved /\ Wire' = Wire /\ HsPending' = HsPending
  BY <1>1 DEF Unserved, Wire, HsPending, Author
<1>4. Ahead' = Ahead /\ Delivered' = Delivered
  BY <1>1, <1>3 DEF Ahead, Delivered
<1>5. HsOk' /\ WriteOk'
  BY <1>1, <1>2, <1>3 DEF HsOk, WriteOk, Ends
<1>6. ReadOk' /\ FrontOk'
  BY <1>1, <1>3, <1>4 DEF NoiseInv, ReadOk, FrontOk
<1>7. BackOk'
  <2>1. ASSUME Ahead # <<>> PROVE BackAt(Ahead[Len(Ahead)])'
    <3> DEFINE u == Ahead[Len(Ahead)]
    <3>1. BackAt(u)
      BY <1>2, <2>1 DEF BackOk
    <3>2. Len(Ahead) \in 1..Len(Ahead)
      BY <1>2, <2>1, AheadLooks
    <3>3. u[2] \in Nat /\ u[3] \in Nat
      BY <1>2, <3>2, UnitAt
    <3> HIDE DEF u
    <3>4. CASE w # NoWrite /\ w.off > 0
      <4>1. u = <<w.rec, w.off, w.len, w.base>>
        BY <3>1, <3>4 DEF BackAt
      <4>2. w.off < w.len /\ w.base = accepted
        BY <1>2, <3>4 DEF WriteOk
      <4>3. u[2] < u[3] /\ u[4] = accepted
        BY <4>1, <4>2
      <4>4. ~(u[2] = u[3])
        BY <3>3, <4>3
      <4>5. BackAt(u)'
        BY <1>1, <1>4, <4>3, <4>4 DEF BackAt, u
      <4> QED
        BY <1>4, <4>5 DEF u
    <3>5. CASE ~(w # NoWrite /\ w.off > 0)
      <4>1. /\ u[2] = u[3] => u[4] + (u[3] - 3) = accepted
            /\ u[2] < u[3] => u[4] = accepted
        BY <3>1, <3>5 DEF BackAt
      <4>5. BackAt(u)'
        BY <1>1, <1>4, <4>1 DEF BackAt, u
      <4> QED
        BY <1>4, <4>5 DEF u
    <3> QED
      BY <3>4, <3>5
  <2> QED
    BY <1>1, <1>2, <1>4, <2>1 DEF BackOk
<1>8. InStep' /\ EndIsReal'
  BY <1>1, <1>4 DEF NoiseInv, InStep, EndIsReal
<1> QED
  BY <1>5, <1>6, <1>7, <1>8 DEF NoiseInv

LEMMA PushKeeps == ASSUME NoiseInv, NEW n \in 1..MaxFrame, Push(n) PROVE NoiseInv'
<1> DEFINE units == NoiseUnits(w, w.off, n)
<1>1. /\ w # NoWrite /\ "snd" \notin fin /\ n <= Min({w.len - w.off, PipeCap - Len(link["snd"])})
      /\ link' = [link EXCEPT !["snd"] = @ \o units]
      /\ \/ w.off + n = w.len /\ w' = NoWrite /\ accepted' = accepted + (w.len - 3)
         \/ w.off + n # w.len /\ w' = [w EXCEPT !.off = w.off + n] /\ accepted' = accepted
      /\ UNCHANGED <<first, stage, sent, took, fin, records>>
      /\ UNCHANGED <<r, scratch, start, expected, payload, opened, got>>
  <2>1. \A x \in Int : x - LengthField - TagLen = x - 3
    BY DEF LengthField, TagLen
  <2>2. w # NoWrite => w.len \in Int
    BY DEF NoiseInv, WriteOk, Writes
  <2> QED
    BY <2>1, <2>2 DEF Push, Resumed, handshakeVars, readVars
<1>2. HsOk /\ WriteOk /\ ReadOk /\ FrontOk /\ BackOk /\ Ordered(Ahead)
  BY DEF NoiseInv, FrontOk
<1>3. /\ w \in Writes /\ w.rec = records /\ w.off < w.len /\ w.base = accepted /\ accepted + (w.len - 3) <= MaxWritten
      /\ records \in Nat /\ accepted \in Nat
  BY <1>1, <1>2, FrameNumbers DEF WriteOk
<1>4. w.rec \in Nat /\ w.rec > 0 /\ w.off \in Nat /\ w.len \in Nat /\ w.base \in Nat /\ 3 <= w.len /\ w.len <= MaxFrame
  BY <1>3, FrameNumbers DEF Writes
<1>5. link["snd"] \in Seq(Unit) /\ link \in [Ends -> Seq(Unit)] /\ (HsPending => link["snd"] # <<>>)
  BY <1>2 DEF HsOk, Ends
<1>6. n \in Nat /\ n > 0 /\ w.off + n <= w.len
  <2>1. w.len - w.off \in Int /\ PipeCap - Len(link["snd"]) \in Int
    BY <1>4, <1>5, FrameNumbers
  <2>2. Min({w.len - w.off, PipeCap - Len(link["snd"])}) <= w.len - w.off /\ Min({w.len - w.off, PipeCap - Len(link["snd"])}) \in Int
    BY <2>1, MinOfTwo
  <2> QED
    BY <1>1, <1>4, <2>1, <2>2
<1>7. units \in Seq(Unit) /\ Len(units) = n /\ \A i \in 1..n : units[i] = <<w.rec, w.off + i, w.len, w.base>>
  <2>1. ASSUME NEW i \in 1..n PROVE <<w.rec, w.off + i, w.len, w.base>> \in Unit
    BY <1>4, <1>6 DEF Unit
  <2> QED
    BY <1>6, <2>1 DEF NoiseUnits
<1> HIDE DEF units
<1>8. HsPending' = HsPending /\ stage["snd"] = "open"
  BY <1>1, <1>2 DEF HsPending, Author, HsOk
<1>9. link'["snd"] = link["snd"] \o units /\ link' \in [Ends -> Seq(Unit)]
  BY <1>1, <1>5, <1>7 DEF Ends
<1>10. Wire \in Seq(Unit) /\ Wire' = Wire \o units /\ (HsPending' => link'["snd"] # <<>>)
  <2>1. CASE HsPending
    <3>1. link["snd"] # <<>>
      BY <1>5, <2>1
    <3>2. Tail(link["snd"]) \in Seq(Unit) /\ Tail(link["snd"] \o units) = Tail(link["snd"]) \o units
      BY <1>5, <1>7, <3>1, TailJoined
    <3>3. link["snd"] \o units # <<>>
      BY <1>5, <1>7, <3>1
    <3> QED
      BY <1>8, <1>9, <2>1, <3>2, <3>3 DEF Wire
  <2>2. CASE ~HsPending
    BY <1>5, <1>8, <1>9, <2>2 DEF Wire
  <2> QED
    BY <2>1, <2>2
<1>11. HsOk'
  BY <1>1, <1>2, <1>8, <1>9, <1>10 DEF HsOk
<1>12. Unserved' = Unserved
  BY <1>1 DEF Unserved
<1>13. Ahead' = Ahead \o units
  <2>1. Unserved \in Seq(Unit) /\ Wire \in Seq(Unit) /\ units \in Seq(Unit)
    BY <1>2, <1>7, <1>10, AheadLooks
  <2>2. Unserved \o (Wire \o units) = (Unserved \o Wire) \o units
    BY <2>1, UnitsJoin
  <2> QED
    BY <1>10, <1>12, <2>2 DEF Ahead
<1> DEFINE L == Len(Ahead)
           s == Ahead
           t == Ahead'
<1>14. s \in Seq(Unit) /\ L \in Nat
  BY <1>2, AheadLooks
<1> HIDE DEF s, t, L
<1>15. /\ t \in Seq(Unit) /\ Len(t) = L + n /\ (\A i \in 1..L : t[i] = s[i])
       /\ \A i \in 1..n : t[L + i] = <<w.rec, w.off + i, w.len, w.base>>
  <2>1. \A x, y \in Seq(Unit) : /\ x \o y \in Seq(Unit) /\ Len(x \o y) = Len(x) + Len(y)
                                /\ \A i \in 1..Len(x) : (x \o y)[i] = x[i]
                                /\ \A i \in 1..Len(y) : (x \o y)[Len(x) + i] = y[i]
    BY Joined
  <2>2. t = s \o units /\ L = Len(s)
    BY <1>13 DEF t, s, L
  <2> QED
    BY <1>7, <1>14, <2>1, <2>2
<1>16. w.off > 0 => L > 0 /\ s[L] = <<w.rec, w.off, w.len, w.base>>
  <2> SUFFICES ASSUME w.off > 0 PROVE L > 0 /\ s[L] = <<w.rec, w.off, w.len, w.base>>
    OBVIOUS
  <2>1. Ahead # <<>>
    BY <1>1, <1>2, <1>4 DEF BackOk
  <2>2. L > 0
    BY <1>14, <2>1 DEF s, L
  <2> QED
    BY <1>1, <1>2, <2>1, <2>2 DEF BackOk, BackAt, s, L
<1>17. w.off = 0 /\ L > 0 => s[L][2] = s[L][3] /\ w.rec = s[L][1] + 1 /\ w.base = s[L][4] + (s[L][3] - 3)
  <2> SUFFICES ASSUME w.off = 0, L > 0
               PROVE  s[L][2] = s[L][3] /\ w.rec = s[L][1] + 1 /\ w.base = s[L][4] + (s[L][3] - 3)
    OBVIOUS
  <2>1. Ahead # <<>>
    BY DEF L
  <2>2. BackAt(s[L])
    BY <1>2, <2>1 DEF BackOk, s, L
  <2>3. s[L][2] = s[L][3] /\ s[L][1] = Done /\ s[L][4] + (s[L][3] - 3) = accepted
    BY <1>1, <2>2 DEF BackAt
  <2>4. Done = records - 1
    BY <1>1 DEF Done
  <2> QED
    BY <1>3, <2>3, <2>4
<1>18. Ordered(t)
  <2>1. Ordered(s) /\ L = Len(s)
    BY <1>2 DEF s, L
  <2> DEFINE rec == w.rec
             off == w.off
             len == w.len
             base == w.base
  <2>2. rec \in Nat /\ off \in Nat /\ len \in Nat /\ base \in Nat /\ 3 <= len /\ len <= MaxFrame /\ off + n <= len
    BY <1>4, <1>6
  <2>3. \A i \in 1..n : t[L + i] = <<rec, off + i, len, base>>
    BY <1>15
  <2>4. off > 0 => L > 0 /\ s[L] = <<rec, off, len, base>>
    BY <1>16
  <2>5. off = 0 /\ L > 0 => s[L][2] = s[L][3] /\ rec = s[L][1] + 1 /\ base = s[L][4] + (s[L][3] - 3)
    BY <1>17
  <2>6. t \in Seq(Unit) /\ Len(t) = L + n /\ (\A i \in 1..L : t[i] = s[i])
    BY <1>15
  <2> HIDE DEF rec, off, len, base
  <2> QED
    <3>1. Extended(s, t, L, n, rec, off, len, base)
      BY <1>6, <1>14, <2>1, <2>2, <2>3, <2>4, <2>5, <2>6 DEF Extended
    <3> QED
      BY <2>1, <3>1, OrderedAppend
<1>19. Delivered' = Delivered /\ Delivered \in Nat
  BY <1>1, <1>2 DEF Delivered, ReadOk
<1>20. FrontOk'
  <2>1. t[1][1] = opened + 1 /\ t[1][2] = 1 /\ t[1][4] = Delivered
    <3>1. CASE L > 0
      <4>1. t[1] = s[1]
        BY <1>14, <1>15, <3>1
      <4>2. Ahead # <<>>
        BY <3>1 DEF L
      <4> QED
        BY <1>2, <4>1, <4>2 DEF FrontOk, s
    <3>2. CASE ~(L > 0)
      <4>1. L = 0 /\ w.off = 0
        BY <1>4, <1>14, <1>16, <3>2
      <4>2. t[1] = <<w.rec, w.off + 1, w.len, w.base>>
        BY <1>6, <1>15, <4>1
      <4>3. Ahead = <<>>
        BY <1>14, <4>1 DEF s, L
      <4>4. opened = Done /\ Delivered = accepted
        BY <1>1, <1>2, <4>3 DEF BackOk
      <4>5. Done = records - 1
        BY <1>1 DEF Done
      <4> QED
        BY <1>3, <4>1, <4>2, <4>4, <4>5
    <3> QED
      BY <3>1, <3>2
  <2> QED
    BY <1>1, <1>18, <1>19, <2>1 DEF FrontOk, t
<1>21. BackOk'
  <2>1. Len(t) = L + n /\ t[Len(t)] = <<w.rec, w.off + n, w.len, w.base>> /\ t # <<>>
    BY <1>6, <1>14, <1>15
  <2> DEFINE u == Ahead'[Len(Ahead')]
  <2>2. u = <<w.rec, w.off + n, w.len, w.base>>
    BY <2>1 DEF t
  <2> HIDE DEF u
  <2>3. u[1] = w.rec /\ u[2] = w.off + n /\ u[3] = w.len /\ u[4] = w.base
    BY <2>2
  <2>4. CASE w.off + n = w.len
    <3>1. w' = NoWrite /\ accepted' = accepted + (w.len - 3) /\ Done' = records
      BY <1>1, <2>4 DEF Done
    <3>2. /\ u[2] = u[3] /\ u[1] = Done' /\ u[4] + (u[3] - 3) = accepted' /\ ~(u[2] < u[3])
      BY <1>3, <1>4, <2>3, <2>4, <3>1
    <3>3. BackAt(Ahead[Len(Ahead)])'
      BY <1>1, <3>1, <3>2 DEF BackAt, u
    <3> QED
      BY <2>1, <3>3 DEF BackOk, t
  <2>5. CASE w.off + n # w.len
    <3>1. w' = [w EXCEPT !.off = w.off + n]
      BY <1>1, <2>5
    <3>2. w'.rec = w.rec /\ w'.off = w.off + n /\ w'.len = w.len /\ w'.base = w.base
      BY <1>3, <3>1 DEF Writes
    <3>3. w' # NoWrite /\ w'.off > 0
      BY <1>4, <1>6, <3>2 DEF NoWrite
    <3>4. BackAt(Ahead[Len(Ahead)])'
      BY <2>2, <3>2, <3>3 DEF BackAt, u
    <3> QED
      BY <2>1, <3>4 DEF BackOk, t
  <2> QED
    BY <2>4, <2>5
<1>22. WriteOk'
  <2>1. CASE w.off + n = w.len
    <3>1. w' = NoWrite /\ accepted' = accepted + (w.len - 3)
      BY <1>1, <2>1
    <3>2. accepted + (w.len - 3) \in 0..MaxWritten
      BY <1>3, <1>4, FrameNumbers
    <3> QED
      BY <1>1, <1>2, <3>1, <3>2 DEF WriteOk
  <2>2. CASE w.off + n # w.len
    <3>1. w' = [w EXCEPT !.off = w.off + n] /\ accepted' = accepted
      BY <1>1, <2>2
    <3>2. w' \in Writes /\ w'.rec = w.rec /\ w'.off = w.off + n /\ w'.len = w.len /\ w'.base = w.base
      BY <1>3, <1>4, <1>6, <3>1 DEF Writes
    <3>3. w'.off < w'.len
      BY <1>4, <1>6, <2>2, <3>2
    <3> QED
      BY <1>1, <1>2, <1>3, <3>1, <3>2, <3>3 DEF WriteOk
  <2> QED
    BY <2>1, <2>2
<1>23. ReadOk' /\ InStep' /\ EndIsReal'
  BY <1>1, <1>12, <1>19 DEF NoiseInv, ReadOk, InStep, EndIsReal
<1> QED
  BY <1>11, <1>20, <1>21, <1>22, <1>23 DEF NoiseInv

-----------------------------------------------------------------------------
(* Reading.                                                                *)

(* The declared length is that of the record at the front, once two bytes  *)
(* of it are there.                                                        *)
LEMMA DeclaredIs ==
  ASSUME NoiseInv
  PROVE  /\ Declared \in Nat
         /\ Declared # 0 => Unserved # <<>> /\ Declared = Unserved[1][3] /\ 3 <= Declared
         /\ Len(Unserved) >= 2 => Declared = Unserved[1][3]
         /\ Unserved # <<>> => /\ Len(Unserved) > 0 /\ Len(Ahead) > 0 /\ Ahead[1] = Unserved[1] /\ Ahead # <<>>
                               /\ Unserved[1][3] \in 3..MaxFrame
<1>1. HsOk /\ ReadOk /\ Ordered(Ahead)
  BY DEF NoiseInv, FrontOk
<1>2. /\ Unserved \in Seq(Unit) /\ Len(Unserved) \in Nat /\ Len(Ahead) = Len(Unserved) + Len(Wire) /\ Len(Wire) \in Nat
      /\ \A i \in 1..Len(Unserved) : Ahead[i] = Unserved[i]
  BY <1>1, AheadLooks
<1>3. expected \in Nat /\ (expected # 0 => Unserved # <<>> /\ expected = Unserved[1][3])
  BY <1>1 DEF ReadOk
<1>4. Unserved # <<>> => /\ Len(Unserved) > 0 /\ Len(Ahead) > 0 /\ Ahead[1] = Unserved[1] /\ Ahead # <<>>
                         /\ Unserved[1][3] \in 3..MaxFrame
  <2> SUFFICES ASSUME Unserved # <<>>
               PROVE  /\ Len(Unserved) > 0 /\ Len(Ahead) > 0 /\ Ahead[1] = Unserved[1] /\ Ahead # <<>>
                      /\ Unserved[1][3] \in 3..MaxFrame
    OBVIOUS
  <2>1. Len(Unserved) > 0
    BY <1>2
  <2>2. 1 \in 1..Len(Unserved) /\ 1 \in 1..Len(Ahead) /\ Len(Ahead) > 0
    BY <1>2, <2>1
  <2>3. Ahead[1] = Unserved[1] /\ Ahead # <<>>
    BY <1>2, <2>2
  <2>4. GoodUnit(Ahead[1]) /\ Ahead[1][3] \in Nat
    BY <1>1, <2>2, UnitAt
  <2> QED
    BY <2>1, <2>2, <2>3, <2>4, FrameNumbers DEF GoodUnit
<1>5. Len(Unserved) >= 2 => Unserved # <<>>
  BY <1>2
<1>6. Declared = expected \/ (Unserved # <<>> /\ Declared = Unserved[1][3])
  BY <1>5 DEF Declared, LengthField
<1>7. Len(Unserved) >= 2 => Declared = Unserved[1][3]
  BY <1>3 DEF Declared, LengthField
<1> QED
  BY <1>3, <1>4, <1>6, <1>7, FrameNumbers

(* The units of the record at the front.                                   *)
LEMMA FrontUnits ==
  ASSUME NoiseInv, Unserved # <<>>, NEW i \in 1..Len(Ahead), i <= Unserved[1][3]
  PROVE  Ahead[i] = <<opened + 1, i, Unserved[1][3], Delivered>>
<1>1. Ordered(Ahead) /\ Len(Ahead) > 0 /\ Ahead[1] = Unserved[1] /\ Ahead # <<>>
  BY DeclaredIs DEF NoiseInv, FrontOk
<1>2. Ahead[1][1] = opened + 1 /\ Ahead[1][2] = 1 /\ Ahead[1][4] = Delivered
  BY <1>1 DEF NoiseInv, FrontOk
<1>3. Ahead[i] = <<Ahead[1][1], i, Ahead[1][3], Ahead[1][4]>>
  BY <1>1, <1>2, HeadBlock
<1> QED
  BY <1>1, <1>2, <1>3

LEMMA DecodeKeeps == ASSUME NoiseInv, NEW room \in Sizes, Decode(room) PROVE NoiseInv'
<1> DEFINE D == Declared
           n == D - LengthField - TagLen
           plain == Bytes(Record[1][4], n)
<1>1. /\ stage["rcv"] = "open" /\ r = "record" /\ D # 0 /\ Len(Unserved) >= D
      /\ start' = start + D /\ expected' = 0
      /\ IF ~Decrypts THEN r' = "error" /\ UNCHANGED <<payload, opened, got>>
         ELSE /\ opened' = opened + 1
              /\ IF n > 0 /\ room >= n
                 THEN got' = got \o plain /\ UNCHANGED <<r, payload>>
                 ELSE payload' = plain /\ r' = (IF n > 0 THEN "serve" ELSE "record") /\ got' = got
      /\ UNCHANGED <<first, stage, sent, took, link, fin, w, records, accepted, scratch>>
  BY DEF Decode, Reading, Whole, handshakeVars, writeVars
<1>2. HsOk /\ WriteOk /\ ReadOk /\ FrontOk /\ BackOk /\ Ordered(Ahead) /\ InStep /\ EndIsReal
  BY DEF NoiseInv, FrontOk
<1>3. D \in Nat /\ 3 <= D /\ Unserved # <<>> /\ D = Unserved[1][3]
  BY <1>1, DeclaredIs
<1>4. n = D - 3 /\ n \in Nat
  BY <1>3 DEF LengthField, TagLen
<1> DEFINE U == Unserved
           A == Ahead
<1>5. /\ U \in Seq(Unit) /\ Len(U) = Len(scratch) - start /\ Len(U) \in Nat /\ Len(Wire) \in Nat /\ Wire \in Seq(Unit)
      /\ A \in Seq(Unit) /\ Len(A) = Len(U) + Len(Wire) /\ Len(A) \in Nat
      /\ \A i \in 1..Len(U) : U[i] = scratch[i + start]
      /\ \A i \in 1..Len(U) : A[i] = U[i]
      /\ \A i \in 1..Len(Wire) : A[Len(U) + i] = Wire[i]
  BY <1>2, AheadLooks
<1>6. ASSUME NEW i \in 1..D PROVE A[i] = <<opened + 1, i, D, Delivered>> /\ Record[i] = A[i] /\ i \in 1..Len(U)
  <2>1. i \in 1..Len(A) /\ i \in 1..Len(U) /\ D \in 0..Len(U)
    BY <1>1, <1>3, <1>5
  <2>2. A[i] = <<opened + 1, i, D, Delivered>>
    BY <1>3, <2>1, FrontUnits
  <2>3. Record[i] = U[i]
    BY <1>5, <2>1, Taken1 DEF Record
  <2> QED
    BY <1>5, <2>1, <2>2, <2>3
<1>7. Record[1][3] = D /\ Record[1][4] = Delivered /\ 1 \in 1..D
  BY <1>3, <1>6
<1>8. Decrypts
  BY <1>6, <1>7 DEF Decrypts
<1>9. payload = <<>> /\ got \in Seq(Nat) /\ Delivered = Len(got) /\ Delivered \in Nat /\ opened \in Nat
  BY <1>1, <1>2 DEF ReadOk, Delivered
<1>10. plain = Bytes(Delivered, n) /\ plain \in Seq(Nat) /\ Len(plain) = n
  BY <1>4, <1>7, <1>9, BytesLook
<1>11. got = Bytes(0, Delivered)
  BY <1>2, <1>9 DEF InStep
<1>12. got \o plain = Bytes(0, Delivered + n) /\ got \o plain \in Seq(Nat) /\ Len(got \o plain) = Delivered + n
  <2>1. Bytes(0, Delivered) \o Bytes(Delivered, n) = Bytes(0, Delivered + n)
    BY <1>4, <1>9, BytesJoin
  <2>2. got \o plain = Bytes(0, Delivered + n)
    BY <1>10, <1>11, <2>1
  <2>3. Delivered + n \in Nat
    BY <1>4, <1>9
  <2>4. Bytes(0, Delivered + n) \in Seq(Nat) /\ Len(Bytes(0, Delivered + n)) = Delivered + n
    BY <2>3, BytesLook
  <2> QED
    BY <2>2, <2>4
<1>30. /\ D \in Nat /\ Len(U) \in Nat /\ Len(Wire) \in Nat /\ Len(A) \in Nat /\ Len(A) = Len(U) + Len(Wire)
       /\ Len(U) = Len(scratch) - start /\ D <= Len(U) /\ start \in Nat /\ Len(scratch) \in Nat /\ 3 <= D
  <2>1. start \in Nat /\ Len(scratch) \in Nat
    BY <1>2 DEF ReadOk
  <2> QED
    BY <1>1, <1>3, <1>5, <2>1
<1> HIDE DEF D, n, plain, U, A
<1>13. /\ opened' = opened + 1 /\ r' \in {"record", "serve"} /\ payload' \in Seq(Nat) /\ got' \in Seq(Nat)
       /\ got' \o payload' = got \o plain /\ Delivered' = Delivered + n
       /\ (r' = "serve" <=> payload' # <<>>)
  <2>1. CASE n > 0 /\ room >= n
    <3>1. got' = got \o plain /\ r' = r /\ payload' = payload /\ opened' = opened + 1
      BY <1>1, <1>8, <2>1
    <3> QED
      BY <1>1, <1>9, <1>12, <3>1 DEF Delivered
  <2>2. CASE ~(n > 0 /\ room >= n)
    <3>1. payload' = plain /\ got' = got /\ opened' = opened + 1 /\ r' = IF n > 0 THEN "serve" ELSE "record"
      BY <1>1, <1>8, <2>2
    <3>2. plain # <<>> <=> n > 0
      BY <1>4, <1>10
    <3> QED
      BY <1>9, <1>10, <3>1, <3>2 DEF Delivered
  <2> QED
    BY <2>1, <2>2
<1>14. InStep'
  BY <1>12, <1>13 DEF InStep
<1>15. EndIsReal'
  BY <1>13 DEF EndIsReal
<1>16. HsPending' = HsPending /\ Wire' = Wire
  BY <1>1 DEF HsPending, Wire, Author
<1>17. HsOk' /\ WriteOk'
  BY <1>1, <1>2, <1>16 DEF HsOk, WriteOk
<1>18. ReadOk'
  <2>1. scratch \in Seq(Unit) /\ Len(scratch) <= MaxFrame /\ start \in 0..Len(scratch) /\ Len(scratch) \in Nat
    BY <1>2 DEF ReadOk
  <2>2. start + D \in 0..Len(scratch)
    BY <1>30
  <2> QED
    BY <1>1, <1>9, <1>13, <2>1, <2>2 DEF ReadOk
<1> DEFINE V == Unserved'
           B == Ahead'
<1>19. /\ V \in Seq(Unit) /\ Len(V) = Len(scratch) - (start + D) /\ Len(V) \in Nat
       /\ B \in Seq(Unit) /\ Len(B) = Len(V) + Len(Wire) /\ Len(B) \in Nat
       /\ \A i \in 1..Len(V) : V[i] = scratch[i + (start + D)]
       /\ \A i \in 1..Len(V) : B[i] = V[i]
       /\ \A i \in 1..Len(Wire) : B[Len(V) + i] = Wire[i]
  <2> DEFINE sd == start + D
  <2>1. scratch \in Seq(Unit) /\ sd \in 0..Len(scratch) /\ Wire \in Seq(Unit)
    BY <1>1, <1>5, <1>18 DEF ReadOk
  <2>2. V = SubSeq(scratch, sd + 1, Len(scratch)) /\ B = V \o Wire
    BY <1>1, <1>16 DEF Unserved, Ahead
  <2> HIDE DEF V, B, sd
  <2>4. Buffer(scratch, sd, Wire, V, B)
    BY <2>1, <2>2 DEF Buffer
  <2>5. BufferParts(scratch, sd, Wire, V, B)
    BY <2>4, BufferLooks
  <2>3. /\ V \in Seq(Unit) /\ Len(V) = Len(scratch) - sd /\ Len(V) \in Nat
        /\ B \in Seq(Unit) /\ Len(B) = Len(V) + Len(Wire) /\ Len(B) \in Nat
        /\ \A i \in 1..Len(V) : V[i] = scratch[i + sd]
        /\ \A i \in 1..Len(V) : B[i] = V[i]
        /\ \A i \in 1..Len(Wire) : B[Len(V) + i] = Wire[i]
    BY <2>5 DEF BufferParts
  <2> QED
    BY <2>3 DEF sd
<1> HIDE DEF V, B
<1>20. /\ Len(V) = Len(U) - D /\ Len(B) = Len(A) - D /\ D \in 0..Len(A) /\ Len(V) \in Nat /\ Len(B) \in Nat
       /\ Len(B) = Len(V) + Len(Wire)
  <2>1. Len(V) \in Nat /\ Len(B) \in Nat /\ Len(B) = Len(V) + Len(Wire) /\ Len(V) = Len(scratch) - (start + D)
    BY <1>19
  <2> QED
    BY <1>30, <2>1
<1>21. ASSUME NEW i \in 1..Len(B) PROVE B[i] = A[i + D]
  <2>1. CASE i <= Len(V)
    <3>1. i \in 1..Len(V) /\ i + D \in 1..Len(U)
      BY <1>30, <1>20, <2>1
    <3>2. B[i] = scratch[i + (start + D)]
      BY <1>19, <3>1
    <3>3. A[i + D] = scratch[(i + D) + start]
      BY <1>5, <3>1
    <3>4. i + (start + D) = (i + D) + start
      BY <1>30
    <3> QED
      BY <3>2, <3>3, <3>4
  <2>2. CASE i > Len(V)
    <3> DEFINE d == i - Len(V)
    <3>1. d \in 1..Len(Wire) /\ i = Len(V) + d /\ i + D = Len(U) + d
      BY <1>30, <1>20, <2>2
    <3> HIDE DEF d
    <3> QED
      BY <1>5, <1>19, <3>1
  <2>3. i <= Len(V) \/ i > Len(V)
    BY <1>19
  <2> QED
    BY <2>1, <2>2, <2>3
<1>22. Ordered(B)
  <2>1. Ordered(A) /\ D \in 0..Len(A)
    BY <1>2, <1>20 DEF A
  <2>2. B \in Seq(Unit) /\ Len(B) = Len(A) - D
    BY <1>19, <1>20
  <2>3. \A i \in 1..Len(B) : B[i] = A[i + D]
    BY <1>21
  <2> QED
    BY <2>1, <2>2, <2>3, OrderedDrop
<1>23. A[D] = <<opened + 1, D, D, Delivered>> /\ D \in 1..Len(A)
  BY <1>1, <1>3, <1>5, <1>6 DEF U
<1>24. FrontOk'
  <2>1. ASSUME B # <<>> PROVE B[1][1] = opened' + 1 /\ B[1][2] = 1 /\ B[1][4] = Delivered'
    <3>1. Len(B) > 0
      BY <1>19, <2>1
    <3>2. 1 \in 1..Len(B) /\ D + 1 \in 1..Len(A) /\ 1 + D = D + 1
      BY <1>20, <1>30, <3>1
    <3>3. B[1] = A[D + 1]
      BY <1>21, <3>2
    <3>4. A[D][2] = A[D][3] /\ A[D][1] = opened + 1 /\ A[D][4] = Delivered /\ A[D][3] = D
      BY <1>23
    <3>5. A[D + 1][1] = A[D][1] + 1 /\ A[D + 1][2] = 1 /\ A[D + 1][4] = A[D][4] + (A[D][3] - 3)
      BY <1>2, <1>23, <3>2, <3>4, FollowAt DEF A
    <3> QED
      BY <1>4, <1>13, <3>3, <3>4, <3>5 DEF n
  <2> QED
    BY <1>22, <2>1 DEF FrontOk, B
<1>25. BackOk'
  <2>1. Ahead # <<>> /\ BackAt(A[Len(A)])
    BY <1>2, <1>3, DeclaredIs DEF BackOk, A
  <2>2. ASSUME B # <<>> PROVE BackAt(Ahead[Len(Ahead)])'
    <3>1. Len(B) > 0
      BY <1>19, <2>2
    <3>2. Len(B) \in 1..Len(B) /\ Len(B) + D = Len(A)
      BY <1>20, <1>30, <3>1
    <3>3. B[Len(B)] = A[Len(A)]
      BY <1>21, <3>2
    <3>4. Ahead'[Len(Ahead')] = A[Len(A)]
      BY <3>3 DEF B
    <3>5. Done' = Done
      BY <1>1 DEF Done
    <3> QED
      BY <1>1, <2>1, <3>4, <3>5 DEF BackAt
  <2>3. ASSUME B = <<>> PROVE (w = NoWrite \/ w.off = 0) /\ ("snd" \notin fin => opened' = Done) /\ Delivered' = accepted
    <3>1. Len(B) = 0
      BY <2>3
    <3>2. Len(A) = D
      BY <1>20, <1>30, <3>1
    <3>3. BackAt(A[D]) /\ A[D][2] = A[D][3] /\ A[D][1] = opened + 1 /\ A[D][4] = Delivered /\ A[D][3] = D
      BY <1>23, <2>1, <3>2
    <3>4. w = NoWrite \/ ~(w.off > 0)
      <4>1. w # NoWrite => w.off < w.len /\ w.off \in Nat /\ w.len \in Nat
        BY <1>2, FrameNumbers DEF WriteOk, Writes
      <4>2. w # NoWrite /\ w.off > 0 => A[D][2] = w.off /\ A[D][3] = w.len
        BY <3>3 DEF BackAt
      <4> QED
        BY <3>3, <4>1, <4>2
    <3>5. w # NoWrite => w.off \in Nat
      BY <1>2 DEF WriteOk, Writes
    <3>6. ("snd" \notin fin => A[D][1] = Done) /\ A[D][4] + (A[D][3] - 3) = accepted
      BY <3>3, <3>4 DEF BackAt
    <3> QED
      BY <1>4, <1>13, <3>3, <3>4, <3>5, <3>6 DEF n
  <2>4. Done' = Done
    BY <1>1 DEF Done
  <2> QED
    BY <1>1, <2>2, <2>3, <2>4 DEF BackOk, B
<1> QED
  BY <1>14, <1>15, <1>17, <1>18, <1>24, <1>25 DEF NoiseInv

LEMMA ServeKeeps == ASSUME NoiseInv, NEW room \in Sizes, Serve(room) PROVE NoiseInv'
<1> DEFINE n == Min({room, Len(payload)})
<1>1. /\ r = "serve" /\ got' = got \o SubSeq(payload, 1, n) /\ payload' = SubSeq(payload, n + 1, Len(payload))
      /\ r' = (IF n = Len(payload) THEN "record" ELSE "serve")
      /\ UNCHANGED <<first, stage, sent, took, link, fin, w, records, accepted, scratch, start, expected, opened>>
  BY DEF Serve, handshakeVars, writeVars
<1>2. HsOk /\ WriteOk /\ ReadOk /\ FrontOk /\ BackOk /\ InStep
  BY DEF NoiseInv
<1>3. got \in Seq(Nat) /\ payload \in Seq(Nat) /\ Len(payload) \in Nat /\ Len(got) \in Nat /\ room \in Nat
  BY <1>2, FrameNumbers DEF ReadOk, Sizes
<1>4. n \in 0..Len(payload)
  <2>1. room \in Int /\ Len(payload) \in Int
    BY <1>3
  <2>2. n \in {room, Len(payload)} /\ n <= Len(payload)
    BY <2>1, MinOfTwo
  <2> HIDE DEF n
  <2> QED
    BY <1>3, <2>2
<1> HIDE DEF n
<1> DEFINE x == SubSeq(payload, 1, n)
           y == SubSeq(payload, n + 1, Len(payload))
<1>5. x \in Seq(Nat) /\ Len(x) = n /\ \A i \in 1..n : x[i] = payload[i]
  BY <1>3, <1>4, Taken1
<1>6. y \in Seq(Nat) /\ Len(y) = Len(payload) - n /\ \A i \in 1..(Len(payload) - n) : y[i] = payload[i + n]
  BY <1>3, <1>4, Dropped1
<1> HIDE DEF x, y
<1>7. x \o y = payload
  <2>1. x \o y \in Seq(Nat) /\ Len(x \o y) = Len(payload)
    BY <1>3, <1>4, <1>5, <1>6
  <2>2. ASSUME NEW i \in 1..Len(payload) PROVE (x \o y)[i] = payload[i]
    <3>1. CASE i <= n
      BY <1>4, <1>5, <1>6, <3>1
    <3>2. CASE i > n
      <4> DEFINE d == i - n
      <4>1. d \in 1..(Len(payload) - n) /\ d \in 1..Len(y) /\ i = Len(x) + d /\ i = d + n
        BY <1>3, <1>4, <1>5, <1>6, <3>2
      <4> HIDE DEF d
      <4>2. (x \o y)[Len(x) + d] = y[d]
        BY <1>5, <1>6, <4>1, Joined
      <4> QED
        BY <1>6, <4>1, <4>2
    <3>3. i <= n \/ i > n
      BY <1>4
    <3> QED
      BY <3>1, <3>2, <3>3
  <2> QED
    BY <1>3, <2>1, <2>2, SameSeq
<1>8. got' = got \o x /\ payload' = y
  BY <1>1 DEF x, y
<1>9. got' \o payload' = got \o payload
  <2>2. got \in Seq(Nat) /\ x \in Seq(Nat) /\ y \in Seq(Nat)
    BY <1>3, <1>5, <1>6
  <2>1. got \o (x \o y) = (got \o x) \o y
    BY <2>2, NatsJoin
  <2> QED
    BY <1>7, <1>8, <2>1
<1>10. Delivered' = Delivered /\ got' \in Seq(Nat) /\ payload' \in Seq(Nat)
  <2>1. Len(got') = Len(got) + n /\ got' \in Seq(Nat)
    <3>1. got \in Seq(Nat) /\ x \in Seq(Nat) /\ Len(x) = n
      BY <1>3, <1>5
    <3>2. got \o x \in Seq(Nat) /\ Len(got \o x) = Len(got) + Len(x)
      BY <3>1, Joined
    <3> QED
      BY <1>8, <3>1, <3>2
  <2>2. Len(payload') = Len(payload) - n /\ payload' \in Seq(Nat)
    BY <1>6, <1>8
  <2> QED
    BY <1>3, <1>4, <2>1, <2>2 DEF Delivered
<1>11. r' \in {"record", "serve"} /\ (r' = "serve" <=> payload' # <<>>)
  <2>1. payload' \in Seq(Nat) /\ Len(payload') = Len(payload) - n
    BY <1>6, <1>8
  <2>2. payload' # <<>> <=> Len(payload') # 0
    BY <2>1
  <2>3. n = Len(payload) <=> Len(payload') = 0
    BY <1>3, <1>4, <2>1
  <2> QED
    BY <1>1, <2>2, <2>3
<1>12. HsPending' = HsPending /\ Wire' = Wire /\ Unserved' = Unserved /\ Done' = Done
  BY <1>1 DEF HsPending, Wire, Author, Unserved, Done
<1>13. Ahead' = Ahead
  BY <1>12 DEF Ahead
<1>14. HsOk' /\ WriteOk'
  BY <1>1, <1>2, <1>12 DEF HsOk, WriteOk
<1>15. ReadOk'
  BY <1>1, <1>2, <1>10, <1>11, <1>12 DEF ReadOk
<1>16. FrontOk'
  BY <1>1, <1>2, <1>10, <1>13 DEF FrontOk
<1>17. BackOk'
  <2>1. Ahead # <<>> => BackAt(Ahead[Len(Ahead)])
    BY <1>2 DEF BackOk
  <2>2. Ahead # <<>> => BackAt(Ahead[Len(Ahead)])'
    BY <1>1, <1>12, <1>13, <2>1 DEF BackAt
  <2> QED
    BY <1>1, <1>2, <1>10, <1>12, <1>13, <2>2 DEF BackOk
<1>18. InStep' /\ EndIsReal'
  BY <1>2, <1>9, <1>10, <1>11 DEF InStep, EndIsReal
<1> QED
  BY <1>14, <1>15, <1>16, <1>17, <1>18 DEF NoiseInv

(* Moving the buffer to its front keeps what is unserved.                  *)
LEMMA CompactedLooks ==
  ASSUME NoiseInv
  PROVE  /\ Compacted \in Seq(Unit) /\ Len(Compacted) \in Nat /\ Offset \in Nat /\ Len(Compacted) <= MaxFrame
         /\ Len(Unserved) = Len(Compacted) - Offset /\ Len(Unserved) \in Nat
         /\ \A i \in 1..Len(Unserved) : Unserved[i] = Compacted[i + Offset]
         /\ Len(Compacted) = MaxFrame => Len(Unserved) = MaxFrame
<1>1. HsOk /\ ReadOk
  BY DEF NoiseInv
<1>2. /\ Unserved \in Seq(Unit) /\ Len(Unserved) = Len(scratch) - start /\ Len(Unserved) \in Nat
      /\ \A i \in 1..Len(Unserved) : Unserved[i] = scratch[i + start]
  BY <1>1, AheadLooks
<1>3. /\ scratch \in Seq(Unit) /\ Len(scratch) <= MaxFrame /\ Len(scratch) \in Nat
      /\ start \in Nat /\ start <= Len(scratch)
  BY <1>1 DEF ReadOk
<1>4. CASE Compacted = scratch
  <2>1. Offset = start
    BY <1>4 DEF Offset
  <2>2. Len(scratch) = MaxFrame => start = 0
    <3>1. Len(scratch) = MaxFrame => Compacted = Unserved
      BY DEF Compacted
    <3>2. Len(scratch) = MaxFrame => Len(scratch) = Len(scratch) - start
      BY <1>2, <1>4, <3>1
    <3> QED
      BY <1>3, <3>2
  <2> QED
    BY <1>2, <1>3, <1>4, <2>1, <2>2
<1>5. CASE Compacted # scratch
  <2>1. Offset = 0 /\ Compacted = Unserved
    BY <1>5 DEF Offset, Compacted
  <2>2. \A i \in Nat : i + 0 = i
    OBVIOUS
  <2>3. Len(Unserved) <= MaxFrame
    BY <1>2, <1>3, FrameNumbers
  <2>4. Len(Unserved) = Len(Unserved) - 0
    BY <1>2
  <2> QED
    BY <1>2, <2>1, <2>2, <2>3, <2>4
<1> QED
  BY <1>4, <1>5

(* A read below, of n bytes or of none: what is ahead does not change.     *)
LEMMA ReadKeeps ==
  ASSUME NoiseInv, Reading, NEW n \in Nat, n <= Len(link["snd"]), n <= MaxFrame - Len(Compacted),
         scratch' = Compacted \o SubSeq(link["snd"], 1, n), start' = Offset, expected' = Declared,
         link' = [link EXCEPT !["snd"] = SubSeq(@, n + 1, Len(@))], r' \in {"record", "eof"},
         UNCHANGED <<first, stage, sent, took, fin, w, records, accepted, payload, opened, got>>
  PROVE  HsOk' /\ WriteOk' /\ ReadOk' /\ FrontOk' /\ BackOk' /\ InStep'
<1>1. HsOk /\ WriteOk /\ ReadOk /\ FrontOk /\ BackOk /\ InStep
  BY DEF NoiseInv
<1>2. link \in [Ends -> Seq(Unit)] /\ link["snd"] \in Seq(Unit) /\ Len(link["snd"]) \in Nat
  BY <1>1 DEF HsOk, Ends
<1>3. ~HsPending /\ Wire = link["snd"] /\ r = "record"
  BY <1>1 DEF HsOk, Reading, Wire
<1> DEFINE k == link["snd"]
           P == SubSeq(k, 1, n)
           Q == SubSeq(k, n + 1, Len(k))
<1>4. P \in Seq(Unit) /\ Len(P) = n /\ \A i \in 1..n : P[i] = k[i]
  BY <1>2, Taken1
<1>5. Q \in Seq(Unit) /\ Len(Q) = Len(k) - n /\ \A i \in 1..(Len(k) - n) : Q[i] = k[i + n]
  BY <1>2, Dropped1
<1>6. scratch' = Compacted \o P /\ link' = [link EXCEPT !["snd"] = Q]
  OBVIOUS
<1> HIDE DEF P, Q
<1>7. link' \in [Ends -> Seq(Unit)] /\ link'["snd"] = Q
  BY <1>2, <1>5, <1>6 DEF Ends
<1>8. HsPending' = HsPending /\ Wire' = Q /\ Done' = Done
  BY <1>3, <1>7 DEF HsPending, Author, Wire, Done
<1>9. HsOk'
  <2>1. stage["snd"] # "open" => Q = <<>>
    <3>1. stage["snd"] # "open" => k = <<>>
      BY <1>1, <1>3 DEF HsOk
    <3>2. k = <<>> => Len(k) = 0
      OBVIOUS
    <3>3. k = <<>> => Len(Q) = 0
      BY <1>2, <1>5, <3>2
    <3> QED
      BY <1>5, <3>1, <3>3
  <2> QED
    BY <1>1, <1>3, <1>7, <1>8, <2>1 DEF HsOk
<1> DEFINE C == Compacted
           o == Offset
           U == Unserved
<1>10. /\ C \in Seq(Unit) /\ Len(C) \in Nat /\ o \in Nat /\ Len(C) <= MaxFrame
       /\ Len(U) = Len(C) - o /\ Len(U) \in Nat /\ U \in Seq(Unit)
       /\ \A i \in 1..Len(U) : U[i] = C[i + o]
  BY <1>1, CompactedLooks, AheadLooks
<1>11. n <= MaxFrame - Len(C) /\ n <= Len(k) /\ start' = o /\ scratch' = C \o P
  BY <1>6
<1> HIDE DEF C, o, U, k
<1>12. /\ scratch' \in Seq(Unit) /\ Len(scratch') = Len(C) + n
       /\ \A i \in 1..Len(C) : scratch'[i] = C[i]
       /\ \A i \in 1..n : scratch'[Len(C) + i] = P[i]
  <2>1. C \in Seq(Unit) /\ P \in Seq(Unit) /\ Len(P) = n
    BY <1>4, <1>10
  <2>2. /\ C \o P \in Seq(Unit) /\ Len(C \o P) = Len(C) + Len(P)
        /\ \A i \in 1..Len(C) : (C \o P)[i] = C[i]
        /\ \A i \in 1..Len(P) : (C \o P)[Len(C) + i] = P[i]
    <3>1. C \o P \in Seq(Unit) /\ Len(C \o P) = Len(C) + Len(P)
      BY <2>1, Joined
    <3>2. \A i \in 1..Len(C) : (C \o P)[i] = C[i]
      BY <2>1
    <3>3. \A i \in 1..Len(P) : (C \o P)[Len(C) + i] = P[i]
      BY <2>1
    <3> QED
      BY <3>1, <3>2, <3>3
  <2>3. scratch' = C \o P
    BY <1>11
  <2> QED
    BY <2>1, <2>2, <2>3
<1>13. Len(scratch') <= MaxFrame /\ start' \in 0..Len(scratch') /\ Len(scratch') \in Nat /\ Len(scratch') - o = Len(U) + n
  BY <1>10, <1>11, <1>12, FrameNumbers
<1> DEFINE V == Unserved'
           B == Ahead'
<1>14. BufferParts(scratch', o, Q, V, B)
  <2>1. Buffer(scratch', o, Q, V, B)
    BY <1>5, <1>8, <1>11, <1>12, <1>13 DEF Buffer, Unserved, Ahead
  <2> QED
    BY <2>1, BufferLooks
<1>15. BufferParts(scratch, start, k, U, Ahead)
  <2>1. Buffer(scratch, start, Wire, Unserved, Ahead)
    BY <1>1, <1>2, <1>3 DEF Buffer, Unserved, Ahead, ReadOk
  <2>2. BufferParts(scratch, start, Wire, Unserved, Ahead)
    BY <2>1, BufferLooks
  <2> QED
    BY <1>3, <2>2 DEF U, k
<1> HIDE DEF V, B
<1>16. Len(V) = Len(U) + n
  BY <1>13, <1>14 DEF BufferParts
<1>17. ASSUME NEW i \in 1..Len(U) PROVE V[i] = U[i] /\ i \in 1..Len(V)
  <2>1. i \in 1..Len(V) /\ i + o \in 1..Len(C)
    BY <1>10, <1>16
  <2>2. V[i] = scratch'[i + o]
    BY <1>14, <2>1 DEF BufferParts
  <2>3. U[i] = C[i + o]
    BY <1>10
  <2> QED
    BY <1>12, <2>1, <2>2, <2>3
<1>18. ASSUME NEW i \in 1..n PROVE V[Len(U) + i] = k[i] /\ Len(U) + i \in 1..Len(V)
  <2>1. Len(U) + i \in 1..Len(V) /\ (Len(U) + i) + o = Len(C) + i
    BY <1>10, <1>16
  <2>2. V[Len(U) + i] = scratch'[Len(C) + i]
    BY <1>14, <2>1 DEF BufferParts
  <2> QED
    BY <1>4, <1>12, <2>1, <2>2
<1>19. B = Ahead
  <2>1. Len(B) = Len(V) + Len(Q) /\ B \in Seq(Unit) /\ (\A i \in 1..Len(V) : B[i] = V[i]) /\ \A i \in 1..Len(Q) : B[Len(V) + i] = Q[i]
    BY <1>14 DEF BufferParts
  <2>2. /\ Len(Ahead) = Len(U) + Len(k) /\ Ahead \in Seq(Unit) /\ (\A i \in 1..Len(U) : Ahead[i] = U[i])
        /\ \A i \in 1..Len(k) : Ahead[Len(U) + i] = k[i]
    BY <1>15 DEF BufferParts
  <2>3. Len(U) \in Nat /\ Len(k) \in Nat /\ Len(Q) = Len(k) - n /\ n <= Len(k)
    BY <1>2, <1>5, <1>10, <1>11 DEF k
  <2>4. Len(B) = Len(Ahead) /\ Len(Ahead) = Len(U) + Len(k)
    BY <1>16, <2>1, <2>2, <2>3
  <2>5. ASSUME NEW i \in 1..Len(Ahead) PROVE B[i] = Ahead[i]
    <3>1. CASE i <= Len(U)
      <4>1. i \in 1..Len(U)
        BY <2>3, <3>1
      <4> QED
        BY <1>17, <2>1, <2>2, <4>1
    <3>2. CASE i > Len(U) /\ i <= Len(U) + n
      <4> DEFINE d == i - Len(U)
      <4>1. d \in 1..n /\ d \in 1..Len(k) /\ i = Len(U) + d
        BY <2>3, <3>2
      <4> HIDE DEF d
      <4>2. B[i] = V[Len(U) + d] /\ V[Len(U) + d] = k[d]
        BY <1>18, <2>1, <4>1
      <4> QED
        BY <2>2, <4>1, <4>2
    <3>3. CASE i > Len(U) + n
      <4> DEFINE d == i - (Len(U) + n)
      <4>1. d \in 1..(Len(k) - n) /\ i = Len(V) + d /\ d + n \in 1..Len(k) /\ i = Len(U) + (d + n) /\ d \in 1..Len(Q)
        BY <1>16, <2>3, <2>4, <3>3
      <4> HIDE DEF d
      <4>2. B[i] = Q[d] /\ Q[d] = k[d + n]
        BY <1>5, <2>1, <4>1
      <4>3. Ahead[Len(U) + (d + n)] = k[d + n]
        BY <2>2, <4>1
      <4> QED
        BY <4>1, <4>2, <4>3
    <3>4. i \in Nat
      BY <2>3, <2>4
    <3> QED
      BY <2>3, <3>1, <3>2, <3>3, <3>4
  <2> QED
    BY <2>1, <2>2, <2>4, <2>5, SameSeq
<1>20. WriteOk' /\ InStep'
  BY <1>1 DEF WriteOk, InStep, Delivered
<1>21. ReadOk'
  <2>1. Declared \in Nat /\ (Declared # 0 => U # <<>> /\ Declared = U[1][3] /\ Len(U) > 0)
    BY DeclaredIs DEF U
  <2>2. Declared # 0 => Unserved' # <<>> /\ Declared = Unserved'[1][3]
    <3> SUFFICES ASSUME Declared # 0 PROVE V # <<>> /\ Declared = V[1][3]
      BY DEF V
    <3>1. 1 \in 1..Len(U)
      BY <1>10, <2>1
    <3>2. V[1] = U[1] /\ 1 \in 1..Len(V)
      BY <1>17, <3>1
    <3> QED
      BY <2>1, <3>2
  <2>3. r' = "serve" <=> payload' # <<>>
    BY <1>1, <1>3 DEF ReadOk
  <2> QED
    BY <1>1, <1>12, <1>13, <2>1, <2>2, <2>3 DEF ReadOk
<1>22. Ahead' = Ahead /\ Delivered' = Delivered
  BY <1>19 DEF B, Delivered
<1>23. FrontOk'
  BY <1>1, <1>22 DEF FrontOk
<1>24. BackOk'
  <2>1. Ahead # <<>> => BackAt(Ahead[Len(Ahead)])
    BY <1>1 DEF BackOk
  <2>2. Ahead # <<>> => BackAt(Ahead[Len(Ahead)])'
    BY <1>8, <1>22, <2>1 DEF BackAt
  <2> QED
    BY <1>1, <1>8, <1>22, <2>2 DEF BackOk
<1> QED
  BY <1>9, <1>20, <1>21, <1>23, <1>24

LEMMA FillKeeps == ASSUME NoiseInv, NEW n \in 1..MaxFrame, Fill(n) PROVE NoiseInv'
<1>1. /\ Reading /\ n <= Min({Len(link["snd"]), MaxFrame - Len(Compacted)})
      /\ scratch' = Compacted \o SubSeq(link["snd"], 1, n)
      /\ start' = Offset /\ expected' = Declared
      /\ link' = [link EXCEPT !["snd"] = SubSeq(@, n + 1, Len(@))] /\ r' = r
      /\ UNCHANGED <<first, stage, sent, took, fin, w, records, accepted, payload, opened, got>>
  BY DEF Fill, handshakeVars, writeVars
<1>2. link["snd"] \in Seq(Unit) /\ Len(link["snd"]) \in Nat /\ Len(Compacted) \in Nat /\ r' = "record"
  BY <1>1, CompactedLooks DEF NoiseInv, HsOk, Ends, Reading
<1>3. n \in Nat /\ n <= Len(link["snd"]) /\ n <= MaxFrame - Len(Compacted)
  <2> DEFINE a == Len(link["snd"])
             b == MaxFrame - Len(Compacted)
  <2>1. a \in Int /\ b \in Int
    BY <1>2, FrameNumbers
  <2>2. Min({a, b}) \in Int /\ Min({a, b}) <= a /\ Min({a, b}) <= b
    BY <2>1, MinOfTwo
  <2>3. n <= Min({a, b}) /\ n \in Nat
    BY <1>1
  <2> HIDE DEF a, b
  <2>4. n <= a /\ n <= b
    BY <2>1, <2>2, <2>3
  <2> QED
    BY <2>3, <2>4 DEF a, b
<1>4. HsOk' /\ WriteOk' /\ ReadOk' /\ FrontOk' /\ BackOk' /\ InStep'
  BY <1>1, <1>2, <1>3, ReadKeeps
<1>5. EndIsReal'
  BY <1>2 DEF EndIsReal
<1> QED
  BY <1>4, <1>5 DEF NoiseInv

(* The end: the buffer is not full of an unfinished record, since a frame  *)
(* fits it, so the writer closed; what is left is a record half written,   *)
(* whose bytes the writer was never told were taken.                       *)
LEMMA FillEndsKeeps == ASSUME NoiseInv, FillEnds PROVE NoiseInv'
<1>1. /\ Reading /\ ~Whole /\ AtEnd /\ r' = "eof" /\ scratch' = Compacted /\ start' = Offset /\ expected' = Declared
      /\ UNCHANGED <<first, stage, sent, took, link, fin, w, records, accepted, payload, opened, got>>
  BY DEF FillEnds, handshakeVars, writeVars
<1>2. HsOk /\ WriteOk /\ ReadOk /\ FrontOk /\ BackOk
  BY DEF NoiseInv
<1>3. /\ link["snd"] \in Seq(Unit) /\ link \in [Ends -> Seq(Unit)] /\ Compacted \in Seq(Unit) /\ Len(Compacted) \in Nat
      /\ Len(Compacted) <= MaxFrame
  BY <1>2, CompactedLooks DEF HsOk, Ends
<1>4. HsOk' /\ WriteOk' /\ ReadOk' /\ FrontOk' /\ BackOk' /\ InStep'
  <2> DEFINE k == link["snd"]
  <2>1. SubSeq(k, 1, 0) = <<>> /\ Compacted \o <<>> = Compacted
    BY <1>3
  <2>2. SubSeq(k, 0 + 1, Len(k)) = k
    <3>1. 0 \in 0..Len(k) /\ Len(k) \in Nat /\ Len(k) - 0 = Len(k) /\ \A i \in 1..Len(k) : i + 0 = i
      BY <1>3
    <3>2. /\ SubSeq(k, 0 + 1, Len(k)) \in Seq(Unit) /\ Len(SubSeq(k, 0 + 1, Len(k))) = Len(k)
          /\ \A i \in 1..Len(k) : SubSeq(k, 0 + 1, Len(k))[i] = k[i]
      BY <1>3, <3>1, Dropped1
    <3> DEFINE d == SubSeq(k, 0 + 1, Len(k))
    <3> HIDE DEF d, k
    <3>3. d \in Seq(Unit) /\ Len(d) = Len(k) /\ (\A i \in 1..Len(d) : d[i] = k[i]) /\ k \in Seq(Unit)
      BY <1>3, <3>2 DEF d, k
    <3>4. d = k
      BY <3>3, SameSeq
    <3> QED
      BY <3>4 DEF d
  <2>3. link' = [link EXCEPT !["snd"] = SubSeq(@, 0 + 1, Len(@))]
    BY <1>1, <1>3, <2>2 DEF Ends
  <2>4. scratch' = Compacted \o SubSeq(link["snd"], 1, 0)
    BY <1>1, <2>1
  <2>5. 0 <= Len(link["snd"]) /\ 0 <= MaxFrame - Len(Compacted) /\ 0 \in Nat
    BY <1>3, FrameNumbers
  <2> QED
    BY <1>1, <2>3, <2>4, <2>5, ReadKeeps
<1> DEFINE U == Unserved
<1>5. /\ U \in Seq(Unit) /\ Len(U) \in Nat /\ Len(Ahead) = Len(U) + Len(Wire) /\ Ahead \in Seq(Unit)
      /\ (Len(Compacted) = MaxFrame => Len(U) = MaxFrame)
  BY <1>2, AheadLooks, CompactedLooks
<1>6. U # <<>> => Len(U) > 0 /\ Ahead # <<>> /\ U[1][3] \in 3..MaxFrame /\ U[1][3] \in Nat
  BY DeclaredIs, FrameNumbers
<1>7. U # <<>> => Len(U) < U[1][3]
  <2> SUFFICES ASSUME U # <<>> PROVE Len(U) < U[1][3]
    OBVIOUS
  <2>1. Len(U) >= 2 => Declared = U[1][3]
    BY DeclaredIs
  <2>2. CASE Len(U) >= 2
    <3>1. ~(Declared # 0 /\ Len(U) >= Declared)
      BY <1>1 DEF Whole
    <3>2. U[1][3] \in Nat /\ U[1][3] >= 3
      BY <1>6, FrameNumbers
    <3> QED
      BY <1>5, <2>1, <2>2, <3>1, <3>2
  <2>3. CASE ~(Len(U) >= 2)
    <3>1. U[1][3] \in Nat /\ U[1][3] >= 3
      BY <1>6, FrameNumbers
    <3> QED
      BY <1>5, <2>3, <3>1
  <2> QED
    BY <2>2, <2>3
<1>8. Len(Compacted) # MaxFrame
  <2>1. SUFFICES ASSUME Len(U) = MaxFrame PROVE FALSE
    BY <1>5
  <2>2. U # <<>>
    BY <1>5, <2>1, FrameNumbers
  <2>3. U[1][3] \in 3..MaxFrame /\ Len(U) < U[1][3]
    BY <1>6, <1>7, <2>2
  <2> QED
    BY <2>1, <2>3, FrameNumbers
<1>9. link["snd"] = <<>> /\ "snd" \in fin
  BY <1>1, <1>8 DEF AtEnd
<1>10. Wire = <<>> /\ Len(Wire) = 0 /\ payload = <<>> /\ w = NoWrite /\ Len(got) \in Nat
  BY <1>1, <1>2, <1>9 DEF Wire, HsOk, Reading, ReadOk, WriteOk
<1>11. Delivered = Len(got)
  BY <1>10 DEF Delivered
<1>12. Delivered = accepted
  <2>1. CASE U = <<>>
    <3>1. Len(Ahead) = 0
      BY <1>5, <1>10, <2>1
    <3>2. Ahead = <<>>
      BY <1>5, <3>1
    <3> QED
      BY <1>2, <3>2 DEF BackOk
  <2>2. CASE U # <<>>
    <3>1. Len(Ahead) = Len(U) /\ Len(U) \in 1..Len(Ahead) /\ Len(U) <= U[1][3]
      BY <1>5, <1>6, <1>7, <1>10, <2>2
    <3>2. Ahead[Len(U)] = <<opened + 1, Len(U), U[1][3], Delivered>>
      BY <2>2, <3>1, FrontUnits
    <3>3. BackAt(Ahead[Len(Ahead)])
      BY <1>2, <1>6, <2>2 DEF BackOk
    <3> DEFINE u == Ahead[Len(Ahead)]
    <3>4. u = <<opened + 1, Len(U), U[1][3], Delivered>> /\ BackAt(u)
      BY <3>1, <3>2, <3>3
    <3> HIDE DEF u
    <3>5. u[2] < u[3] /\ u[4] = Delivered
      BY <1>7, <2>2, <3>4
    <3> QED
      BY <1>10, <3>4, <3>5 DEF BackAt
  <2> QED
    BY <2>1, <2>2
<1>13. EndIsReal'
  BY <1>1, <1>9, <1>11, <1>12 DEF EndIsReal
<1> QED
  BY <1>4, <1>13 DEF NoiseInv

-----------------------------------------------------------------------------
(* The specification.                                                      *)

LEMMA NoiseStill == ASSUME NoiseInv, UNCHANGED noiseVars PROVE NoiseInv'
<1>1. /\ UNCHANGED <<first, stage, sent, took, link, fin>> /\ UNCHANGED <<writeVars, readVars>>
      /\ UNCHANGED <<w, records>>
  BY DEF noiseVars, handshakeVars, writeVars
<1>2. HsPending' = HsPending /\ Wire' = Wire
  BY <1>1 DEF HsPending, Author, Wire
<1>3. HsOk'
  BY <1>1, <1>2 DEF NoiseInv, HsOk
<1>4. "snd" \in fin' => w = NoWrite
  BY <1>1 DEF NoiseInv, WriteOk
<1> QED
  BY <1>1, <1>2, <1>3, <1>4, HsKeeps

LEMMA NoiseSteps == ASSUME NoiseInv, [NoiseNext]_noiseVars PROVE NoiseInv'
<1>1. CASE HsWrite
  BY <1>1, HsWriteKeeps
<1>2. CASE HsRead
  BY <1>2, HsReadKeeps
<1>3. CASE \E e \in Ends : HsDropped(e)
  BY <1>3, HsDroppedKeeps
<1>4. CASE \E n \in 0..MaxMessage : Encrypt(n)
  BY <1>4, EncryptKeeps
<1>5. CASE \E n \in 1..MaxFrame : Push(n)
  BY <1>5, PushKeeps
<1>6. CASE Shutdown
  BY <1>6, ShutdownKeeps
<1>7. CASE \E n \in 1..MaxFrame : Fill(n)
  BY <1>7, FillKeeps
<1>8. CASE FillEnds
  BY <1>8, FillEndsKeeps
<1>9. CASE \E room \in Sizes : Decode(room)
  BY <1>9, DecodeKeeps
<1>10. CASE \E room \in Sizes : Serve(room)
  BY <1>10, ServeKeeps
<1>11. CASE UNCHANGED noiseVars
  BY <1>11, NoiseStill
<1> QED
  BY <1>1, <1>2, <1>3, <1>4, <1>5, <1>6, <1>7, <1>8, <1>9, <1>10, <1>11 DEF NoiseNext, NoiseReads

LEMMA NoiseMeans == NoiseInv => NoiseSafe
<1> SUFFICES ASSUME NoiseInv PROVE NoiseSafe
  OBVIOUS
<1>1. HsOk /\ WriteOk /\ ReadOk /\ InStep /\ EndIsReal
  BY DEF NoiseInv
<1>2. w.off <= w.len /\ w.len <= MaxFrame
  <2>1. CASE w = NoWrite
    BY <2>1, FrameNumbers DEF NoWrite
  <2>2. CASE w # NoWrite
    BY <1>1, <2>2, FrameNumbers DEF WriteOk, Writes
  <2> QED
    BY <2>1, <2>2
<1>3. expected = 0 \/ expected > LengthField
  <2>1. expected # 0 => expected = Unserved[1][3] /\ Unserved[1][3] \in 3..MaxFrame
    BY <1>1, DeclaredIs DEF ReadOk
  <2> QED
    BY <2>1, FrameNumbers DEF LengthField
<1>4. NoiseTypeOK
  BY <1>1, <1>2, <1>3, FrameNumbers DEF NoiseTypeOK, HsOk, WriteOk, ReadOk
<1>5. StreamIntact
  BY <1>1 DEF StreamIntact, InStep, ReadOk, Delivered
<1> QED
  BY <1>1, <1>4, <1>5 DEF NoiseSafe

(* For every record size, pipe and number of records, however the bytes of *)
(* records are cut by poll_write, the pipe and poll_read: every record     *)
(* decrypts, the reader's caller gets the writer's bytes once and in       *)
(* order, and it is told of the end only after the writer closed and with  *)
(* every byte whose poll_write returned Ready.                             *)
THEOREM NoiseIsSafe == NoiseSpec => []NoiseSafe
<1>1. NoiseInit => NoiseInv
  BY NoiseStarts
<1>2. NoiseInv /\ [NoiseNext]_noiseVars => NoiseInv'
  BY NoiseSteps
<1>3. NoiseInv => NoiseSafe
  BY NoiseMeans
<1> QED
  BY <1>1, <1>2, <1>3, PTL DEF NoiseSpec

-----------------------------------------------------------------------------
(***************************************************************************)
(* The control session on the wire.                                        *)
(***************************************************************************)

Whats == {"hello", "auth", "len", "register", "other", "ok", "fail", "verdict", "beat"}
Pieces == [what : Whats, age : 0..MaxDelay]
Queues == [Conns -> Seq(Pieces)]
Aging(q) == \A i, j \in DOMAIN q : i <= j => q[j].age <= q[i].age
Has(q, p) == \E i \in DOMAIN q : q[i].what = p

(* What is under way, the older pieces first.                              *)
QueuesOk == up \in Queues /\ down \in Queues /\ \A n \in Conns : Aging(up[n])

(* Connections are dialed in order and belong to a server generation that  *)
(* has been.                                                               *)
CountOk ==
    /\ now \in 1..MaxShuts + 1 /\ serverUp \in BOOLEAN /\ (~serverUp => now <= MaxShuts)
    /\ cs # "dial" => cn \in Conns
    /\ \A n \in Conns : (n > cn => srv[n] = "none") /\ gen[n] <= now

(* On a connection that works, what the client has read or will read of    *)
(* the server's answers is what the server's task has written.             *)
StageOk ==
    \A n \in Conns : net[n] = "ok" =>
        /\ srv[n] # "ended"
        /\ Has(down[n], "ok") => srv[n] \in {"publish", "serve"}
        /\ Has(down[n], "verdict") => srv[n] = "serve"
        /\ cn = n /\ cs = "verdict" => srv[n] \in {"publish", "serve"}
        /\ cn = n /\ cs = "run" => srv[n] = "serve"

(* How long the client can have waited: it saw no silence longer than the  *)
(* age of anything it wrote, and no longer than the server's own silence   *)
(* and the delay of what the server last wrote.  This bounds the wait by   *)
(* Beat + 2 * MaxDelay, which the floor of the timeout exceeds.            *)
ClockOk ==
    cs = "run" /\ net[cn] = "ok" /\ Timeout > 0 /\ Beat > 0 =>
        /\ \A i \in DOMAIN up[cn] : quiet <= up[cn][i].age
        /\ down[cn] = <<>> => quiet <= idle[cn] + MaxDelay
        /\ down[cn] # <<>> => quiet <= Beat + MaxDelay + Head(down[cn]).age

WireInv == WireTypeOK /\ QueuesOk /\ CountOk /\ RegistryMatches /\ StageOk /\ ClockOk

-----------------------------------------------------------------------------
LEMMA WireNumbers ==
  /\ MaxConns \in Nat \ {0} /\ MaxCmds \in Nat /\ MaxBreaks \in Nat /\ MaxShuts \in Nat
  /\ Beat \in Nat /\ MaxDelay \in 0..3 /\ Conns \subseteq Nat \ {0} /\ 1 \in Conns
  /\ \A n : n \in Conns <=> n \in Nat /\ 1 <= n /\ n <= MaxConns
BY WireConstants DEF Conns

LEMMA TimeoutBounds ==
  /\ Floor \in Nat /\ Timeout \in Int
  /\ Beat > 0 /\ Timeout > 0 => Timeout >= Floor /\ Floor >= 10 /\ Floor >= 2 * Beat + 5
<1>1. Floor \in Nat /\ (Beat > 0 => Floor >= 10 /\ Floor >= 2 * Beat + 5)
  BY WireNumbers DEF Floor
<1>2. CASE Configured = {}
  BY <1>1, <1>2 DEF Timeout
<1>3. CASE Configured # {} /\ 0 \in Configured
  BY <1>1, <1>3 DEF Timeout
<1>4. CASE Configured # {} /\ 0 \notin Configured
  <2> DEFINE t == CHOOSE t \in Configured : TRUE
  <2>1. t \in Nat
    BY <1>4, WireConstants
  <2>2. Timeout = IF t < Floor THEN -1 ELSE t
    BY <1>4 DEF Timeout
  <2> HIDE DEF t
  <2> QED
    BY <1>1, <2>1, <2>2
<1> QED
  BY <1>2, <1>3, <1>4

LEMMA PieceLooks ==
  /\ \A p \in Whats : Piece(p) \in Pieces /\ Piece(p).what = p /\ Piece(p).age = 0
  /\ \A x \in Pieces : x.what \in Whats /\ x.age \in Nat /\ x.age <= MaxDelay
BY WireNumbers DEF Piece, Pieces

(* Pieces written: they follow what is under way, with age 0.              *)
LEMMA Appended ==
  ASSUME NEW q \in Seq(Pieces), NEW t \in Seq(Pieces), \A i \in DOMAIN t : t[i].age = 0
  PROVE  /\ q \o t \in Seq(Pieces)
         /\ Aging(q) => Aging(q \o t)
         /\ \A i \in DOMAIN (q \o t) : (q \o t)[i].age = 0 \/ (i \in DOMAIN q /\ (q \o t)[i] = q[i])
         /\ \A p : Has(q \o t, p) => Has(q, p) \/ Has(t, p)
         /\ q # <<>> => q \o t # <<>> /\ Head(q \o t) = Head(q)
         /\ q = <<>> => q \o t = t
<1>1. q \o t \in Seq(Pieces) /\ DOMAIN q = 1..Len(q) /\ DOMAIN t = 1..Len(t) /\ DOMAIN (q \o t) = 1..(Len(q) + Len(t))
      /\ Len(q) \in Nat /\ Len(t) \in Nat
  OBVIOUS
<1>2. ASSUME NEW i \in 1..(Len(q) + Len(t))
      PROVE  \/ i \in DOMAIN q /\ (q \o t)[i] = q[i]
             \/ (i - Len(q)) \in DOMAIN t /\ i > Len(q) /\ (q \o t)[i] = t[i - Len(q)]
  BY <1>1
<1>3. \A i \in DOMAIN q : q[i] \in Pieces /\ q[i].age \in Nat
  BY PieceLooks
<1>4. \A i \in DOMAIN (q \o t) : (q \o t)[i].age = 0 \/ (i \in DOMAIN q /\ (q \o t)[i] = q[i])
  BY <1>1, <1>2
<1>5. ASSUME Aging(q), NEW i \in DOMAIN (q \o t), NEW j \in DOMAIN (q \o t), i <= j
      PROVE  (q \o t)[j].age <= (q \o t)[i].age
  <2>1. CASE j \in DOMAIN q
    <3>1. i \in DOMAIN q /\ (q \o t)[i] = q[i] /\ (q \o t)[j] = q[j]
      BY <1>1, <1>2, <1>5, <2>1
    <3>2. q[j].age <= q[i].age
      BY <1>5, <2>1, <3>1 DEF Aging
    <3> QED
      BY ONLY <3>1, <3>2
  <2>2. CASE j \notin DOMAIN q
    BY <1>1, <1>2, <1>3, <1>5, <2>2
  <2> QED
    BY <2>1, <2>2
<1>6. ASSUME NEW p, Has(q \o t, p) PROVE Has(q, p) \/ Has(t, p)
  BY <1>1, <1>2, <1>6 DEF Has
<1>7. q # <<>> => q \o t # <<>> /\ Head(q \o t) = Head(q)
  BY <1>1
<1>8. Aging(q) => Aging(q \o t)
  BY <1>5 DEF Aging
<1>9. q = <<>> => q \o t = t
  OBVIOUS
<1> QED
  BY <1>1, <1>4, <1>6, <1>7, <1>8, <1>9

LEMMA Taken ==
  ASSUME NEW q \in Seq(Pieces), q # <<>>
  PROVE  /\ Tail(q) \in Seq(Pieces) /\ Head(q) \in Pieces
         /\ Aging(q) => Aging(Tail(q))
         /\ \A i \in DOMAIN Tail(q) : i + 1 \in DOMAIN q /\ Tail(q)[i] = q[i + 1]
         /\ \A p : Has(Tail(q), p) => Has(q, p)
         /\ Has(q, Head(q).what)
<1>1. /\ Tail(q) \in Seq(Pieces) /\ Head(q) = q[1] /\ 1 \in DOMAIN q
      /\ \A i \in DOMAIN Tail(q) : i + 1 \in DOMAIN q /\ Tail(q)[i] = q[i + 1] /\ i \in Nat
  OBVIOUS
<1>2. ASSUME Aging(q), NEW i \in DOMAIN Tail(q), NEW j \in DOMAIN Tail(q), i <= j
      PROVE  Tail(q)[j].age <= Tail(q)[i].age
  BY <1>1, <1>2 DEF Aging
<1> QED
  BY <1>1, <1>2 DEF Aging, Has

(* The queue of connection n after a write of pieces of the kinds P.       *)
Gains(q, z, n, P) ==
    /\ z \in Queues
    /\ \A m \in Conns : m # n => z[m] = q[m]
    /\ \A m \in Conns : Aging(q[m]) => Aging(z[m])
    /\ \A m \in Conns : \A v : Has(z[m], v) => Has(q[m], v) \/ (m = n /\ v \in P)
    /\ \A m \in Conns : q[m] # <<>> => z[m] # <<>> /\ Head(z[m]) = Head(q[m])
    /\ q[n] = <<>> /\ net[n] = "ok" => z[n] # <<>> /\ Head(z[n]).age = 0

(* write_session_cmd and its like on one connection.                       *)
LEMMA Sent ==
  ASSUME NEW q \in Queues, NEW n \in Conns, NEW ps \in Seq(Whats), ps # <<>>,
         NEW P, \A i \in DOMAIN ps : ps[i] \in P, NEW z, z = Send(q, n, ps)
  PROVE  Gains(q, z, n, P)
<1> DEFINE t == [i \in DOMAIN ps |-> Piece(ps[i])]
<1>1. t \in Seq(Pieces) /\ DOMAIN t = DOMAIN ps /\ Len(t) = Len(ps) /\ Len(t) \in Nat
  <2>1. DOMAIN ps = 1..Len(ps) /\ Len(ps) \in Nat /\ \A i \in DOMAIN ps : Piece(ps[i]) \in Pieces
    BY PieceLooks
  <2> QED
    BY <2>1
<1>2. \A i \in DOMAIN t : t[i].age = 0 /\ t[i].what = ps[i]
  BY <1>1, PieceLooks
<1>3. z = [q EXCEPT ![n] = IF net[n] = "ok" THEN @ \o t ELSE @]
  BY DEF Send
<1> HIDE DEF t
<1>4. q[n] \in Seq(Pieces)
  BY DEF Queues
<1>5. CASE net[n] = "ok"
  <2> DEFINE s == q[n] \o t
  <2>1. z = [q EXCEPT ![n] = s]
    BY <1>3, <1>5 DEF Queues
  <2>2. /\ s \in Seq(Pieces) /\ (Aging(q[n]) => Aging(s))
        /\ \A i \in DOMAIN s : s[i].age = 0 \/ (i \in DOMAIN q[n] /\ s[i] = q[n][i])
        /\ \A p : Has(s, p) => Has(q[n], p) \/ Has(t, p)
        /\ q[n] # <<>> => s # <<>> /\ Head(s) = Head(q[n])
        /\ q[n] = <<>> => s = t
    <3>1. \A i \in DOMAIN t : t[i].age = 0
      BY <1>2
    <3> QED
      BY ONLY <1>1, <1>4, <3>1, Appended
  <2>3. \A p : Has(t, p) => p \in P
    BY <1>1, <1>2 DEF Has
  <2>4. t # <<>> /\ Head(t).age = 0
    <3>1. Len(ps) > 0
      OBVIOUS
    <3>2. 1 \in DOMAIN t /\ t # <<>>
      BY <1>1, <3>1
    <3> QED
      BY <1>1, <1>2, <3>2
  <2> HIDE DEF s
  <2>5. z \in Queues /\ z[n] = s /\ \A m \in Conns : m # n => z[m] = q[m]
    BY <2>1, <2>2 DEF Queues
  <2> QED
    BY <1>5, <2>2, <2>3, <2>4, <2>5 DEF Gains
<1>6. CASE net[n] # "ok"
  <2>1. z = q
    BY <1>3, <1>6 DEF Queues
  <2> QED
    BY <1>6, <2>1 DEF Gains
<1> QED
  BY <1>5, <1>6

(* A piece read on one connection.                                         *)
LEMMA Read ==
  ASSUME NEW q \in Queues, NEW n \in Conns, NEW p, Arrives(q, n, p), NEW z, z = Unread(q, n)
  PROVE  /\ z \in Queues /\ Has(q[n], p) /\ q[n] # <<>> /\ Head(q[n]).age \in 0..MaxDelay
         /\ \A m \in Conns : m # n => z[m] = q[m]
         /\ \A m \in Conns : Aging(q[m]) => Aging(z[m])
         /\ \A m \in Conns : \A i \in DOMAIN z[m] : \E j \in DOMAIN q[m] : z[m][i] = q[m][j]
         /\ \A m \in Conns : \A v : Has(z[m], v) => Has(q[m], v)
<1>1. q[n] \in Seq(Pieces) /\ q[n] # <<>> /\ Head(q[n]).what = p
  BY DEF Queues, Arrives
<1> DEFINE s == Tail(q[n])
<1>2. /\ s \in Seq(Pieces) /\ (Aging(q[n]) => Aging(s)) /\ Head(q[n]) \in Pieces
      /\ \A i \in DOMAIN s : i + 1 \in DOMAIN q[n] /\ s[i] = q[n][i + 1]
      /\ (\A v : Has(s, v) => Has(q[n], v)) /\ Has(q[n], p)
  BY <1>1, Taken
<1>3. z = [q EXCEPT ![n] = s]
  BY DEF Unread, Queues
<1> HIDE DEF s
<1>4. z \in Queues /\ z[n] = s /\ \A m \in Conns : m # n => z[m] = q[m]
  BY <1>2, <1>3 DEF Queues
<1>5. Head(q[n]).age \in 0..MaxDelay
  BY <1>2 DEF Pieces
<1>6. ASSUME NEW m \in Conns
      PROVE  /\ Aging(q[m]) => Aging(z[m])
             /\ \A i \in DOMAIN z[m] : \E j \in DOMAIN q[m] : z[m][i] = q[m][j]
             /\ \A v : Has(z[m], v) => Has(q[m], v)
  <2>1. CASE m = n
    BY <1>2, <1>4, <2>1
  <2>2. CASE m # n
    BY <1>4, <2>2
  <2> QED
    BY <2>1, <2>2
<1> QED
  BY <1>1, <1>2, <1>4, <1>5, <1>6

(* A second on every connection.                                           *)
LEMMA Elapsed ==
  ASSUME NEW q \in Queues, NEW z, z = Older(q)
  PROVE  /\ z \in Queues
         /\ \A n \in Conns : /\ DOMAIN z[n] = DOMAIN q[n]
                             /\ z[n] = <<>> <=> q[n] = <<>>
                             /\ \A i \in DOMAIN q[n] :
                                  /\ z[n][i].what = q[n][i].what
                                  /\ z[n][i].age = IF q[n][i].age < MaxDelay THEN q[n][i].age + 1 ELSE q[n][i].age
                             /\ Aging(q[n]) => Aging(z[n])
                             /\ \A p : Has(z[n], p) => Has(q[n], p)
<1> DEFINE a(x) == IF x.age < MaxDelay THEN x.age + 1 ELSE x.age
           o(x) == [x EXCEPT !.age = a(x)]
<1>1. ASSUME NEW x \in Pieces PROVE o(x) \in Pieces /\ o(x).what = x.what /\ o(x).age = a(x) /\ a(x) \in 0..MaxDelay
  <2>1. a(x) \in 0..MaxDelay
    BY WireNumbers DEF Pieces
  <2> HIDE DEF a
  <2> QED
    BY <2>1 DEF Pieces
<1>2. ASSUME NEW x \in Pieces, NEW y \in Pieces, x.age <= y.age PROVE a(x) <= a(y)
  BY <1>2, WireNumbers, PieceLooks
<1>3. z = [n \in Conns |-> [i \in DOMAIN q[n] |-> o(q[n][i])]]
  BY DEF Older
<1> HIDE DEF o
<1>4. ASSUME NEW n \in Conns
      PROVE  /\ z[n] \in Seq(Pieces) /\ DOMAIN z[n] = DOMAIN q[n]
             /\ z[n] = <<>> <=> q[n] = <<>>
             /\ \A i \in DOMAIN q[n] : z[n][i] = o(q[n][i]) /\ q[n][i] \in Pieces
  <2>1. q[n] \in Seq(Pieces)
    BY DEF Queues
  <2>2. z[n] = [i \in DOMAIN q[n] |-> o(q[n][i])]
    BY <1>3
  <2>3. DOMAIN q[n] = 1..Len(q[n]) /\ Len(q[n]) \in Nat /\ \A i \in DOMAIN q[n] : q[n][i] \in Pieces
    BY <2>1
  <2>4. z[n] \in Seq(Pieces) /\ Len(z[n]) = Len(q[n])
    BY <1>1, <2>2, <2>3
  <2> QED
    BY <2>1, <2>2, <2>3, <2>4
<1>5. z \in Queues
  BY <1>3, <1>4 DEF Queues
<1>6. ASSUME NEW n \in Conns, Aging(q[n]) PROVE Aging(z[n])
  <2> SUFFICES ASSUME NEW i \in DOMAIN q[n], NEW j \in DOMAIN q[n], i <= j PROVE z[n][j].age <= z[n][i].age
    BY <1>4 DEF Aging
  <2>1. q[n][j].age <= q[n][i].age
    BY <1>6 DEF Aging
  <2>2. a(q[n][j]) <= a(q[n][i])
    BY <1>2, <1>4, <2>1
  <2> HIDE DEF a
  <2> QED
    BY <1>1, <1>4, <2>2
<1>7. ASSUME NEW n \in Conns, NEW i \in DOMAIN q[n]
      PROVE  z[n][i].what = q[n][i].what /\ z[n][i].age = a(q[n][i])
  BY <1>1, <1>4
<1>8. ASSUME NEW n \in Conns, NEW p, Has(z[n], p) PROVE Has(q[n], p)
  BY <1>4, <1>7, <1>8 DEF Has
<1> QED
  BY <1>4, <1>5, <1>6, <1>7, <1>8

-----------------------------------------------------------------------------
LEMMA WireBegins == WireInit => WireInv
<1> SUFFICES ASSUME WireInit PROVE WireInv
  OBVIOUS
<1> USE WireNumbers
<1>1. WireTypeOK
  BY DEF WireInit, WireTypeOK
<1>2. QueuesOk
  <2>1. <<>> \in Seq(Pieces) /\ DOMAIN <<>> = {}
    OBVIOUS
  <2> QED
    BY <2>1 DEF WireInit, QueuesOk, Queues, Aging
<1>3. CountOk
  BY DEF WireInit, CountOk
<1>4. RegistryMatches
  BY DEF WireInit, RegistryMatches
<1>5. StageOk
  BY DEF WireInit, StageOk, Has
<1>6. ClockOk
  BY DEF WireInit, ClockOk
<1> QED
  BY <1>1, <1>2, <1>3, <1>4, <1>5, <1>6 DEF WireInv

(* The clock of a client whose loop has just turned is in order.           *)
LEMMA ClockReset ==
  ASSUME WireTypeOK', QueuesOk', cs' = "run" => quiet' = 0 /\ cn' \in Conns
  PROVE  ClockOk'
<1> SUFFICES ASSUME cs' = "run", quiet' = 0, cn' \in Conns PROVE ClockOk'
  BY DEF ClockOk
<1>1. up'[cn'] \in Seq(Pieces) /\ down'[cn'] \in Seq(Pieces) /\ idle'[cn'] \in Nat
  BY WireNumbers DEF QueuesOk, Queues, WireTypeOK
<1>2. \A i \in DOMAIN up'[cn'] : 0 <= up'[cn'][i].age
  BY <1>1, PieceLooks
<1>3. down'[cn'] # <<>> => Head(down'[cn']).age \in Nat
  BY <1>1, PieceLooks
<1>4. 0 <= idle'[cn'] + MaxDelay
  BY <1>1, WireNumbers
<1>5. down'[cn'] # <<>> => 0 <= Beat + MaxDelay + Head(down'[cn']).age
  BY <1>3, WireNumbers
<1> QED
  BY <1>2, <1>4, <1>5 DEF ClockOk

(* A clock whose client, connection and queues did not move.               *)
LEMMA ClockKept ==
  ASSUME ClockOk, cs' = cs, cn' = cn, quiet' = quiet,
         net'[cn] = "ok" => net[cn] = "ok" /\ up'[cn] = up[cn] /\ down'[cn] = down[cn] /\ idle'[cn] = idle[cn]
  PROVE  ClockOk'
BY DEF ClockOk

LEMMA Closed ==
  ASSUME WireTypeOK, NEW n \in Conns, Close(n)
  PROVE  /\ net' \in [Conns -> {"ok", "closed", "silent"}] /\ net'[n] # "ok"
         /\ \A m \in Conns : m # n => net'[m] = net[m]
BY DEF WireTypeOK, Close

LEMMA SentOne ==
  ASSUME NEW q \in Queues, NEW n \in Conns, NEW p \in Whats, NEW z, z = Send(q, n, <<p>>)
  PROVE  Gains(q, z, n, {p})
<1> DEFINE ps == <<p>>
<1>1. ps \in Seq(Whats) /\ ps # <<>> /\ \A i \in DOMAIN ps : ps[i] \in {p}
  OBVIOUS
<1>2. z = Send(q, n, ps)
  OBVIOUS
<1> HIDE DEF ps
<1> QED
  BY <1>1, <1>2, Sent

LEMMA SentCommand ==
  ASSUME NEW q \in Queues, NEW n \in Conns, NEW b \in BOOLEAN, NEW z, z = Send(q, n, Command(b))
  PROVE  Gains(q, z, n, Whats)
<1> DEFINE ps == Command(b)
<1>1. \A x, y \in Whats : <<x, y>> \in Seq(Whats) /\ <<x, y>> # <<>>
  OBVIOUS
<1>2. ps \in Seq(Whats) /\ ps # <<>>
  BY <1>1 DEF Command, Whats
<1>3. \A i \in DOMAIN ps : ps[i] \in Whats
  <2> HIDE DEF ps
  <2> QED
    BY <1>2
<1> HIDE DEF ps
<1> QED
  BY <1>2, <1>3, Sent DEF ps

LEMMA StepDial ==
  ASSUME WireInv, Dial
  PROVE  WireInv'
<1> USE DEF WireInv
<1> DEFINE n == cn + 1
<1>1. /\ n \in Conns /\ cn' = n /\ cs' = "hello" /\ srv[n] = "none" /\ up' = Send(up, n, <<"hello">>)
      /\ srv' = [srv EXCEPT ![n] = "hello"] /\ gen' = [gen EXCEPT ![n] = now] /\ cn \in Nat
      /\ UNCHANGED <<quiet, half, idle, down, net, now, serverUp, sessions, token>>
  BY WireNumbers DEF Dial, WireTypeOK, CountOk
<1> HIDE DEF n
<1>2. WireTypeOK'
  BY <1>1, WireNumbers DEF WireTypeOK, CountOk
<1>3. QueuesOk'
  <2>1. Gains(up, up', n, {"hello"})
    BY <1>1, SentOne DEF QueuesOk, Whats
  <2> QED
    BY <1>1, <2>1 DEF QueuesOk, Gains
<1>4. CountOk'
  BY <1>1, WireNumbers DEF CountOk, WireTypeOK, n
<1>5. RegistryMatches'
  BY <1>1 DEF RegistryMatches, WireTypeOK
<1>6. StageOk'
  BY <1>1 DEF StageOk, WireTypeOK
<1>7. ClockOk'
  BY <1>1 DEF ClockOk
<1> QED
  BY <1>2, <1>3, <1>4, <1>5, <1>6, <1>7

LEMMA StepClientHello ==
  ASSUME WireInv, ClientHello
  PROVE  WireInv'
<1> USE DEF WireInv
<1>1. /\ cn \in Conns /\ cn' = cn /\ cs' = "ack" /\ Arrives(down, cn, "hello")
      /\ up' = Send(up, cn, <<"auth">>) /\ down' = Unread(down, cn)
      /\ UNCHANGED <<quiet, srv, half, idle, net, gen, now, serverUp, sessions, token>>
  BY DEF ClientHello, CountOk
<1>2. WireTypeOK'
  BY <1>1 DEF WireTypeOK
<1>3. QueuesOk'
  <2>1. Gains(up, up', cn, {"auth"})
    BY <1>1, SentOne DEF QueuesOk, Whats
  <2> QED
    BY <1>1, <2>1, Read DEF QueuesOk, Gains
<1>4. CountOk'
  BY <1>1 DEF CountOk
<1>5. RegistryMatches'
  BY <1>1 DEF RegistryMatches
<1>6. StageOk'
  <2>1. \A m \in Conns : \A v : Has(down'[m], v) => Has(down[m], v)
    BY <1>1, Read DEF QueuesOk
  <2> QED
    BY <1>1, <2>1 DEF StageOk
<1>7. ClockOk'
  BY <1>1 DEF ClockOk
<1> QED
  BY <1>2, <1>3, <1>4, <1>5, <1>6, <1>7

LEMMA StepClientAck ==
  ASSUME WireInv, NEW p \in {"ok", "fail"}, ClientAck(p)
  PROVE  WireInv'
<1> USE DEF WireInv
<1>1. /\ cn \in Conns /\ cn' = cn /\ cs' \in {"verdict", "fatal"} /\ Arrives(down, cn, p)
      /\ down' = Unread(down, cn) /\ (cs' = "verdict" => p = "ok")
      /\ \/ net' = net /\ up' = Send(up, cn, Command(TRUE))
         \/ up' = up /\ Close(cn) /\ cs' = "fatal"
      /\ UNCHANGED <<quiet, srv, half, idle, gen, now, serverUp, sessions, token>>
  BY DEF ClientAck, CountOk
<1>a. /\ net' \in [Conns -> {"ok", "closed", "silent"}]
      /\ \A m \in Conns : net'[m] = "ok" => net[m] = "ok"
  BY <1>1, Closed DEF WireTypeOK
<1>2. WireTypeOK'
  BY <1>1, <1>a DEF WireTypeOK
<1>3. QueuesOk'
  <2>1. up' = up \/ Gains(up, up', cn, Whats)
    BY <1>1, SentCommand DEF QueuesOk
  <2>2. down' \in Queues
    BY <1>1, Read DEF QueuesOk
  <2> QED
    BY <2>1, <2>2 DEF QueuesOk, Gains
<1>4. CountOk'
  BY <1>1 DEF CountOk
<1>5. RegistryMatches'
  BY <1>1 DEF RegistryMatches
<1>6. StageOk'
  <2>1. (\A m \in Conns : \A v : Has(down'[m], v) => Has(down[m], v)) /\ Has(down[cn], p)
    BY <1>1, Read DEF QueuesOk
  <2> QED
    BY <1>1, <1>a, <2>1 DEF StageOk
<1>7. ClockOk'
  BY <1>1 DEF ClockOk
<1> QED
  BY <1>2, <1>3, <1>4, <1>5, <1>6, <1>7

(* A verdict or a heartbeat.                                               *)
LEMMA StepClientReads ==
  ASSUME WireInv, ClientVerdict \/ ClientBeat
  PROVE  WireInv'
<1> USE DEF WireInv
<1>1. PICK p : /\ cn \in Conns /\ cn' = cn /\ Arrives(down, cn, p) /\ down' = Unread(down, cn)
               /\ (cs' = "run" /\ p = "verdict") \/ (cs' = cs /\ cs \in {"run", "verdict"})
               /\ quiet' = 0
               /\ UNCHANGED <<srv, half, idle, up, net, gen, now, serverUp, sessions, token>>
  BY DEF ClientVerdict, ClientBeat, CountOk
<1>2. WireTypeOK'
  BY <1>1 DEF WireTypeOK
<1>3. QueuesOk'
  BY <1>1, Read DEF QueuesOk
<1>4. CountOk'
  BY <1>1 DEF CountOk
<1>5. RegistryMatches'
  BY <1>1 DEF RegistryMatches
<1>6. StageOk'
  <2>1. (\A m \in Conns : \A v : Has(down'[m], v) => Has(down[m], v)) /\ Has(down[cn], p)
    BY <1>1, Read DEF QueuesOk
  <2> QED
    BY <1>1, <2>1 DEF StageOk
<1>7. ClockOk'
  BY <1>1, <1>2, <1>3, ClockReset
<1> QED
  BY <1>2, <1>3, <1>4, <1>5, <1>6, <1>7

LEMMA StepClientRequests ==
  ASSUME WireInv, NEW register \in BOOLEAN, ClientRequests(register)
  PROVE  WireInv'
<1> USE DEF WireInv
<1>1. /\ cn \in Conns /\ cn' = cn /\ cs = "run" /\ cs' \in {"run", "verdict"} /\ quiet' = 0
      /\ up' = Send(up, cn, Command(register))
      /\ UNCHANGED <<srv, half, idle, down, net, gen, now, serverUp, sessions, token>>
  BY DEF ClientRequests, CountOk
<1>2. WireTypeOK'
  BY <1>1 DEF WireTypeOK
<1>3. QueuesOk'
  BY <1>1, SentCommand DEF QueuesOk, Gains
<1>4. CountOk'
  BY <1>1 DEF CountOk
<1>5. RegistryMatches'
  BY <1>1 DEF RegistryMatches
<1>6. StageOk'
  BY <1>1 DEF StageOk
<1>7. ClockOk'
  BY <1>1, <1>2, <1>3, ClockReset
<1> QED
  BY <1>2, <1>3, <1>4, <1>5, <1>6, <1>7

LEMMA StepClientLeaves ==
  ASSUME WireInv, ClientTimesOut \/ ClientSeesClose
  PROVE  WireInv'
<1> USE DEF WireInv
<1>1. /\ cn \in Conns /\ cn' = cn /\ cs' \in {"dial", "fatal"} /\ quiet' = 0
      /\ net' = net \/ Close(cn)
      /\ UNCHANGED <<srv, half, idle, up, down, gen, now, serverUp, sessions, token>>
  BY DEF ClientTimesOut, ClientSeesClose, SeesCloseIn, AfterClose, CountOk
<1>a. /\ net' \in [Conns -> {"ok", "closed", "silent"}]
      /\ \A m \in Conns : net'[m] = "ok" => net[m] = "ok"
  BY <1>1, Closed DEF WireTypeOK
<1>2. WireTypeOK'
  BY <1>1, <1>a DEF WireTypeOK
<1>3. QueuesOk'
  BY <1>1 DEF QueuesOk
<1>4. CountOk'
  BY <1>1 DEF CountOk
<1>5. RegistryMatches'
  BY <1>1 DEF RegistryMatches
<1>6. StageOk'
  BY <1>1, <1>a DEF StageOk
<1>7. ClockOk'
  BY <1>1 DEF ClockOk
<1> QED
  BY <1>2, <1>3, <1>4, <1>5, <1>6, <1>7

-----------------------------------------------------------------------------
LEMMA StepServerHello ==
  ASSUME WireInv, NEW n \in Conns, ServerHello(n)
  PROVE  WireInv'
<1> USE DEF WireInv
<1>1. /\ srv[n] = "hello" /\ Arrives(up, n, "hello") /\ up' = Unread(up, n) /\ down' = Send(down, n, <<"hello">>)
      /\ srv' = [srv EXCEPT ![n] = "auth"]
      /\ UNCHANGED <<cs, cn, quiet, half, idle, net, gen, now, serverUp, sessions, token>>
  BY DEF ServerHello
<1>b. Gains(down, down', n, {"hello"})
  BY <1>1, SentOne DEF QueuesOk, Whats
<1>c. /\ up' \in Queues /\ (\A m \in Conns : m # n => up'[m] = up[m])
      /\ \A m \in Conns : Aging(up[m]) => Aging(up'[m])
  BY <1>1, Read DEF QueuesOk
<1>2. WireTypeOK'
  BY <1>1 DEF WireTypeOK
<1>3. QueuesOk'
  BY <1>b, <1>c DEF QueuesOk, Gains
<1>4. CountOk'
  BY <1>1 DEF CountOk, WireTypeOK
<1>5. RegistryMatches'
  BY <1>1 DEF RegistryMatches, WireTypeOK
<1>6. StageOk'
  <2>1. \A m \in Conns : \A v \in {"ok", "verdict"} : Has(down'[m], v) => Has(down[m], v)
    BY <1>1, <1>b DEF Gains
  <2> QED
    BY <1>1, <2>1 DEF StageOk, WireTypeOK
<1>7. ClockOk'
  <2>1. CASE cs = "run" /\ net[cn] = "ok"
    <3>1. cn \in Conns /\ cn # n
      BY <1>1, <2>1 DEF CountOk, StageOk
    <3>2. up'[cn] = up[cn] /\ down'[cn] = down[cn]
      BY <1>b, <1>c, <3>1 DEF Gains
    <3> QED
      BY <1>1, <3>2, ClockKept
  <2>2. CASE ~(cs = "run" /\ net[cn] = "ok")
    BY <1>1, <2>2 DEF ClockOk
  <2> QED
    BY <2>1, <2>2
<1> QED
  BY <1>2, <1>3, <1>4, <1>5, <1>6, <1>7

LEMMA StepServerAuth ==
  ASSUME WireInv, NEW n \in Conns, ServerAuth(n)
  PROVE  WireInv'
<1> USE DEF WireInv
<1>1. PICK a \in {"ok", "fail"} :
        /\ srv[n] = "auth" /\ Arrives(up, n, "auth") /\ up' = Unread(up, n) /\ down' = Send(down, n, <<a>>)
        /\ \/ a = "ok" /\ srv' = [srv EXCEPT ![n] = "publish"] /\ net' = net
           \/ a = "fail" /\ srv' = [srv EXCEPT ![n] = "ended"] /\ Close(n)
        /\ UNCHANGED <<cs, cn, quiet, half, idle, gen, now, serverUp, sessions, token>>
  BY DEF ServerAuth
<1>a. /\ net' \in [Conns -> {"ok", "closed", "silent"}]
      /\ \A m \in Conns : net'[m] = "ok" => net[m] = "ok"
      /\ net'[n] = "ok" => a = "ok" /\ srv' = [srv EXCEPT ![n] = "publish"]
  BY <1>1, Closed DEF WireTypeOK
<1>b. Gains(down, down', n, {a})
  BY <1>1, SentOne DEF QueuesOk, Whats
<1>c. /\ up' \in Queues /\ (\A m \in Conns : m # n => up'[m] = up[m])
      /\ \A m \in Conns : Aging(up[m]) => Aging(up'[m])
  BY <1>1, Read DEF QueuesOk
<1>2. WireTypeOK'
  BY <1>1, <1>a DEF WireTypeOK
<1>3. QueuesOk'
  BY <1>b, <1>c DEF QueuesOk, Gains
<1>4. CountOk'
  BY <1>1 DEF CountOk, WireTypeOK
<1>5. RegistryMatches'
  BY <1>1 DEF RegistryMatches, WireTypeOK
<1>6. StageOk'
  <2>1. \A m \in Conns : Has(down'[m], "verdict") => Has(down[m], "verdict")
    BY <1>1, <1>b DEF Gains
  <2>2. \A m \in Conns : m # n => down'[m] = down[m]
    BY <1>1, <1>b DEF Gains
  <2>3. ASSUME NEW m \in Conns, net'[m] = "ok", m # n
        PROVE  /\ srv'[m] = srv[m] /\ down'[m] = down[m] /\ net[m] = "ok"
    BY <1>1, <1>a, <2>2, <2>3 DEF WireTypeOK
  <2>4. net'[n] = "ok" => srv'[n] = "publish" /\ net[n] = "ok" /\ ~Has(down'[n], "verdict") /\ ~(cn = n /\ cs \in {"verdict", "run"})
    BY <1>1, <1>a, <2>1 DEF StageOk, WireTypeOK
  <2> QED
    BY <1>1, <2>3, <2>4 DEF StageOk
<1>7. ClockOk'
  <2>1. CASE cs = "run" /\ net[cn] = "ok"
    <3>1. cn \in Conns /\ cn # n
      BY <1>1, <2>1 DEF CountOk, StageOk
    <3>2. up'[cn] = up[cn] /\ down'[cn] = down[cn]
      BY <1>b, <1>c, <3>1 DEF Gains
    <3> QED
      BY <1>1, <2>1, <3>2, ClockKept
  <2>2. CASE cs = "run" /\ net[cn] # "ok"
    <3>1. net'[cn] # "ok"
      BY <1>a, <2>2 DEF CountOk
    <3> QED
      BY <1>1, <3>1 DEF ClockOk
  <2>3. CASE cs # "run"
    BY <1>1, <2>3 DEF ClockOk
  <2> QED
    BY <2>1, <2>2, <2>3
<1> QED
  BY <1>2, <1>3, <1>4, <1>5, <1>6, <1>7

LEMMA StepPublish ==
  ASSUME WireInv, NEW n \in Conns, Publish(n)
  PROVE  WireInv'
<1> USE DEF WireInv
<1>1. /\ srv[n] = "publish" /\ sessions' = sessions \cup {n} /\ srv' = [srv EXCEPT ![n] = "serve"]
      /\ idle' = [idle EXCEPT ![n] = 0]
      /\ UNCHANGED <<cs, cn, quiet, half, up, down, net, gen, now, serverUp, token>>
  BY DEF Publish
<1>2. WireTypeOK'
  BY <1>1, WireNumbers DEF WireTypeOK
<1>3. QueuesOk'
  BY <1>1 DEF QueuesOk
<1>4. CountOk'
  BY <1>1 DEF CountOk, WireTypeOK
<1>5. RegistryMatches'
  BY <1>1 DEF RegistryMatches, WireTypeOK
<1>6. StageOk'
  BY <1>1 DEF StageOk, WireTypeOK
<1>7. ClockOk'
  <2>1. CASE cs = "run" /\ net[cn] = "ok"
    <3>1. cn \in Conns /\ cn # n
      BY <1>1, <2>1 DEF CountOk, StageOk
    <3> QED
      BY <1>1, <3>1, ClockKept DEF WireTypeOK
  <2>2. CASE ~(cs = "run" /\ net[cn] = "ok")
    BY <1>1, <2>2 DEF ClockOk
  <2> QED
    BY <2>1, <2>2
<1> QED
  BY <1>2, <1>3, <1>4, <1>5, <1>6, <1>7

(* A piece off the connection: the queue up shrinks, the clocks stand.     *)
LEMMA StepReadLength ==
  ASSUME WireInv, NEW n \in Conns, NEW p, Arrives(up, n, p), up' = Unread(up, n),
         half' \in [Conns -> {"none", "len", "junk"}],
         UNCHANGED <<cs, cn, quiet, srv, idle, down, net, gen, now, serverUp, sessions, token>>
  PROVE  WireInv'
<1> USE DEF WireInv
<1>2. WireTypeOK'
  BY DEF WireTypeOK
<1>3. QueuesOk'
  BY Read DEF QueuesOk
<1>4. CountOk'
  BY DEF CountOk
<1>5. RegistryMatches'
  BY DEF RegistryMatches
<1>6. StageOk'
  BY DEF StageOk
<1>7. ClockOk'
  <2>1. CASE cs = "run" /\ net[cn] = "ok" /\ Timeout > 0 /\ Beat > 0
    <3>1. cn \in Conns
      BY <2>1 DEF CountOk
    <3>2. \A i \in DOMAIN up'[cn] : \E j \in DOMAIN up[cn] : up'[cn][i] = up[cn][j]
      BY <3>1, Read DEF QueuesOk
    <3> QED
      BY <2>1, <3>2 DEF ClockOk
  <2>2. CASE ~(cs = "run" /\ net[cn] = "ok" /\ Timeout > 0 /\ Beat > 0)
    BY <2>2 DEF ClockOk
  <2> QED
    BY <2>1, <2>2
<1> QED
  BY <1>2, <1>3, <1>4, <1>5, <1>6, <1>7

LEMMA StepReadBody ==
  ASSUME WireInv, NEW n \in Conns, NEW p, ReadBody(n, p)
  PROVE  WireInv'
<1> USE DEF WireInv
<1>1. /\ srv[n] = "serve" /\ Arrives(up, n, p) /\ up' = Unread(up, n)
      /\ half' = [half EXCEPT ![n] = "none"] /\ idle' = [idle EXCEPT ![n] = 0]
      /\ down' = Send(down, n, <<"verdict">>) \/ down' = down
      /\ UNCHANGED <<cs, cn, quiet, srv, net, gen, now, serverUp, sessions, token>>
  BY DEF ReadBody
<1>b. down' = down \/ Gains(down, down', n, {"verdict"})
  BY <1>1, SentOne DEF QueuesOk, Whats
<1>c. /\ up' \in Queues /\ (\A m \in Conns : m # n => up'[m] = up[m])
      /\ \A m \in Conns : Aging(up[m]) => Aging(up'[m])
  BY <1>1, Read DEF QueuesOk
<1>2. WireTypeOK'
  BY <1>1, WireNumbers DEF WireTypeOK
<1>3. QueuesOk'
  BY <1>b, <1>c DEF QueuesOk, Gains
<1>4. CountOk'
  BY <1>1 DEF CountOk
<1>5. RegistryMatches'
  BY <1>1 DEF RegistryMatches
<1>6. StageOk'
  <2>1. \A m \in Conns : \A v : Has(down'[m], v) => Has(down[m], v) \/ m = n
    BY <1>b DEF Gains
  <2> QED
    BY <1>1, <2>1 DEF StageOk
<1>7. ClockOk'
  <2>1. CASE cs = "run" /\ net[cn] = "ok" /\ cn # n
    <3>1. cn \in Conns
      BY <2>1 DEF CountOk
    <3>2. up'[cn] = up[cn] /\ down'[cn] = down[cn] /\ idle'[cn] = idle[cn]
      BY <1>1, <1>b, <1>c, <2>1, <3>1 DEF Gains, WireTypeOK
    <3> QED
      BY <1>1, <2>1, <3>2, ClockKept
  <2>2. CASE cs = "run" /\ net[cn] = "ok" /\ cn = n /\ Timeout > 0 /\ Beat > 0
    <3>1. /\ \A i \in DOMAIN up'[n] : \E j \in DOMAIN up[n] : up'[n][i] = up[n][j]
          /\ up[n] # <<>> /\ Head(up[n]).age \in 0..MaxDelay
      BY <1>1, Read DEF QueuesOk
    <3>2. up[n] \in Seq(Pieces)
      BY DEF QueuesOk, Queues
    <3>3. 1 \in DOMAIN up[n] /\ Head(up[n]) = up[n][1]
      BY <3>1, <3>2
    <3>4. quiet <= Head(up[n]).age
      BY <2>2, <3>3 DEF ClockOk
    <3>a. quiet \in Nat
      BY TimeoutBounds DEF WireTypeOK
    <3>5. quiet <= MaxDelay /\ quiet \in Nat
      BY <3>1, <3>4, <3>a, WireNumbers
    <3>6. \A i \in DOMAIN up'[n] : quiet <= up'[n][i].age
      BY <2>2, <3>1 DEF ClockOk
    <3>7. idle'[n] = 0
      BY <1>1 DEF WireTypeOK
    <3>8. \/ down'[n] = <<>>
          \/ down'[n] # <<>> /\ Head(down'[n]).age = 0
          \/ down[n] # <<>> /\ down'[n] # <<>> /\ Head(down'[n]) = Head(down[n])
      BY <1>b, <2>2 DEF Gains
    <3>9. down[n] # <<>> => quiet <= Beat + MaxDelay + Head(down[n]).age
      BY <2>2 DEF ClockOk
    <3> QED
      BY <1>1, <2>2, <3>5, <3>6, <3>7, <3>8, <3>9, WireNumbers DEF ClockOk
  <2>3. CASE ~(cs = "run" /\ net[cn] = "ok" /\ Timeout > 0 /\ Beat > 0)
    BY <1>1, <2>3 DEF ClockOk
  <2> QED
    BY <2>1, <2>2, <2>3
<1> QED
  BY <1>2, <1>3, <1>4, <1>5, <1>6, <1>7

(* The end of a session's task.                                            *)
LEMMA StepTaskEnds ==
  ASSUME WireInv, NEW n \in Conns, srv[n] # "none", TaskEnds(n),
         up' = up \/ ((\E p : Arrives(up, n, p)) /\ up' = Unread(up, n)),
         UNCHANGED <<cs, cn, quiet, half, idle, down, gen, now, serverUp, token>>
  PROVE  WireInv'
<1> USE DEF WireInv
<1>1. /\ srv' = [srv EXCEPT ![n] = "ended"] /\ sessions' = sessions \ {n}
      /\ net' \in [Conns -> {"ok", "closed", "silent"}] /\ net'[n] # "ok"
      /\ \A m \in Conns : m # n => net'[m] = net[m]
  BY Closed DEF TaskEnds, Removed
<1>2. WireTypeOK'
  BY <1>1 DEF WireTypeOK
<1>3. QueuesOk' /\ \A m \in Conns : m # n => up'[m] = up[m]
  BY Read DEF QueuesOk
<1>4. CountOk'
  BY <1>1 DEF CountOk, WireTypeOK
<1>5. RegistryMatches'
  BY <1>1 DEF RegistryMatches, WireTypeOK
<1>6. StageOk'
  BY <1>1 DEF StageOk, WireTypeOK
<1>7. ClockOk'
  BY <1>1, <1>3, ClockKept DEF CountOk, ClockOk
<1> QED
  BY <1>2, <1>3, <1>4, <1>5, <1>6, <1>7

LEMMA StepHeartbeat ==
  ASSUME WireInv, NEW n \in Conns, Heartbeat(n)
  PROVE  WireInv'
<1> USE DEF WireInv
<1>1. /\ srv[n] = "serve" /\ idle[n] = Beat /\ down' = Send(down, n, <<"beat">>)
      /\ idle' = [idle EXCEPT ![n] = 0] /\ half' = [half EXCEPT ![n] = Dropped(n)]
      /\ UNCHANGED <<cs, cn, quiet, srv, up, net, gen, now, serverUp, sessions, token>>
  BY DEF Heartbeat
<1>b. Gains(down, down', n, {"beat"})
  BY <1>1, SentOne DEF QueuesOk, Whats
<1>2. WireTypeOK'
  BY <1>1, WireNumbers DEF WireTypeOK, Dropped
<1>3. QueuesOk'
  BY <1>1, <1>b DEF QueuesOk, Gains
<1>4. CountOk'
  BY <1>1 DEF CountOk
<1>5. RegistryMatches'
  BY <1>1 DEF RegistryMatches
<1>6. StageOk'
  <2>1. \A m \in Conns : \A v \in {"ok", "verdict"} : Has(down'[m], v) => Has(down[m], v)
    BY <1>b DEF Gains
  <2> QED
    BY <1>1, <2>1 DEF StageOk
<1>7. ClockOk'
  <2>1. CASE cs = "run" /\ net[cn] = "ok" /\ cn # n
    <3>1. cn \in Conns
      BY <2>1 DEF CountOk
    <3>2. down'[cn] = down[cn] /\ idle'[cn] = idle[cn]
      BY <1>1, <1>b, <2>1, <3>1 DEF Gains, WireTypeOK
    <3> QED
      BY <1>1, <2>1, <3>2, ClockKept
  <2>2. CASE cs = "run" /\ net[cn] = "ok" /\ cn = n /\ Timeout > 0 /\ Beat > 0
    <3>1. down'[n] # <<>> /\ (down[n] = <<>> => Head(down'[n]).age = 0) /\ (down[n] # <<>> => Head(down'[n]) = Head(down[n]))
      BY <1>b, <2>2 DEF Gains
    <3>2. /\ down[n] = <<>> => quiet <= Beat + MaxDelay
          /\ down[n] # <<>> => quiet <= Beat + MaxDelay + Head(down[n]).age
          /\ \A i \in DOMAIN up[n] : quiet <= up[n][i].age
      BY <1>1, <2>2 DEF ClockOk
    <3> QED
      BY <1>1, <2>2, <3>1, <3>2, WireNumbers DEF ClockOk
  <2>3. CASE ~(cs = "run" /\ net[cn] = "ok" /\ Timeout > 0 /\ Beat > 0)
    BY <1>1, <2>3 DEF ClockOk
  <2> QED
    BY <2>1, <2>2, <2>3
<1> QED
  BY <1>2, <1>3, <1>4, <1>5, <1>6, <1>7

-----------------------------------------------------------------------------
LEMMA StepShutdown ==
  ASSUME WireInv, ServerShutsDown \/ ServerReturns
  PROVE  WireInv'
<1> USE DEF WireInv
<1>1. /\ UNCHANGED <<cs, cn, quiet, srv, half, idle, up, down, net, gen, token>>
      /\ \/ ~serverUp' /\ serverUp' = FALSE /\ now <= MaxShuts /\ now' = now /\ sessions' \subseteq sessions
         \/ ~serverUp /\ serverUp' = TRUE /\ now' = now + 1 /\ sessions' = sessions
  BY DEF ServerShutsDown, ServerReturns, Cleared
<1>2. WireTypeOK'
  BY <1>1 DEF WireTypeOK
<1>3. QueuesOk'
  BY <1>1 DEF QueuesOk
<1>4. CountOk'
  <2>1. now' \in 1..MaxShuts + 1 /\ (~serverUp' => now' <= MaxShuts) /\ now <= now' /\ now \in Nat /\ now' \in Nat
    <3>1. now \in 1..MaxShuts + 1 /\ (~serverUp => now <= MaxShuts) /\ MaxShuts \in Nat
      BY WireNumbers DEF CountOk
    <3> QED
      BY <1>1, <3>1
  <2>3. serverUp' \in BOOLEAN
    BY <1>1
  <2>2. \A n \in Conns : gen[n] \in Nat
    BY WireNumbers DEF WireTypeOK
  <2> QED
    BY <1>1, <2>1, <2>2, <2>3 DEF CountOk
<1>5. RegistryMatches'
  <2>1. \A n \in Conns : gen[n] \in Nat /\ gen[n] <= now /\ now \in Nat
    BY WireNumbers DEF WireTypeOK, CountOk
  <2> QED
    BY <1>1, <2>1 DEF RegistryMatches
<1>6. StageOk'
  BY <1>1 DEF StageOk
<1>7. ClockOk'
  BY <1>1 DEF ClockOk
<1> QED
  BY <1>2, <1>3, <1>4, <1>5, <1>6, <1>7

LEMMA StepNet ==
  ASSUME WireInv, NEW n \in Conns, KernelGivesUp(n) \/ \E how \in {"silent", "closed"} : Breaks(n, how)
  PROVE  WireInv'
<1> USE DEF WireInv
<1>1. /\ UNCHANGED <<cs, cn, quiet, srv, half, idle, gen, now, serverUp, sessions, token>>
      /\ \E how \in {"silent", "closed"} : net' = [net EXCEPT ![n] = how]
      /\ \/ up' = up /\ down' = down
         \/ up' = [up EXCEPT ![n] = <<>>] /\ down' = [down EXCEPT ![n] = <<>>]
  BY DEF KernelGivesUp, Breaks
<1>a. net' \in [Conns -> {"ok", "closed", "silent"}] /\ net'[n] # "ok" /\ \A m \in Conns : m # n => net'[m] = net[m]
  BY <1>1 DEF WireTypeOK
<1>2. WireTypeOK'
  BY <1>1, <1>a DEF WireTypeOK
<1>3. QueuesOk' /\ \A m \in Conns : m # n => up'[m] = up[m] /\ down'[m] = down[m]
  <2>1. <<>> \in Seq(Pieces) /\ Aging(<<>>)
    BY DEF Aging
  <2> QED
    BY <1>1, <2>1 DEF QueuesOk, Queues
<1>4. CountOk'
  BY <1>1 DEF CountOk
<1>5. RegistryMatches'
  BY <1>1 DEF RegistryMatches
<1>6. StageOk'
  <2> SUFFICES ASSUME NEW m \in Conns, net'[m] = "ok" PROVE m # n /\ net[m] = "ok" /\ down'[m] = down[m]
    BY <1>1 DEF StageOk
  <2> QED
    BY <1>a, <1>3
<1>7. ClockOk'
  <2>1. CASE cs = "run"
    BY <1>1, <1>a, <1>3, <2>1, ClockKept DEF CountOk
  <2>2. CASE cs # "run"
    BY <1>1, <2>2 DEF ClockOk
  <2> QED
    BY <2>1, <2>2
<1> QED
  BY <1>2, <1>3, <1>4, <1>5, <1>6, <1>7

LEMMA StepTick ==
  ASSUME WireInv, Tick
  PROVE  WireInv'
<1> USE DEF WireInv
<1>1. /\ cs \in {"run", "verdict"} /\ ~(cs = "run" /\ Overdue) /\ \A n \in Conns : ~Due(n)
      /\ quiet' = IF Timeout > 0 /\ cs = "run" THEN quiet + 1 ELSE 0
      /\ idle' = [n \in Conns |-> IF srv[n] = "serve" /\ Beat > 0 THEN idle[n] + 1 ELSE 0]
      /\ up' = Older(up) /\ down' = Older(down)
      /\ UNCHANGED <<cs, cn, srv, half, net, gen, now, serverUp, sessions, token>>
  BY DEF Tick
<1>2. WireTypeOK'
  <2>1. quiet' \in 0..Timeout \cup {0}
    BY <1>1, TimeoutBounds DEF WireTypeOK, Overdue
  <2>2. ASSUME NEW n \in Conns PROVE idle'[n] \in 0..Beat
    <3>1. srv[n] = "serve" /\ Beat > 0 => idle[n] # Beat
      BY <1>1 DEF Due
    <3>2. idle[n] \in 0..Beat
      BY DEF WireTypeOK
    <3> QED
      BY <1>1, <3>1, <3>2, WireNumbers
  <2>3. idle' \in [Conns -> 0..Beat]
    BY <1>1, <2>2
  <2> QED
    BY <1>1, <2>1, <2>3 DEF WireTypeOK
<1>3. QueuesOk'
  BY <1>1, Elapsed DEF QueuesOk
<1>4. CountOk'
  BY <1>1 DEF CountOk
<1>5. RegistryMatches'
  BY <1>1 DEF RegistryMatches
<1>6. StageOk'
  <2>1. \A m \in Conns : \A v : Has(down'[m], v) => Has(down[m], v)
    BY <1>1, Elapsed DEF QueuesOk
  <2> QED
    BY <1>1, <2>1 DEF StageOk
<1>7. ClockOk'
  <2>1. CASE cs = "run" /\ net[cn] = "ok" /\ Timeout > 0 /\ Beat > 0
    <3>1. cn \in Conns /\ srv[cn] = "serve"
      BY <2>1 DEF CountOk, StageOk
    <3>2. quiet' = quiet + 1 /\ quiet \in Nat /\ idle'[cn] = idle[cn] + 1 /\ idle[cn] \in Nat
      BY <1>1, <2>1, <3>1, WireNumbers, TimeoutBounds DEF WireTypeOK
    <3>3. up[cn] \in Seq(Pieces) /\ down[cn] \in Seq(Pieces) /\ Aging(up[cn])
      BY <3>1 DEF QueuesOk, Queues
    <3>4. /\ up[cn] # <<>> => Head(up[cn]).age # MaxDelay
          /\ down[cn] # <<>> => Head(down[cn]).age # MaxDelay
      BY <1>1, <2>1, <3>1 DEF Due
    <3>5. ASSUME NEW i \in DOMAIN up[cn] PROVE up[cn][i].age \in Nat /\ up[cn][i].age < MaxDelay
      <4>1. up[cn] # <<>> /\ Head(up[cn]) = up[cn][1] /\ 1 \in DOMAIN up[cn] /\ 1 <= i
        BY <3>3
      <4>2. up[cn][i].age <= up[cn][1].age
        BY <3>3, <4>1 DEF Aging
      <4>3. up[cn][i] \in Pieces /\ up[cn][1] \in Pieces
        BY <3>3, <4>1
      <4> QED
        BY <3>4, <4>1, <4>2, <4>3, PieceLooks, WireNumbers
    <3>6. ASSUME NEW i \in DOMAIN up'[cn] PROVE quiet' <= up'[cn][i].age
      <4>1. i \in DOMAIN up[cn] /\ up'[cn][i].age = up[cn][i].age + 1
        BY <1>1, <3>1, <3>5, Elapsed DEF QueuesOk
      <4>2. quiet <= up[cn][i].age
        BY <2>1, <4>1 DEF ClockOk
      <4> QED
        BY <3>2, <3>5, <4>1, <4>2
    <3>7. down'[cn] = <<>> => quiet' <= idle'[cn] + MaxDelay
      <4>1. down'[cn] = <<>> => down[cn] = <<>>
        BY <1>1, <3>1, Elapsed DEF QueuesOk
      <4> QED
        BY <2>1, <3>2, <4>1, WireNumbers DEF ClockOk
    <3>8. ASSUME down'[cn] # <<>> PROVE quiet' <= Beat + MaxDelay + Head(down'[cn]).age
      <4>1. down[cn] # <<>> /\ down'[cn] \in Seq(Pieces)
        <5>1. down'[cn] = <<>> <=> down[cn] = <<>>
          BY <1>1, <3>1, Elapsed DEF QueuesOk
        <5>2. down'[cn] \in Seq(Pieces)
          BY <1>3, <3>1 DEF QueuesOk, Queues
        <5> QED
          BY <3>8, <5>1, <5>2
      <4>2. /\ Head(down[cn]) = down[cn][1] /\ 1 \in DOMAIN down[cn] /\ down[cn][1] \in Pieces
            /\ Head(down'[cn]) = down'[cn][1]
        BY <3>3, <3>8, <4>1
      <4>3. down[cn][1].age \in Nat /\ down[cn][1].age < MaxDelay
        BY <3>4, <4>1, <4>2, PieceLooks, WireNumbers
      <4>4. down'[cn][1].age = down[cn][1].age + 1
        BY <1>1, <3>1, <4>2, <4>3, Elapsed DEF QueuesOk
      <4>5. quiet <= Beat + MaxDelay + down[cn][1].age
        BY <2>1, <4>1, <4>2 DEF ClockOk
      <4> QED
        BY <3>2, <4>2, <4>3, <4>4, <4>5, WireNumbers
    <3> QED
      BY <1>1, <3>6, <3>7, <3>8 DEF ClockOk
  <2>2. CASE ~(cs = "run" /\ net[cn] = "ok" /\ Timeout > 0 /\ Beat > 0)
    BY <1>1, <2>2 DEF ClockOk
  <2> QED
    BY <2>1, <2>2
<1> QED
  BY <1>2, <1>3, <1>4, <1>5, <1>6, <1>7

LEMMA WireStep == WireInv /\ [WireNext]_wireVars => WireInv'
<1> SUFFICES ASSUME WireInv, [WireNext]_wireVars PROVE WireInv'
  OBVIOUS
<1>1. CASE ClientStep
  BY <1>1, StepDial, StepClientHello, StepClientAck, StepClientReads, StepClientLeaves DEF ClientStep
<1>2. CASE ServerReturns \/ ServerShutsDown
  BY <1>2, StepShutdown
<1>3. CASE Tick
  BY <1>3, StepTick
<1>4. CASE \E register \in BOOLEAN : ClientRequests(register)
  BY <1>4, StepClientRequests
<1>5. ASSUME NEW n \in Conns, ReadLength(n) PROVE WireInv'
  <2>1. half' \in [Conns -> {"none", "len", "junk"}]
    BY <1>5 DEF ReadLength, WireInv, WireTypeOK
  <2> QED
    BY <1>5, <2>1, StepReadLength DEF ReadLength
<1>6. ASSUME NEW n \in Conns, NEW p, ReadAstray(n, p) PROVE WireInv'
  <2>1. CASE TaskEnds(n) /\ UNCHANGED half
    BY <1>6, <2>1, StepTaskEnds DEF ReadAstray
  <2>2. CASE half' = [half EXCEPT ![n] = "junk"] /\ UNCHANGED <<srv, sessions, net>>
    <3>1. half' \in [Conns -> {"none", "len", "junk"}]
      BY <2>2 DEF WireInv, WireTypeOK
    <3> QED
      BY <1>6, <2>2, <3>1, StepReadLength DEF ReadAstray
  <2> QED
    BY <1>6, <2>1, <2>2 DEF ReadAstray
<1>7. ASSUME NEW n \in Conns, ServerSeesClose(n) \/ SessionShut(n) PROVE WireInv'
  <2>1. srv[n] # "none" /\ TaskEnds(n) /\ up' = up
        /\ UNCHANGED <<cs, cn, quiet, half, idle, down, gen, now, serverUp, token>>
    BY <1>7 DEF ServerSeesClose, SessionShut
  <2>2. up' = up \/ ((\E p : Arrives(up, n, p)) /\ up' = Unread(up, n))
    BY <2>1
  <2> QED
    BY <2>1, <2>2, StepTaskEnds
<1>8. CASE \E n \in Conns : ServerStep(n)
  BY <1>5, <1>6, <1>7, <1>8, StepServerHello, StepServerAuth, StepPublish, StepReadBody, StepHeartbeat DEF ServerStep
<1>9. CASE \E n \in Conns : KernelGivesUp(n) \/ \E how \in {"silent", "closed"} : Breaks(n, how)
  BY <1>9, StepNet
<1>10. CASE UNCHANGED wireVars
  BY <1>10 DEF wireVars, WireInv, WireTypeOK, QueuesOk, CountOk, RegistryMatches, StageOk, ClockOk
<1> QED
  BY <1>1, <1>2, <1>3, <1>4, <1>8, <1>9, <1>10 DEF WireNext

(* Within its bound the clock stays short of the timeout.                  *)
LEMMA ClockShort ==
  ASSUME WireInv, Beat > 0 \/ Timeout <= 0
  PROVE  HealthyStaysUp
<1> SUFFICES ASSUME cs = "run", Timeout > 0, quiet >= Timeout, net[cn] = "ok" PROVE FALSE
  BY DEF HealthyStaysUp, Overdue
<1>1. Beat > 0 /\ cn \in Conns
  BY TimeoutBounds DEF WireInv, CountOk
<1>2. down[cn] \in Seq(Pieces) /\ idle[cn] \in 0..Beat
  BY <1>1 DEF WireInv, QueuesOk, Queues, WireTypeOK
<1>3. down[cn] # <<>> => Head(down[cn]).age \in 0..MaxDelay
  BY <1>2, PieceLooks, WireNumbers
<1>4. quiet <= Beat + MaxDelay + MaxDelay
  <2>1. quiet \in Nat
    BY TimeoutBounds DEF WireInv, WireTypeOK
  <2>2. /\ down[cn] = <<>> => quiet <= idle[cn] + MaxDelay
        /\ down[cn] # <<>> => quiet <= Beat + MaxDelay + Head(down[cn]).age
    BY <1>1 DEF WireInv, ClockOk
  <2>3. CASE down[cn] = <<>>
    BY <1>2, <2>1, <2>2, <2>3, WireNumbers
  <2>4. CASE down[cn] # <<>>
    BY <1>3, <2>1, <2>2, <2>4, WireNumbers
  <2> QED
    BY <2>3, <2>4
<1> QED
  BY <1>1, <1>4, WireNumbers, TimeoutBounds DEF WireInv, WireTypeOK

(* For every number of connections, commands, breaks and server restarts,  *)
(* every cadence, configured timeout and delay: the registry holds a       *)
(* session only while its task serves it, and a served session is missing  *)
(* from it only after a shutdown cleared it (server.rs 1178, 1213).        *)
THEOREM RegistryIsExact == WireSpec => [](WireTypeOK /\ RegistryMatches)
<1>1. WireInit => WireInv
  BY WireBegins
<1>2. WireInv /\ [WireNext]_wireVars => WireInv'
  BY WireStep
<1>3. WireInv => WireTypeOK /\ RegistryMatches
  BY DEF WireInv
<1> QED
  BY <1>1, <1>2, <1>3, PTL DEF WireSpec

(* And a session whose connection carries bytes never times out: with a    *)
(* declared cadence, the timeout that resolve_heartbeat_timeout settles on *)
(* exceeds every wait that delays and requests can cause (client.rs 3802,  *)
(* server.rs 1198).  Without a cadence it takes that none is configured:   *)
(* the code then keeps a configured one, and ends a session in which       *)
(* nothing was due (client.rs 2724).                                       *)
THEOREM WireIsSafe ==
  ASSUME Beat > 0 \/ Timeout <= 0
  PROVE  WireSpec => []WireSafe
<1>1. WireInit => WireInv
  BY WireBegins
<1>2. WireInv /\ [WireNext]_wireVars => WireInv'
  BY WireStep
<1>3. WireInv => WireSafe
  BY ClockShort DEF WireInv, WireSafe
<1> QED
  BY <1>1, <1>2, <1>3, PTL DEF WireSpec

-----------------------------------------------------------------------------
-----------------------------------------------------------------------------
(* The table of services.                                                  *)

Place == [key : SessKeys, id : Nat]

(* A table: where the services are and what the sessions hold.             *)
TableTypes(l, ss) ==
  /\ l \in [Names -> {NoLoc} \cup Place]
  /\ DOMAIN ss = SessKeys
  /\ \A k \in SessKeys :
       /\ DOMAIN ss[k] = {"on", "next", "slots"}
       /\ ss[k].next \in Nat /\ ss[k].on \in BOOLEAN
       /\ \A x \in ss[k].slots : x.id \in Nat /\ x.name \in Names

(* Every service is registered where the table says, and nothing else is.  *)
Registered(l, ss) ==
  /\ \A n \in Names : l[n] # NoLoc => \E x \in ss[l[n].key].slots : x.id = l[n].id /\ x.name = n
  /\ \A k \in SessKeys : \A x \in ss[k].slots : l[x.name] = [key |-> k, id |-> x.id]

(* No two services share a place: a session hands out its ids once.  A     *)
(* deregistration by id takes nobody else's registration because of this.  *)
Apart(l, ss) ==
  /\ \A n \in Names : l[n] # NoLoc => l[n].id < ss[l[n].key].next
  /\ \A n, m \in Names : l[n] # NoLoc /\ l[n] = l[m] => n = m

(* A session that has a service runs.                                      *)
Running(l, ss) == \A k \in SessKeys : (\E n \in Names : l[n].key = k) => ss[k].on

TableCore(l, ss) == TableTypes(l, ss) /\ Registered(l, ss) /\ Apart(l, ss) /\ Running(l, ss)
TableInv(l, ss) ==
  TableCore(l, ss) /\ \A k \in SessKeys : ss[k].on = (\E n \in Names : l[n].key = k)

LEMMA NoPlaceNoKey ==
  /\ NoLoc.key \notin SessKeys
  /\ NoLoc \notin Place
  /\ \A p \in Place : p # NoLoc /\ p.key \in SessKeys /\ p.id \in Nat
BY ReloadConstants DEF NoLoc, Place, Unset

LEMMA NoTableHolds == TableInv(NoTable.loc, NoTable.sess)
BY NoPlaceNoKey
   DEF NoTable, TableInv, TableCore, TableTypes, Registered, Apart, Running, NoSession, NoLoc

(* A service leaves the session it was on.                                 *)
LEMMA RemoveKeeps ==
  ASSUME NEW l, NEW ss, TableCore(l, ss), NEW name \in Names, l[name] # NoLoc
  PROVE  TableCore([l EXCEPT ![name] = NoLoc], Deregister(ss, l[name]))
<1> DEFINE m == [l EXCEPT ![name] = NoLoc]
           at == l[name]
           rr == Deregister(ss, at)
<1>1. /\ l \in [Names -> {NoLoc} \cup Place]
      /\ at \in Place /\ at.key \in SessKeys /\ at.id \in Nat
  BY NoPlaceNoKey DEF TableCore, TableTypes
<1>2. /\ m \in [Names -> {NoLoc} \cup Place]
      /\ m[name] = NoLoc
      /\ \A n \in Names : n # name => m[n] = l[n]
  BY <1>1
<1>3. /\ DOMAIN rr = SessKeys
      /\ \A k \in SessKeys : DOMAIN rr[k] = {"on", "next", "slots"}
                             /\ rr[k].next = ss[k].next /\ rr[k].on = ss[k].on
      /\ \A k \in SessKeys : k # at.key => rr[k].slots = ss[k].slots
      /\ rr[at.key].slots = {x \in ss[at.key].slots : x.id # at.id}
  BY <1>1 DEF Deregister, TableCore, TableTypes
<1> HIDE DEF m, rr
<1>4. TableTypes(m, rr)
  BY <1>2, <1>3 DEF TableCore, TableTypes
<1>5. Registered(m, rr)
  <2>1. ASSUME NEW n \in Names, m[n] # NoLoc
        PROVE  \E x \in rr[m[n].key].slots : x.id = m[n].id /\ x.name = n
    <3>1. n # name /\ m[n] = l[n] /\ l[n] # NoLoc /\ l[n] # at
      BY <2>1, <1>2 DEF TableCore, Apart
    <3>2. PICK x \in ss[l[n].key].slots : x.id = l[n].id /\ x.name = n
      BY <3>1 DEF TableCore, Registered
    <3>3. l[n] \in Place /\ l[n].key \in SessKeys
      BY <3>1, <1>1, NoPlaceNoKey
    <3>4. l[n].key = at.key => l[n].id # at.id
      BY <3>1, <3>3, <1>1 DEF Place
    <3>5. x \in rr[l[n].key].slots
      BY <3>2, <3>3, <3>4, <1>3
    <3> QED
      BY <3>1, <3>2, <3>5
  <2>2. ASSUME NEW k \in SessKeys, NEW x \in rr[k].slots
        PROVE  m[x.name] = [key |-> k, id |-> x.id]
    <3>1. x \in ss[k].slots /\ x.name \in Names
      BY <1>3 DEF TableCore, TableTypes
    <3>2. l[x.name] = [key |-> k, id |-> x.id]
      BY <3>1 DEF TableCore, Registered
    <3>3. x.name # name
      BY <3>1, <3>2, <1>3
    <3> QED
      BY <3>1, <3>2, <3>3, <1>2
  <2> QED
    BY <2>1, <2>2 DEF Registered
<1>6. Apart(m, rr)
  <2>1. ASSUME NEW n \in Names, m[n] # NoLoc
        PROVE  m[n].id < rr[m[n].key].next
    <3>1. m[n] = l[n] /\ l[n] # NoLoc /\ l[n].key \in SessKeys
      BY <2>1, <1>1, <1>2, NoPlaceNoKey
    <3> QED
      BY <3>1, <1>3 DEF TableCore, Apart
  <2>2. \A n, o \in Names : m[n] # NoLoc /\ m[n] = m[o] => n = o
    BY <1>2 DEF TableCore, Apart
  <2> QED
    BY <2>1, <2>2 DEF Apart
<1>7. Running(m, rr)
  BY <1>2, <1>3, NoPlaceNoKey DEF TableCore, Running
<1> QED
  BY <1>4, <1>5, <1>6, <1>7 DEF TableCore, m, rr

(* A registration under an id of the session's: the service's own, or one  *)
(* nobody had.                                                             *)
Told(ss, key, id, slot, next) ==
  [ss EXCEPT ![key] = [on |-> TRUE, slots |-> {x \in @.slots : x.id # id} \cup {slot}, next |-> next]]

LEMMA InsertKeeps ==
  ASSUME NEW l, NEW ss, TableCore(l, ss), NEW name \in Names, NEW key \in SessKeys, NEW s,
         NEW id \in Nat, NEW next \in Nat,
         \/ l[name] = NoLoc /\ id = ss[key].next /\ next = id + 1
         \/ l[name] = [key |-> key, id |-> id] /\ next = ss[key].next
  PROVE  TableCore([l EXCEPT ![name] = [key |-> key, id |-> id]],
                   Told(ss, key, id, [id |-> id, name |-> name, service |-> s], next))
<1> DEFINE here == [key |-> key, id |-> id]
           m == [l EXCEPT ![name] = here]
           slot == [id |-> id, name |-> name, service |-> s]
           rr == Told(ss, key, id, slot, next)
<1>1. /\ l \in [Names -> {NoLoc} \cup Place]
      /\ here \in Place /\ here # NoLoc /\ here.key = key /\ here.id = id
      /\ slot.id = id /\ slot.name = name
  BY NoPlaceNoKey DEF TableCore, TableTypes, Place
<1>2. /\ m \in [Names -> {NoLoc} \cup Place]
      /\ m[name] = here
      /\ \A n \in Names : n # name => m[n] = l[n]
  BY <1>1
<1>3. /\ DOMAIN rr = SessKeys
      /\ \A k \in SessKeys : DOMAIN rr[k] = {"on", "next", "slots"}
      /\ \A k \in SessKeys : k # key => rr[k] = ss[k]
      /\ rr[key].on = TRUE /\ rr[key].next = next
      /\ rr[key].slots = {x \in ss[key].slots : x.id # id} \cup {slot}
  BY DEF Told, TableCore, TableTypes
<1>4. \A n \in Names : n # name => l[n] # here
  <2>1. CASE l[name] = NoLoc /\ id = ss[key].next
    BY <2>1, <1>1 DEF TableCore, Apart
  <2>2. CASE l[name] = here
    BY <2>2, <1>1 DEF TableCore, Apart
  <2> QED
    BY <2>1, <2>2
<1>5. ss[key].next <= next /\ id < next /\ ss[key].next \in Nat
  <2>1. ss[key].next \in Nat
    BY DEF TableCore, TableTypes
  <2>2. CASE l[name] = NoLoc /\ id = ss[key].next /\ next = id + 1
    BY <2>2, <2>1
  <2>3. CASE l[name] = here /\ next = ss[key].next
    BY <2>3, <2>1, <1>1 DEF TableCore, Apart
  <2> QED
    BY <2>1, <2>2, <2>3
<1> HIDE DEF m, rr, slot, here
<1>6. TableTypes(m, rr)
  <2>1. ASSUME NEW k \in SessKeys
        PROVE  /\ rr[k].next \in Nat /\ rr[k].on \in BOOLEAN
               /\ \A x \in rr[k].slots : x.id \in Nat /\ x.name \in Names
    <3>1. CASE k = key
      BY <3>1, <1>1, <1>3 DEF TableCore, TableTypes
    <3>2. CASE k # key
      BY <3>2, <1>3 DEF TableCore, TableTypes
    <3> QED
      BY <3>1, <3>2
  <2> QED
    BY <2>1, <1>2, <1>3 DEF TableTypes
<1>7. Registered(m, rr)
  <2>1. ASSUME NEW n \in Names, m[n] # NoLoc
        PROVE  \E x \in rr[m[n].key].slots : x.id = m[n].id /\ x.name = n
    <3>1. CASE n = name
      BY <3>1, <1>1, <1>2, <1>3
    <3>2. CASE n # name
      <4>1. m[n] = l[n] /\ l[n] # NoLoc /\ l[n] # here
        BY <3>2, <2>1, <1>2, <1>4
      <4>2. PICK x \in ss[l[n].key].slots : x.id = l[n].id /\ x.name = n
        BY <4>1 DEF TableCore, Registered
      <4>3. l[n] \in Place /\ l[n].key \in SessKeys
        BY <4>1, <1>1, NoPlaceNoKey
      <4>4. l[n].key = key => l[n].id # id
        BY <4>1, <4>3 DEF Place, here
      <4>5. x \in rr[l[n].key].slots
        BY <4>2, <4>3, <4>4, <1>3
      <4> QED
        BY <4>1, <4>2, <4>5
    <3> QED
      BY <3>1, <3>2
  <2>2. ASSUME NEW k \in SessKeys, NEW x \in rr[k].slots
        PROVE  m[x.name] = [key |-> k, id |-> x.id]
    <3>1. CASE x = slot /\ k = key
      BY <3>1, <1>1, <1>2 DEF here
    <3>2. CASE x \in ss[k].slots /\ (k = key => x.id # id)
      <4>1. x.name \in Names /\ l[x.name] = [key |-> k, id |-> x.id]
        BY <3>2 DEF TableCore, TableTypes, Registered
      <4>2. x.name # name
        <5>1. SUFFICES ASSUME x.name = name PROVE FALSE
          OBVIOUS
        <5>2. l[name] = [key |-> k, id |-> x.id] /\ l[name] # NoLoc
          BY <5>1, <4>1, NoPlaceNoKey DEF TableCore, TableTypes, NoLoc
        <5>3. [key |-> key, id |-> id] = [key |-> k, id |-> x.id]
          BY <5>2
        <5>4. key = k /\ id = x.id
          BY <5>3
        <5> QED
          BY <5>4, <3>2
      <4> QED
        BY <4>1, <4>2, <1>2
    <3> QED
      BY <3>1, <3>2, <1>3
  <2> QED
    BY <2>1, <2>2 DEF Registered
<1>8. Apart(m, rr)
  <2>1. ASSUME NEW n \in Names, m[n] # NoLoc
        PROVE  m[n].id < rr[m[n].key].next
    <3>1. CASE n = name
      BY <3>1, <1>1, <1>2, <1>3, <1>5
    <3>2. CASE n # name
      <4>1. m[n] = l[n] /\ l[n] # NoLoc
        BY <3>2, <2>1, <1>2
      <4>2. l[n].id < ss[l[n].key].next /\ l[n].key \in SessKeys /\ l[n].id \in Nat
        BY <4>1, <1>1, NoPlaceNoKey DEF TableCore, Apart
      <4>3. CASE l[n].key = key
        BY <4>1, <4>2, <4>3, <1>3, <1>5
      <4>4. CASE l[n].key # key
        BY <4>1, <4>2, <4>4, <1>3
      <4> QED
        BY <4>3, <4>4
    <3> QED
      BY <3>1, <3>2
  <2>2. \A n, o \in Names : m[n] # NoLoc /\ m[n] = m[o] => n = o
    BY <1>1, <1>2, <1>4 DEF TableCore, Apart
  <2> QED
    BY <2>1, <2>2 DEF Apart
<1>9. Running(m, rr)
  BY <1>1, <1>2, <1>3 DEF TableCore, Running
<1> QED
  BY <1>6, <1>7, <1>8, <1>9 DEF TableCore, m, rr, slot, here

(* The sessions that are left without a service go, and had no             *)
(* registration.                                                           *)
LEMMA ReapKeeps ==
  ASSUME NEW l, NEW ss, TableCore(l, ss)
  PROVE  LET c == Reaped([loc |-> l, sess |-> ss]) IN TableInv(c.loc, c.sess)
<1> DEFINE used(k) == \E n \in Names : l[n].key = k
           rr == [k \in SessKeys |-> IF used(k) THEN ss[k] ELSE NoSession]
           c == Reaped([loc |-> l, sess |-> ss])
<1>1. c.loc = l /\ c.sess = rr
  BY DEF Reaped
<1>2. \A k \in SessKeys : used(k) => rr[k] = ss[k] /\ ss[k].on = TRUE
  BY DEF TableCore, TableTypes, Running
<1>3. \A k \in SessKeys : ~used(k) => rr[k] = NoSession
  OBVIOUS
<1>4. l \in [Names -> {NoLoc} \cup Place]
  BY DEF TableCore, TableTypes
<1>5. \A n \in Names : l[n] # NoLoc => l[n].key \in SessKeys /\ used(l[n].key)
  BY <1>4, NoPlaceNoKey
<1>6. DOMAIN rr = SessKeys
  OBVIOUS
<1> HIDE DEF rr, c
<1>7. TableTypes(l, rr)
  <2>1. ASSUME NEW k \in SessKeys
        PROVE  /\ DOMAIN rr[k] = {"on", "next", "slots"}
               /\ rr[k].next \in Nat /\ rr[k].on \in BOOLEAN
               /\ \A x \in rr[k].slots : x.id \in Nat /\ x.name \in Names
    <3>1. CASE rr[k] = ss[k]
      BY <3>1 DEF TableCore, TableTypes
    <3>2. CASE rr[k] = NoSession
      BY <3>2 DEF NoSession
    <3> QED
      BY <3>1, <3>2, <1>2, <1>3
  <2> QED
    BY <2>1, <1>4, <1>6 DEF TableTypes
<1>8. Registered(l, rr)
  BY <1>2, <1>3, <1>5 DEF TableCore, Registered, NoSession
<1>9. Apart(l, rr)
  BY <1>2, <1>5 DEF TableCore, Apart
<1>10. \A k \in SessKeys : rr[k].on = used(k)
  <2>1. ASSUME NEW k \in SessKeys PROVE rr[k].on = used(k)
    <3>1. used(k) => rr[k].on
      BY <1>2
    <3>2. ~used(k) => rr[k].on = FALSE
      BY <1>3 DEF NoSession
    <3>3. rr[k].on \in BOOLEAN
      BY <1>7 DEF TableTypes
    <3> QED
      BY <3>1, <3>2, <3>3
  <2> QED
    BY <2>1
<1> QED
  <2>1. TableInv(l, rr)
    BY <1>7, <1>8, <1>9, <1>10 DEF TableInv, TableCore, Running
  <2> QED
    BY <2>1, <1>1 DEF c

LEMMA AddKeeps ==
  ASSUME NEW c, TableInv(c.loc, c.sess), NEW conf, NEW s, KeyOf(conf, s) \in SessKeys,
         NEW name \in Names
  PROVE  LET d == AddService(c, conf, name, s) IN TableInv(d.loc, d.sess)
<1> DEFINE key == KeyOf(conf, s)
           at == c.loc[name]
           left == IF Leaves(at, key) THEN Deregister(c.sess, at) ELSE c.sess
           away == IF Leaves(at, key) THEN [c.loc EXCEPT ![name] = NoLoc] ELSE c.loc
           id == IF Stays(at, key) THEN at.id ELSE left[key].next
           next == IF Stays(at, key) THEN left[key].next ELSE left[key].next + 1
           slot == [id |-> id, name |-> name, service |-> s]
           l == [c.loc EXCEPT ![name] = [key |-> key, id |-> id]]
           ss == [left EXCEPT ![key] =
                    [on |-> TRUE, slots |-> {x \in @.slots : x.id # id} \cup {slot},
                     next |-> IF Stays(at, key) THEN @.next ELSE @.next + 1]]
<1>1. AddService(c, conf, name, s) = Reaped([loc |-> l, sess |-> ss])
  BY DEF AddService
<1>2. /\ TableCore(c.loc, c.sess) /\ c.loc \in [Names -> {NoLoc} \cup Place]
      /\ key \in SessKeys /\ at \in {NoLoc} \cup Place
  BY DEF TableInv, TableCore, TableTypes
<1>3. TableCore(away, left)
  <2>1. CASE Leaves(at, key)
    BY <2>1, <1>2, RemoveKeeps DEF Leaves
  <2>2. CASE ~Leaves(at, key)
    BY <2>2, <1>2
  <2> QED
    BY <2>1, <2>2
<1>4. DOMAIN left = SessKeys /\ left[key].next \in Nat
  BY <1>2, <1>3 DEF TableCore, TableTypes
<1>5. ss = Told(left, key, id, slot, next)
  BY <1>2, <1>4 DEF Told
<1>6. l = [away EXCEPT ![name] = [key |-> key, id |-> id]]
  BY <1>2
<1>7. CASE Stays(at, key)
  <2>1. at \in Place /\ at.key = key /\ at.id \in Nat
    BY <1>7, <1>2, NoPlaceNoKey DEF Stays
  <2>2. at = [key |-> key, id |-> at.id]
    BY <2>1 DEF Place
  <2>3. id = at.id /\ next = left[key].next /\ away = c.loc
    BY <1>7 DEF Stays, Leaves
  <2>4. TableCore(l, ss)
    <3> HIDE DEF away, left, id, next, l, ss, slot, at, key
    <3>1. away[name] = [key |-> key, id |-> id] /\ id \in Nat /\ next \in Nat
      BY <2>1, <2>2, <2>3, <1>4 DEF at
    <3>2. TableCore([away EXCEPT ![name] = [key |-> key, id |-> id]],
                    Told(left, key, id, [id |-> id, name |-> name, service |-> s], next))
      BY <3>1, <2>3, <1>2, <1>3, InsertKeeps
    <3> QED
      BY <3>2, <1>5, <1>6 DEF slot
  <2> HIDE DEF l, ss
  <2> QED
    BY <2>4, <1>1, ReapKeeps
<1>8. CASE ~Stays(at, key)
  <2>1. away[name] = NoLoc
    BY <1>8, <1>2 DEF Stays, Leaves
  <2>2. id = left[key].next /\ next = id + 1
    BY <1>8
  <2>3. TableCore(l, ss)
    <3> HIDE DEF away, left, id, next, l, ss, slot, at, key
    <3>1. id \in Nat /\ next \in Nat
      BY <2>2, <1>4
    <3>2. TableCore([away EXCEPT ![name] = [key |-> key, id |-> id]],
                    Told(left, key, id, [id |-> id, name |-> name, service |-> s], next))
      BY <3>1, <2>1, <2>2, <1>2, <1>3, InsertKeeps
    <3> QED
      BY <3>2, <1>5, <1>6 DEF slot
  <2> HIDE DEF l, ss
  <2> QED
    BY <2>3, <1>1, ReapKeeps
<1> QED
  BY <1>7, <1>8

LEMMA DeleteKeeps ==
  ASSUME NEW c, TableInv(c.loc, c.sess), NEW name \in Names
  PROVE  LET d == DeleteService(c, name) IN TableInv(d.loc, d.sess)
<1> DEFINE l == [c.loc EXCEPT ![name] = NoLoc]
           ss == IF c.loc[name] = NoLoc THEN c.sess ELSE Deregister(c.sess, c.loc[name])
<1>1. DeleteService(c, name) = Reaped([loc |-> l, sess |-> ss])
  BY DEF DeleteService
<1>2. TableCore(c.loc, c.sess) /\ c.loc \in [Names -> {NoLoc} \cup Place]
  BY DEF TableInv, TableCore, TableTypes
<1>3. TableCore(l, ss)
  <2>1. CASE c.loc[name] = NoLoc
    <3>1. l = c.loc
      BY <2>1, <1>2
    <3> QED
      BY <2>1, <3>1, <1>2
  <2>2. CASE c.loc[name] # NoLoc
    BY <2>2, <1>2, RemoveKeeps
  <2> QED
    BY <2>1, <2>2
<1> HIDE DEF l, ss
<1> QED
  BY <1>1, <1>3, ReapKeeps

-----------------------------------------------------------------------------
(* The services a client starts with are added one by one.                 *)

(* The table after each of the first n additions.                          *)
Additions(g, n, conf, order) ==
  g = [i \in 0..n |-> IF i = 0 THEN NoTable
                      ELSE AddService(g[i - 1], conf, order[i], conf.services[order[i]])]

(* A set that holds zero and, with a number, its successor up to a bound   *)
(* holds every number up to the bound.                                     *)
LEMMA UpTo ==
  ASSUME NEW n \in Nat, NEW S, 0 \in S, \A i \in 0..n : i \in S /\ i < n => i + 1 \in S
  PROVE  0..n \subseteq S
<1> DEFINE R == {ss \in Nat \X Nat : ss[1] < ss[2]}
           T == {i \in 0..n : i \notin S}
<1>1. SUFFICES ASSUME T # {} PROVE FALSE
  OBVIOUS
<1>2. IsWellFoundedOn(R, Nat)
  BY NatLessThanWellFounded, Zenon DEF OpToRel
<1>3. T \subseteq Nat
  OBVIOUS
<1>4. \E i \in T : \A j \in T : ~(<<j, i>> \in R)
  <2> HIDE DEF R, T
  <2> QED
    BY <1>1, <1>2, <1>3, WFMin
<1>5. PICK i \in T : \A j \in T : ~(<<j, i>> \in R)
  BY <1>4
<1>6. i \in 0..n /\ i # 0 /\ i - 1 \in 0..n /\ i - 1 < n
  OBVIOUS
<1>7. i - 1 \in S
  <2>1. i - 1 \in T => <<i - 1, i>> \in R
    BY <1>6
  <2> QED
    BY <2>1, <1>5, <1>6
<1>8. (i - 1) + 1 \in S
  BY <1>6, <1>7
<1> QED
  BY <1>6, <1>8

LEMMA AdditionsExist ==
  ASSUME NEW n \in Nat, NEW conf, NEW order
  PROVE  \E g : Additions(g, n, conf, order)
<1> DEFINE S == {i \in 0..n : \E g : Additions(g, i, conf, order)}
<1>1. 0 \in S
  <2>1. Additions([i \in 0..0 |-> NoTable], 0, conf, order)
    BY DEF Additions
  <2> QED
    BY <2>1
<1>2. ASSUME NEW i \in 0..n, i \in S, i < n
      PROVE  i + 1 \in S
  <2>1. PICK g : Additions(g, i, conf, order)
    BY <1>2
  <2> DEFINE new == AddService(g[i], conf, order[i + 1], conf.services[order[i + 1]])
             h == [j \in 0..i + 1 |-> IF j = i + 1 THEN new ELSE g[j]]
  <2>2. \A j \in 0..i : h[j] = g[j]
    OBVIOUS
  <2>3. \A j \in 0..i : g[j] = IF j = 0 THEN NoTable
                               ELSE AddService(g[j - 1], conf, order[j], conf.services[order[j]])
    BY <2>1 DEF Additions
  <2>4. ASSUME NEW j \in 0..i + 1
        PROVE  h[j] = IF j = 0 THEN NoTable
                      ELSE AddService(h[j - 1], conf, order[j], conf.services[order[j]])
    <3>1. CASE j = i + 1
      BY <3>1, <2>2
    <3>2. CASE j # i + 1
      <4>1. j \in 0..i /\ (j # 0 => j - 1 \in 0..i)
        BY <3>2
      <4> HIDE DEF h
      <4> QED
        BY <4>1, <2>2, <2>3
    <3> QED
      BY <3>1, <3>2
  <2>5. Additions(h, i + 1, conf, order)
    BY <2>4 DEF Additions
  <2>6. i + 1 \in 0..n
    BY <1>2
  <2> HIDE DEF h
  <2> QED
    BY <2>5, <2>6
<1> HIDE DEF S
<1>3. 0..n \subseteq S
  BY <1>1, <1>2, UpTo
<1> QED
  BY <1>3 DEF S

(* What a client starts with agrees with its sessions.                     *)
LEMMA StartHolds ==
  ASSUME NEW conf, NEW n \in Nat, NEW order \in [1..n -> Names],
         \A i \in 1..n : KeyOf(conf, conf.services[order[i]]) \in SessKeys
  PROVE  LET c == StartTable(conf, order) IN TableInv(c.loc, c.sess)
<1>1. Len(order) = n
  OBVIOUS
<1> DEFINE g == CHOOSE f : Additions(f, n, conf, order)
<1>2. Additions(g, n, conf, order)
  BY AdditionsExist
<1>3. StartTable(conf, order) = g[n]
  BY <1>1 DEF StartTable, Additions
<1> HIDE DEF g
<1> DEFINE S == {i \in 0..n : TableInv(g[i].loc, g[i].sess)}
<1>4. 0 \in S
  BY <1>2, NoTableHolds DEF Additions
<1>5. ASSUME NEW i \in 0..n, i \in S, i < n
      PROVE  i + 1 \in S
  <2>1. i + 1 \in 1..n /\ i + 1 \in 0..n /\ (i + 1) - 1 = i /\ i + 1 # 0
    BY <1>5
  <2>2. g[i + 1] = AddService(g[(i + 1) - 1], conf, order[i + 1], conf.services[order[i + 1]])
    BY <2>1, <1>2 DEF Additions
  <2>3. g[i + 1] = AddService(g[i], conf, order[i + 1], conf.services[order[i + 1]])
    BY <2>1, <2>2
  <2>4. TableInv(g[i + 1].loc, g[i + 1].sess)
    <3>1. order[i + 1] \in Names /\ KeyOf(conf, conf.services[order[i + 1]]) \in SessKeys
      BY <2>1
    <3>2. TableInv(g[i].loc, g[i].sess)
      BY <1>5
    <3> QED
      BY <2>3, <3>1, <3>2, AddKeeps
  <2> QED
    BY <2>1, <2>4
<1> HIDE DEF S
<1>6. 0..n \subseteq S
  BY <1>4, <1>5, UpTo
<1> QED
  BY <1>3, <1>6 DEF S

-----------------------------------------------------------------------------
(* Documents and events.                                                   *)

(* What loading leaves alone, and the endpoints it guarantees.             *)
LEMMA ConfigFacts ==
  ASSUME NEW d \in Loadable
  PROVE  /\ d \in Docs
         /\ Config[d].has = Text[d].has
         /\ Config[d].client.def = Text[d].client.def
         /\ Config[d].transparent = Text[d].transparent
         /\ DOMAIN Config[d].client.services \subseteq Names
         /\ \A n \in DOMAIN Config[d].client.services : Config[d].client.services[n].to \in Endpoint
         /\ "client" \in Config[d].has => Config[d].client.def \in SessKeys
         /\ "transparent" \in Config[d].has => Config[d].transparent.def \in SessKeys
         /\ Config[d].transparent.claims \subseteq Names
<1> DEFINE t == Text[d]
           ss == [n \in DOMAIN t.client.services |-> Filled(t.client.services[n])]
<1>1. d \in Docs /\ IsDocument(t) /\ t.ok
      /\ ("client" \in t.has => t.client.def # Unset)
      /\ ("transparent" \in t.has => t.transparent.def # Unset)
  BY ReloadConstants DEF Loadable, Valid
<1>2. Config[d] = [t EXCEPT !.client.services = ss]
  BY <1>1 DEF Config
<1>3. /\ Config[d].has = t.has
      /\ Config[d].transparent = t.transparent
      /\ Config[d].client.def = t.client.def
      /\ Config[d].client.services = ss
  BY <1>1, <1>2 DEF IsDocument
<1>4. ASSUME NEW n \in DOMAIN t.client.services
      PROVE  ss[n].to \in Endpoint
  <2>1. t.client.services[n] \in Service
    BY <1>1 DEF IsDocument
  <2>2. Filled(t.client.services[n]).to = t.client.services[n].to
    BY <2>1 DEF Filled, Service
  <2> QED
    BY <2>1, <2>2 DEF Service
<1>5. DOMAIN ss = DOMAIN t.client.services
  OBVIOUS
<1>6. /\ DOMAIN t.client.services \subseteq Names /\ t.client.def \in SessKeys \cup {Unset}
      /\ t.transparent.def \in SessKeys \cup {Unset} /\ t.transparent.claims \subseteq Names
  BY <1>1 DEF IsDocument, Endpoint
<1> HIDE DEF t, ss
<1> QED
  BY <1>1, <1>3, <1>4, <1>5, <1>6 DEF t

(* The events of a watcher: only a loaded document is ever announced, and  *)
(* an addition is of a service the document has.                           *)
Event ==
  {e \in [kind : {"general", "delete", "add"}, conf : Loadable, name : Names \cup {Unset}] :
     /\ e.kind # "general" => e.name \in Names
     /\ e.kind = "add" => e.name \in DOMAIN Config[e.conf].client.services}
Update == {e \in Event : e.kind # "general"}

LEMMA OrderFacts ==
  ASSUME NEW S \in SUBSET Names, NEW q \in Orders[S]
  PROVE  \E n \in Nat : q \in [1..n -> S]
<1>1. Cardinality(S) \in Nat
  BY ReloadConstants, FS_Subset, FS_CardinalityType
<1>2. Orders[S] = SetToSeqs(S)
  BY DEF Orders
<1>3. q \in [1..Cardinality(S) -> S]
  BY <1>2 DEF SetToSeqs
<1> QED
  BY <1>1, <1>3

LEMMA CalculatedFacts ==
  ASSUME NEW o \in Loadable, NEW d \in Loadable, NEW es \in Calculated[o][d]
  PROVE  es \in Seq(Event)
<1> DEFINE dels == Deleted(Config[o].client, Config[d].client)
           adds == Added(Config[o].client, Config[d].client)
<1>1. es \in {<<>>} \/ es \in {<<General(d)>>} \/ es \in Walks(Config[o], Config[d], d)
  BY DEF Calculated
<1>2. CASE es \in {<<>>}
  BY <1>2
<1>3. CASE es \in {<<General(d)>>}
  <2>1. General(d) \in Event
    BY DEF General, Event
  <2>2. \A e \in Event : <<e>> \in Seq(Event)
    OBVIOUS
  <2> QED
    BY <1>3, <2>1, <2>2
<1>4. CASE es \in Walks(Config[o], Config[d], d)
  <2>1. PICK walk \in Orders[dels] \X Orders[adds] : es = Walk(walk, d)
    BY <1>4 DEF Walks
  <2>2. dels \subseteq Names /\ adds \subseteq DOMAIN Config[d].client.services /\ adds \subseteq Names
    BY ConfigFacts DEF Deleted, Added
  <2> HIDE DEF dels, adds
  <2>3. PICK n \in Nat : walk[1] \in [1..n -> dels]
    BY <2>1, <2>2, OrderFacts
  <2>4. PICK m \in Nat : walk[2] \in [1..m -> adds]
    BY <2>1, <2>2, OrderFacts
  <2>5. \A i \in 1..n : Change("delete", walk[1][i], d) \in Event
    BY <2>2, <2>3 DEF Change, Event
  <2>6. \A i \in 1..m : Change("add", walk[2][i], d) \in Event
    BY <2>2, <2>4 DEF Change, Event
  <2> DEFINE p == [i \in DOMAIN walk[1] |-> Change("delete", walk[1][i], d)]
             q == [i \in DOMAIN walk[2] |-> Change("add", walk[2][i], d)]
  <2>7. p \in Seq(Event) /\ q \in Seq(Event)
    <3>1. DOMAIN walk[1] = 1..n /\ DOMAIN walk[2] = 1..m
      BY <2>3, <2>4
    <3>2. p \in [1..n -> Event] /\ q \in [1..m -> Event]
      BY <3>1, <2>5, <2>6
    <3> HIDE DEF p, q
    <3> QED
      BY <3>2
  <2>8. es = p \o q
    BY <2>1 DEF Walk
  <2> HIDE DEF p, q
  <2> QED
    BY <2>7, <2>8
<1> QED
  BY <1>1, <1>2, <1>3, <1>4

(* A client that runs dials: every service of it has an endpoint.          *)
LEMMA DefaultDialled ==
  ASSUME NEW d \in Loadable, Mode(d) \in ClientModes, Mode(d) \in Config[d].has
  PROVE  ClientConf(d).def \in SessKeys
BY ConfigFacts DEF ClientConf, ClientModes, Lowered, Lower

LEMMA KeyDialled ==
  ASSUME NEW conf, NEW s, conf.def \in SessKeys, s.to \in Endpoint
  PROVE  KeyOf(conf, s) \in SessKeys
BY DEF KeyOf, Endpoint

LEMMA ServicesDialled ==
  ASSUME NEW d \in Loadable, Mode(d) \in ClientModes, Mode(d) \in Config[d].has
  PROVE  /\ DOMAIN ClientConf(d).services \subseteq Names
         /\ \A n \in DOMAIN ClientConf(d).services : KeyOf(ClientConf(d), ClientConf(d).services[n]) \in SessKeys
<1>1. CASE Mode(d) = "client"
  <2>1. ClientConf(d) = Config[d].client
    BY <1>1 DEF ClientConf
  <2> QED
    BY <2>1, DefaultDialled, ConfigFacts, KeyDialled
<1>2. CASE Mode(d) = "transparent"
  <2>1. ClientConf(d) = Lower(Config[d].transparent)
    BY <1>2, ConfigFacts DEF ClientConf, Lowered
  <2>2. DOMAIN ClientConf(d).services = Config[d].transparent.claims
    BY <2>1 DEF Lower
  <2>3. \A n \in DOMAIN ClientConf(d).services : ClientConf(d).services[n].to = Unset
    BY <2>1 DEF Lower
  <2> QED
    BY <2>2, <2>3, DefaultDialled, ConfigFacts, KeyDialled DEF Endpoint
<1> QED
  BY <1>1, <1>2 DEF ClientModes

-----------------------------------------------------------------------------
(* The inductive invariant.                                                *)

Modes == ClientModes \cup {"server"}

(* An edit in progress has one of its two notes still to come.             *)
FileInv ==
  /\ file \in Docs \cup {Torn} /\ upcoming \in Docs \cup {Torn}
  /\ edits \in 0..MaxEdits /\ notes \in Nat
  /\ notes + (IF upcoming = Torn THEN 0 ELSE 1) <= 2 * edits

(* A watcher compares with a document that loaded, and announces only such.*)
WatchInv ==
  /\ watch \in {"off", "on", "gone"} /\ main \in {"boot", "wait", "restart", "ended"} /\ flag \in Flags
  /\ main \in {"wait", "restart"} => old \in Loadable
  /\ watch = "on" => main # "boot"
  /\ events \in Seq(Event) /\ updates \in Seq(Update)
  /\ main = "restart" => todo \in Loadable

(* The task that runs is the last one started, and an end that nobody took *)
(* yet is that task's: until it is taken no task runs.                     *)
InstanceInv ==
  /\ started \in Nat /\ live \subseteq {started} /\ (started = 0 => live = {})
  /\ ends \in Seq({"ok", "error"}) /\ Len(ends) <= 1 /\ (started = 0 => ends = <<>>)
  /\ serving \in [mode : Modes \cup {"starting", "idle"}, conf : Docs \cup {Torn}]
  /\ ends # <<>> => serving.mode = "idle" /\ live = {}
  /\ serving.mode # "idle" => started > 0 /\ serving.conf \in Loadable
  /\ serving.mode \in Modes => serving.mode = Mode(serving.conf) /\ serving.mode \in Config[serving.conf].has

ReloadInv == FileInv /\ WatchInv /\ InstanceInv /\ TableInv(loc, sess)

LEMMA LoadableDocs == Loadable \subseteq Docs
BY DEF Loadable

LEMMA ReloadInvHoldsInitially == ReloadInit => ReloadInv
<1> SUFFICES ASSUME ReloadInit PROVE ReloadInv
  OBVIOUS
<1>1. FileInv
  BY ReloadConstants, LoadableDocs DEF ReloadInit, FileInv
<1>2. WatchInv
  BY DEF ReloadInit, WatchInv
<1>3. InstanceInv
  BY DEF ReloadInit, InstanceInv, NoInstance, Modes, ClientModes
<1>4. TableInv(loc, sess)
  BY NoTableHolds DEF ReloadInit
<1> QED
  BY <1>1, <1>2, <1>3, <1>4 DEF ReloadInv

-----------------------------------------------------------------------------
(* The steps.                                                              *)

LEMMA TableUnchanged ==
  ASSUME TableInv(loc, sess), UNCHANGED table
  PROVE  TableInv(loc, sess)'
<1>1. loc' = loc /\ sess' = sess
  BY DEF table
<1>2. TableInv(loc', sess')
  BY <1>1
<1> QED
  BY <1>2

LEMMA InstanceUnchanged ==
  ASSUME InstanceInv, UNCHANGED <<instVars, flag>>
  PROVE  InstanceInv'
BY DEF InstanceInv, instVars, Mode

LEMMA FileUnchanged ==
  ASSUME FileInv, UNCHANGED <<fileVars, notes>>
  PROVE  FileInv'
BY DEF FileInv, fileVars

LEMMA EditKeeps ==
  ASSUME ReloadInv, (\E d \in Docs : EditBegins(d)) \/ EditEnds
  PROVE  ReloadInv'
<1>1. InstanceInv' /\ TableInv(loc, sess)'
  BY InstanceUnchanged, TableUnchanged DEF ReloadInv, EditBegins, EditEnds
<1>2. WatchInv'
  BY DEF ReloadInv, WatchInv, EditBegins, EditEnds, instVars
<1>3. FileInv'
  <2>1. CASE \E d \in Docs : EditBegins(d)
    BY <2>1, ReloadConstants DEF ReloadInv, FileInv, EditBegins, Noted
  <2>2. CASE EditEnds
    BY <2>2, ReloadConstants DEF ReloadInv, FileInv, EditEnds, Noted
  <2> QED
    BY <2>1, <2>2
<1> QED
  BY <1>1, <1>2, <1>3 DEF ReloadInv

LEMMA WatcherKeeps ==
  ASSUME ReloadInv, Boot \/ WatchStarts \/ WatcherExits \/ Rescan
  PROVE  ReloadInv'
<1>1. InstanceInv' /\ TableInv(loc, sess)'
  BY InstanceUnchanged, TableUnchanged DEF ReloadInv, Boot, WatchStarts, WatcherExits, Rescan
<1>2. FileInv'
  BY DEF ReloadInv, FileInv, Boot, WatchStarts, WatcherExits, Rescan, fileVars
<1>3. WatchInv'
  <2>1. CASE Boot
    <3>1. CASE Loads(file)
      <4>1. General(file) \in Event /\ <<General(file)>> \in Seq(Event)
        BY <3>1 DEF Loads, General, Event
      <4> QED
        BY <2>1, <3>1, <4>1 DEF ReloadInv, WatchInv, Boot, Loads, instVars
    <3>2. CASE ~Loads(file)
      BY <2>1, <3>2 DEF ReloadInv, WatchInv, Boot, instVars
    <3> QED
      BY <3>1, <3>2
  <2>2. CASE WatchStarts
    BY <2>2 DEF ReloadInv, WatchInv, WatchStarts, instVars
  <2>3. CASE WatcherExits
    BY <2>3 DEF ReloadInv, WatchInv, WatcherExits, instVars
  <2>4. CASE Rescan
    <3>1. CASE Loads(file)
      <4>1. old \in Loadable /\ file \in Loadable
        BY <2>4, <3>1 DEF ReloadInv, WatchInv, Rescan, Loads
      <4>2. PICK es \in Calculated[old][file] : events' = events \o es
        BY <2>4, <3>1 DEF Rescan
      <4>3. es \in Seq(Event)
        BY <4>1, CalculatedFacts
      <4>4. events' \in Seq(Event)
        BY <4>2, <4>3 DEF ReloadInv, WatchInv
      <4> QED
        BY <2>4, <3>1, <4>1, <4>4 DEF ReloadInv, WatchInv, Rescan, instVars
    <3>2. CASE ~Loads(file)
      BY <2>4, <3>2 DEF ReloadInv, WatchInv, Rescan, instVars
    <3> QED
      BY <3>1, <3>2
  <2> QED
    BY <2>1, <2>2, <2>3, <2>4
<1> QED
  BY <1>1, <1>2, <1>3 DEF ReloadInv

LEMMA HeadTail ==
  ASSUME NEW T, NEW q \in Seq(T), q # <<>>
  PROVE  Head(q) \in T /\ Tail(q) \in Seq(T) /\ Len(Tail(q)) = Len(q) - 1
OBVIOUS

(* A new instance: the one before it has ended and its end was taken.      *)
LEMMA StartsKeep ==
  ASSUME InstanceInv, NEW d \in Loadable, Starts(d), UNCHANGED flag,
         live = {}, ends' = <<>>
  PROVE  InstanceInv' /\ updates' \in Seq(Update)
<1>1. /\ started' = started + 1 /\ live' = {started + 1} /\ started \in Nat
      /\ serving' = [mode |-> "starting", conf |-> d] /\ updates' = <<>>
  BY DEF Starts, InstanceInv
<1>2. d \in Docs
  BY LoadableDocs
<1>3. serving' \in [mode : Modes \cup {"starting", "idle"}, conf : Docs \cup {Torn}]
      /\ serving'.mode = "starting" /\ serving'.conf = d
  BY <1>1, <1>2
<1>4. "starting" \notin Modes
  BY DEF Modes, ClientModes
<1> QED
  BY <1>1, <1>3, <1>4 DEF InstanceInv

LEMMA TakeGeneralKeeps ==
  ASSUME ReloadInv, TakeGeneral
  PROVE  ReloadInv'
<1>1. FileInv' /\ TableInv(loc, sess)'
  BY FileUnchanged, TableUnchanged DEF ReloadInv, TakeGeneral, watchVars
<1>2. Head(events) \in Event /\ Tail(events) \in Seq(Event) /\ Head(events).conf \in Loadable
  <2>1. Head(events) \in Event /\ Tail(events) \in Seq(Event)
    BY HeadTail DEF ReloadInv, WatchInv, TakeGeneral
  <2> QED
    BY <2>1 DEF Event
<1>3. CASE ~WaitsForEnd
  <2>1. live = {} /\ ends' = <<>> /\ UNCHANGED flag /\ Starts(Head(events).conf)
    BY <1>3 DEF ReloadInv, InstanceInv, TakeGeneral, WaitsForEnd
  <2>2. InstanceInv' /\ updates' \in Seq(Update)
    BY <2>1, <1>2, StartsKeep DEF ReloadInv
  <2>3. WatchInv'
    BY <1>2, <1>3, <2>2 DEF ReloadInv, WatchInv, TakeGeneral, watchVars
  <2> QED
    BY <1>1, <2>2, <2>3 DEF ReloadInv
<1>4. CASE WaitsForEnd
  <2>1. InstanceInv'
    BY <1>4 DEF ReloadInv, InstanceInv, TakeGeneral, Mode
  <2>2. WatchInv'
    BY <1>2, <1>4 DEF ReloadInv, WatchInv, TakeGeneral, watchVars
  <2> QED
    BY <1>1, <2>1, <2>2 DEF ReloadInv
<1> QED
  BY <1>3, <1>4

LEMMA TakeChangeKeeps ==
  ASSUME ReloadInv, TakeChange
  PROVE  ReloadInv'
<1>1. FileInv' /\ TableInv(loc, sess)'
  BY FileUnchanged, TableUnchanged DEF ReloadInv, TakeChange, watchVars
<1>2. InstanceInv'
  BY DEF ReloadInv, InstanceInv, TakeChange, Mode
<1>3. Head(events) \in Event /\ Tail(events) \in Seq(Event) /\ Head(events).kind # "general"
  BY HeadTail DEF ReloadInv, WatchInv, TakeChange
<1>4. updates' \in Seq(Update)
  <2>1. Head(events) \in Update
    BY <1>3 DEF Update
  <2>2. updates \in Seq(Update)
    BY DEF ReloadInv, WatchInv
  <2>3. Append(updates, Head(events)) \in Seq(Update)
    BY <2>1, <2>2
  <2> QED
    BY <2>2, <2>3 DEF TakeChange
<1>5. WatchInv'
  BY <1>3, <1>4 DEF ReloadInv, WatchInv, TakeChange, watchVars
<1> QED
  BY <1>1, <1>2, <1>5 DEF ReloadInv

LEMMA TakeEndKeeps ==
  ASSUME ReloadInv, TakeEnd
  PROVE  ReloadInv'
<1>1. FileInv' /\ TableInv(loc, sess)'
  BY FileUnchanged, TableUnchanged DEF ReloadInv, TakeEnd, watchVars
<1>2. ends' = <<>> /\ live = {} /\ serving.mode = "idle"
  <2>1. ends \in Seq({"ok", "error"}) /\ ends # <<>> /\ Len(ends) <= 1 /\ ends' = Tail(ends)
    BY DEF ReloadInv, InstanceInv, TakeEnd
  <2>2. Tail(ends) = <<>>
    BY <2>1
  <2> QED
    BY <2>1, <2>2 DEF ReloadInv, InstanceInv
<1>3. CASE main = "restart" /\ Head(ends) = "ok"
  <2>1. todo \in Loadable /\ Starts(todo) /\ main' = "wait" /\ UNCHANGED flag
    BY <1>3 DEF ReloadInv, WatchInv, TakeEnd
  <2>2. InstanceInv' /\ updates' \in Seq(Update)
    BY <1>2, <2>1, StartsKeep DEF ReloadInv
  <2>3. WatchInv'
    BY <1>3, <2>1, <2>2 DEF ReloadInv, WatchInv, TakeEnd, watchVars
  <2> QED
    BY <1>1, <2>2, <2>3 DEF ReloadInv
<1>4. CASE ~(main = "restart" /\ Head(ends) = "ok")
  <2>1. main' = "ended" /\ UNCHANGED <<live, started, serving, updates, flag, watchVars, events, todo>>
    BY <1>4 DEF TakeEnd
  <2>2. InstanceInv'
    <3>1. ends' \in Seq({"ok", "error"}) /\ Len(ends') <= 1
      BY <1>2
    <3> QED
      BY <1>2, <2>1, <3>1 DEF ReloadInv, InstanceInv, Mode
  <2>3. WatchInv'
    BY <2>1 DEF ReloadInv, WatchInv, watchVars
  <2> QED
    BY <1>1, <2>2, <2>3 DEF ReloadInv
<1> QED
  BY <1>3, <1>4

LEMMA LoopEndsKeep ==
  ASSUME ReloadInv, NoMoreEvents \/ AcceptLoopEnds
  PROVE  ReloadInv'
<1>1. FileInv' /\ TableInv(loc, sess)'
  BY FileUnchanged, TableUnchanged DEF ReloadInv, NoMoreEvents, AcceptLoopEnds, watchVars
<1>2. InstanceInv'
  BY DEF ReloadInv, InstanceInv, NoMoreEvents, AcceptLoopEnds, Mode
<1>3. WatchInv'
  BY DEF ReloadInv, WatchInv, NoMoreEvents, AcceptLoopEnds, watchVars
<1> QED
  BY <1>1, <1>2, <1>3 DEF ReloadInv

(* The end of an instance: its task is the one that runs, and no end of an *)
(* earlier one is left.                                                    *)
LEMMA EndKeeps ==
  ASSUME InstanceInv, serving.mode # "idle", NEW how \in {"ok", "error"}, InstanceEnd(how),
         UNCHANGED <<started, flag>>
  PROVE  InstanceInv' /\ TableInv(loc, sess)'
<1>1. ends = <<>> /\ live' = {} /\ serving' = NoInstance /\ started \in Nat /\ started > 0
  BY DEF InstanceInv, InstanceEnd
<1>2. ends' = <<how>>
  BY <1>1 DEF InstanceEnd
<1>3. ends' \in Seq({"ok", "error"}) /\ Len(ends') <= 1
  BY <1>2
<1>4. "idle" \notin Modes
  BY DEF Modes, ClientModes
<1>5. InstanceInv'
  BY <1>1, <1>3, <1>4 DEF InstanceInv, NoInstance
<1>6. TableInv(loc', sess')
  <2>1. loc' = NoTable.loc /\ sess' = NoTable.sess
    BY DEF InstanceEnd, SetTable
  <2> QED
    BY <2>1, NoTableHolds
<1> QED
  BY <1>5, <1>6

LEMMA InstanceStopsKeeps ==
  ASSUME ReloadInv, InstanceStops
  PROVE  ReloadInv'
<1>1. FileInv'
  BY FileUnchanged DEF ReloadInv, InstanceStops, watchVars
<1>2. InstanceInv' /\ TableInv(loc, sess)'
  <2>1. serving.mode # "idle"
    BY DEF InstanceStops, ClientModes
  <2> QED
    BY <2>1, EndKeeps DEF ReloadInv, InstanceStops
<1>3. WatchInv'
  BY DEF ReloadInv, WatchInv, InstanceStops, watchVars
<1> QED
  BY <1>1, <1>2, <1>3 DEF ReloadInv

LEMMA InstanceUpdatesKeeps ==
  ASSUME ReloadInv, InstanceUpdates
  PROVE  ReloadInv'
<1>1. FileInv'
  BY FileUnchanged DEF ReloadInv, InstanceUpdates, watchVars
<1>2. InstanceInv'
  BY DEF ReloadInv, InstanceInv, InstanceUpdates, Mode
<1> DEFINE u == Head(updates)
           conf == ClientConf(serving.conf)
           s == Config[u.conf].client.services[u.name]
<1>3. u \in Update /\ updates' \in Seq(Update)
  BY HeadTail DEF ReloadInv, WatchInv, InstanceUpdates
<1>4. WatchInv'
  BY <1>3 DEF ReloadInv, WatchInv, InstanceUpdates, watchVars
<1>5. TableInv(Table.loc, Table.sess) /\ Table.loc = loc /\ Table.sess = sess
  BY DEF ReloadInv, Table
<1>6. u.name \in Names /\ u.kind \in {"delete", "add"} /\ u.conf \in Loadable
  BY <1>3 DEF Update, Event
<1>7. TableInv(loc', sess')
  <2>1. CASE UNCHANGED table
    BY <2>1, TableUnchanged DEF ReloadInv
  <2>2. CASE SetTable(DeleteService(Table, u.name))
    BY <2>2, <1>5, <1>6, DeleteKeeps DEF SetTable
  <2>3. CASE /\ serving.mode # "server" /\ u.kind # "delete"
             /\ SetTable(AddService(Table, conf, u.name, s))
    <3>1. u.kind = "add" /\ u.name \in DOMAIN Config[u.conf].client.services
      BY <2>3, <1>3, <1>6 DEF Update, Event
    <3>2. s.to \in Endpoint
      BY <3>1, <1>6, ConfigFacts
    <3>3. serving.mode \in ClientModes /\ serving.conf \in Loadable
          /\ serving.mode = Mode(serving.conf) /\ serving.mode \in Config[serving.conf].has
      BY <2>3 DEF ReloadInv, InstanceInv, InstanceUpdates, Modes, ClientModes
    <3>4. conf.def \in SessKeys
      BY <3>3, DefaultDialled
    <3>5. KeyOf(conf, s) \in SessKeys
      BY <3>2, <3>4, KeyDialled
    <3> HIDE DEF u, conf, s
    <3> QED
      BY <2>3, <3>5, <1>5, <1>6, AddKeeps DEF SetTable
  <2>4. \/ UNCHANGED table
        \/ SetTable(DeleteService(Table, u.name))
        \/ /\ serving.mode # "server" /\ u.kind # "delete"
           /\ SetTable(AddService(Table, conf, u.name, s))
    BY DEF InstanceUpdates
  <2> QED
    BY <2>1, <2>2, <2>3, <2>4
<1> QED
  BY <1>1, <1>2, <1>4, <1>7 DEF ReloadInv

LEMMA InstanceStartsKeeps ==
  ASSUME ReloadInv, InstanceStarts
  PROVE  ReloadInv'
<1>1. FileInv'
  BY FileUnchanged DEF ReloadInv, InstanceStarts, watchVars
<1>2. WatchInv'
  BY DEF ReloadInv, WatchInv, InstanceStarts, watchVars
<1> DEFINE d == serving.conf
           conf == ClientConf(d)
<1>3. /\ d \in Loadable /\ serving.mode = "starting" /\ started \in Nat /\ started > 0 /\ ends = <<>>
      /\ UNCHANGED <<started, flag>>
  BY DEF ReloadInv, InstanceInv, InstanceStarts
<1>4. CASE ~CanStart(d)
  <2>1. InstanceEnd("error")
    BY <1>4 DEF InstanceStarts
  <2>2. InstanceInv' /\ TableInv(loc, sess)'
    BY <2>1, <1>3, EndKeeps DEF ReloadInv
  <2> QED
    BY <1>1, <1>2, <2>2 DEF ReloadInv
<1>5. CASE CanStart(d)
  <2>1. /\ serving' = [serving EXCEPT !.mode = Mode(d)] /\ UNCHANGED <<live, ends>>
        /\ IF Mode(d) = "server" THEN UNCHANGED table
           ELSE \E order \in Orders[DOMAIN conf.services] : SetTable(StartTable(conf, order))
    BY <1>5 DEF InstanceStarts
  <2>2. Mode(d) \in Modes /\ Mode(d) \in Config[d].has
    BY <1>5 DEF CanStart, Modes, ClientModes
  <2>3. InstanceInv'
    <3>1. serving \in [mode : Modes \cup {"starting", "idle"}, conf : Docs \cup {Torn}]
      BY DEF ReloadInv, InstanceInv
    <3>2. /\ serving' \in [mode : Modes \cup {"starting", "idle"}, conf : Docs \cup {Torn}]
          /\ serving'.mode = Mode(d) /\ serving'.conf = d
      BY <2>1, <2>2, <3>1
    <3> QED
      BY <1>3, <2>1, <2>2, <3>2 DEF ReloadInv, InstanceInv, Mode
  <2>4. TableInv(loc', sess')
    <3>1. CASE Mode(d) = "server"
      BY <3>1, <2>1, TableUnchanged DEF ReloadInv
    <3>2. CASE Mode(d) # "server"
      <4>1. Mode(d) \in ClientModes
        BY <3>2, <2>2 DEF Modes
      <4>2. PICK order \in Orders[DOMAIN conf.services] : SetTable(StartTable(conf, order))
        BY <3>2, <2>1
      <4>3. /\ DOMAIN conf.services \subseteq Names
            /\ \A n \in DOMAIN conf.services : KeyOf(conf, conf.services[n]) \in SessKeys
        BY <4>1, <2>2, <1>3, ServicesDialled
      <4> HIDE DEF conf
      <4>4. PICK n \in Nat : order \in [1..n -> DOMAIN conf.services]
        BY <4>2, <4>3, OrderFacts
      <4>5. order \in [1..n -> Names] /\ \A i \in 1..n : KeyOf(conf, conf.services[order[i]]) \in SessKeys
        BY <4>3, <4>4
      <4> QED
        BY <4>2, <4>5, StartHolds DEF SetTable
    <3> QED
      BY <3>1, <3>2
  <2> QED
    BY <1>1, <1>2, <2>3, <2>4 DEF ReloadInv
<1> QED
  BY <1>4, <1>5

LEMMA ReloadInvIsInductive == ReloadInv /\ [ReloadNext]_reloadVars => ReloadInv'
<1> SUFFICES ASSUME ReloadInv, [ReloadNext]_reloadVars PROVE ReloadInv'
  OBVIOUS
<1>1. CASE ReloadNext
  BY <1>1, EditKeeps, WatcherKeeps, TakeGeneralKeeps, TakeChangeKeeps, TakeEndKeeps, LoopEndsKeep,
     InstanceStopsKeeps, InstanceUpdatesKeeps, InstanceStartsKeeps
     DEF ReloadNext, TaskStep
<1>2. CASE UNCHANGED reloadVars
  <2>1. InstanceInv' /\ TableInv(loc, sess)' /\ FileInv'
    BY <1>2, InstanceUnchanged, TableUnchanged, FileUnchanged DEF ReloadInv, reloadVars, watchVars
  <2>2. WatchInv'
    BY <1>2 DEF ReloadInv, WatchInv, reloadVars, watchVars, instVars
  <2> QED
    BY <2>1, <2>2 DEF ReloadInv
<1> QED
  BY <1>1, <1>2

LEMMA ReloadInvIsEnough == ReloadInv => ReloadSafe
<1> SUFFICES ASSUME ReloadInv PROVE ReloadSafe
  OBVIOUS
<1>1. ReloadTypeOK
  <2>1. live \subseteq 1..started /\ Len(ends) <= started
    BY DEF ReloadInv, InstanceInv
  <2>2. notes <= 2 * MaxEdits
    BY ReloadConstants DEF ReloadInv, FileInv
  <2>3. DOMAIN loc = Names /\ DOMAIN sess = SessKeys
    BY DEF ReloadInv, TableInv, TableCore, TableTypes
  <2> QED
    BY <2>1, <2>2, <2>3 DEF ReloadInv, FileInv, WatchInv, InstanceInv, ReloadTypeOK, Modes
<1>2. OneInstance
  <2>1. live = {} \/ live = {started}
    BY DEF ReloadInv, InstanceInv
  <2>2. Cardinality(live) <= 1
    <3>1. Cardinality({}) = 0
      BY FS_EmptySet
    <3>2. Cardinality({started}) = 1
      BY FS_Singleton
    <3> QED
      BY <2>1, <3>1, <3>2
  <2> QED
    BY <2>2 DEF OneInstance
<1>3. TableAgrees
  BY DEF ReloadInv, TableInv, TableCore, Registered, TableAgrees
<1> QED
  BY <1>1, <1>2, <1>3 DEF ReloadSafe

(* For every set of files and services, every schedule of edits and every  *)
(* mode of the process: one instance runs at a time, and what the sessions *)
(* of a client were told to serve is what its table lists, whatever        *)
(* additions, moves, deletions and restarts led there (lib.rs run,         *)
(* client.rs add_service, handle_hot_reload, reap_idle_sessions).          *)
THEOREM ReloadIsSafe == ReloadSpec => []ReloadSafe
<1>1. ReloadSpec => []ReloadInv
  BY ReloadInvHoldsInitially, ReloadInvIsInductive, PTL DEF ReloadSpec
<1> QED
  BY <1>1, ReloadInvIsEnough, PTL

=============================================================================
