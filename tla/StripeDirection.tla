-------------------------- MODULE StripeDirection --------------------------
(***************************************************************************)
(* One direction of a stripe group (src/stripe.rs): send_loop numbers the  *)
(* chunks of its source and StripeSender spreads them round-robin over the *)
(* stripes; one stripe_reader per stripe feeds the reorder loop recv_loop, *)
(* which writes the chunks to its destination in sequence order.           *)
(*                                                                         *)
(* A stripe is a data channel of bounded capacity.  A frame is FrameLen    *)
(* units long, because a stripe may take a part of a frame and then park.  *)
(***************************************************************************)
EXTENDS Naturals, Sequences, FiniteSets

CONSTANTS
  K,         \* stripes of the group
  FrameLen,  \* units of a frame (header and payload)
  Cap,       \* units a stripe holds before its poll_write parks
  Queue,     \* STRIPE_REORDER_QUEUE, the capacity of the event channel
  Chunks,    \* what a chunk of the source may contain
  MaxFrames, \* chunks the source yields (model bound)
  Faults     \* ways the environment may break the group

ASSUME StripeAssumption ==
  /\ K \in Nat \ {0} /\ FrameLen \in Nat \ {0}
  /\ Cap \in Nat \ {0} /\ Queue \in Nat \ {0} /\ MaxFrames \in Nat
  /\ "broken" \notin Chunks
  /\ Faults \subseteq {"eof", "error", "source", "dest"}

Stripes == 0..(K - 1)

VARIABLES
  source,  \* the chunks read from the source so far
  phase,   \* send_loop: "read", "send", "parked", "finish", "done", "failed"
  next,    \* StripeSender::next
  tried,   \* stripes that refused the frame in this poll
  off,     \* StripeSender::committed, per stripe
  armed,   \* stripes that hold the sender's waker
  woken,   \* a stored waker fired since the last poll began
  pipe,    \* units in flight, per stripe
  shut,    \* per stripe: "open", "fin", or cut: "eof" or "error"
  hand,    \* units of the current frame a reader has taken, per stripe
  reader,  \* per stripe: "reading" or "ended"
  rx,      \* the event channel
  recv,    \* recv_loop: "recv", "drain", then "clean" or "failed"
  want,    \* recv_loop's `next`
  pending, \* the reorder map
  out      \* chunks written to the destination

svars == <<source, phase, next, tried, off, armed, woken>>
pvars == <<pipe, shut>>
rvars == <<hand, reader, rx, recv, want, pending, out>>
vars == <<svars, pvars, rvars>>

Unit(s, b, p) == [seq |-> s, body |-> b, part |-> p]
Event(s, b) == [seq |-> s, body |-> b]
Broken == [seq |-> 0, body |-> "broken"]

Idx == next % K

Init ==
  /\ source = <<>> /\ phase = "read" /\ next = 0 /\ tried = 0
  /\ off = [s \in Stripes |-> 0] /\ armed = {} /\ woken = FALSE
  /\ pipe = [s \in Stripes |-> <<>>] /\ shut = [s \in Stripes |-> "open"]
  /\ hand = [s \in Stripes |-> <<>>] /\ reader = [s \in Stripes |-> "reading"]
  /\ rx = <<>> /\ recv = "recv" /\ want = 0 /\ pending = {} /\ out = <<>>

-----------------------------------------------------------------------------
(* The send direction.                                                     *)

(* send_loop reads the next chunk and frames it with the next number.      *)
ReadSource ==
  /\ phase = "read" /\ Len(source) < MaxFrames
  /\ \E b \in Chunks : source' = Append(source, b)
  /\ phase' = "send" /\ tried' = 0 /\ woken' = FALSE
  /\ UNCHANGED <<next, off, armed, pvars, rvars>>

(* The source ended; finish() half-closes the stripes in order.            *)
SourceEnds ==
  /\ phase = "read"
  /\ phase' = "finish" /\ next' = 0
  /\ UNCHANGED <<source, tried, off, armed, woken, pvars, rvars>>

FinishStripe ==
  /\ phase = "finish" /\ next < K
  /\ shut' = [shut EXCEPT ![next] = IF @ = "open" THEN "fin" ELSE @]
  /\ next' = next + 1
  /\ phase' = IF next + 1 = K THEN "done" ELSE phase
  /\ UNCHANGED <<source, tried, off, armed, woken, pipe, rvars>>

(* The send direction fails and drops every write half.                    *)
FailSend ==
  /\ phase' = "failed"
  /\ shut' = [s \in Stripes |-> IF shut[s] = "open" THEN "eof" ELSE shut[s]]

SourceFails ==
  /\ "source" \in Faults /\ phase = "read" /\ FailSend
  /\ UNCHANGED <<source, next, tried, off, armed, woken, pipe, rvars>>

(* The number of the frame being sent, and its units from p on.            *)
Seq0 == Len(source) - 1
UnitsFrom(p, n) == [j \in 1..n |-> Unit(Seq0, source[Len(source)], p + j)]
Room(s) == Cap - Len(pipe[s])

(* Mutant: the sender waits for a wake nobody owes it.                     *)
AfterWriteParking(s, end) ==
  IF end = FrameLen
  THEN /\ off' = [off EXCEPT ![s] = 0] /\ next' = s + 1 /\ phase' = "read"
  ELSE /\ off' = [off EXCEPT ![s] = end] /\ next' = next /\ phase' = "parked"

(* Mutant: a frame is continued on the next stripe.                        *)
AfterWriteMovingOn(s, end) ==
  IF end = FrameLen
  THEN /\ off' = [off EXCEPT ![s] = 0] /\ next' = s + 1 /\ phase' = "read"
  ELSE /\ off' = [off EXCEPT ![s] = end] /\ next' = s + 1 /\ UNCHANGED phase

(* Mutant: the next stripe is counted, not computed.                       *)
AfterWriteUnwrapped(s, end) ==
  IF end = FrameLen
  THEN /\ off' = [off EXCEPT ![s] = 0] /\ next' = next + 1 /\ phase' = "read"
  ELSE /\ off' = [off EXCEPT ![s] = end] /\ UNCHANGED <<next, phase>>

(* poll_send, one poll_write that the stripe accepts: the frame completes, *)
(* or stays committed to this stripe and polling goes on.                  *)
AfterWrite(s, end) ==
  IF end = FrameLen
  THEN /\ off' = [off EXCEPT ![s] = 0] /\ next' = s + 1 /\ phase' = "read"
  ELSE /\ off' = [off EXCEPT ![s] = end] /\ UNCHANGED <<next, phase>>

PollWriteReady ==
  LET s == Idx
  IN  /\ phase = "send" /\ shut[s] = "open" /\ Room(s) > 0
      /\ \E n \in 1..(FrameLen - off[s]) :
           /\ n <= Room(s)
           /\ pipe' = [pipe EXCEPT ![s] = @ \o UnitsFrom(off[s], n)]
           /\ AfterWrite(s, off[s] + n)
      /\ UNCHANGED <<source, tried, armed, woken, shut, rvars>>

(* ... one that parks: a stripe with nothing committed is skipped, until   *)
(* every stripe has refused.                                               *)
PollWritePending ==
  LET s == Idx
  IN  /\ phase = "send" /\ shut[s] = "open" /\ Room(s) = 0
      /\ armed' = armed \cup {s}
      /\ IF off[s] > 0
         THEN phase' = "parked" /\ UNCHANGED <<next, tried>>
         ELSE /\ next' = s + 1 /\ tried' = tried + 1
              /\ phase' = IF tried + 1 = K THEN "parked" ELSE phase
      /\ UNCHANGED <<source, off, woken, pvars, rvars>>

(* ... one that fails.                                                     *)
PollWriteError ==
  /\ phase = "send" /\ shut[Idx] # "open" /\ FailSend
  /\ UNCHANGED <<source, next, tried, off, armed, woken, pipe, rvars>>

(* The task is polled again once one of the stored wakers has fired.       *)
Repoll ==
  /\ phase = "parked" /\ woken
  /\ phase' = "send" /\ tried' = 0 /\ woken' = FALSE
  /\ UNCHANGED <<source, next, off, armed, pvars, rvars>>

-----------------------------------------------------------------------------
(* The stripes.                                                            *)

(* A stripe that frees room, or dies, fires the waker stored in it.        *)
Wake(s) == woken' = (woken \/ s \in armed) /\ armed' = armed \ {s}

(* A data channel dies under the group; what had not reached the reader is *)
(* lost.  A mux stream then reads as end-of-file, a plain connection as an *)
(* error.                                                                  *)
CutStripe(s) ==
  /\ shut[s] \in {"open", "fin"}
  /\ \E how \in {"eof", "error"} \cap Faults : shut' = [shut EXCEPT ![s] = how]
  /\ \E n \in 0..Len(pipe[s]) : pipe' = [pipe EXCEPT ![s] = SubSeq(@, 1, n)]
  /\ Wake(s)
  /\ UNCHANGED <<source, phase, next, tried, off, rvars>>

-----------------------------------------------------------------------------
(* The receive direction.                                                  *)

Receiving == recv \in {"recv", "drain"}

(* stripe_reader takes one more unit of the current frame.                 *)
ReadUnit(s) ==
  /\ Receiving /\ reader[s] = "reading" /\ pipe[s] # <<>> /\ Len(hand[s]) < FrameLen
  /\ hand' = [hand EXCEPT ![s] = Append(@, Head(pipe[s]))]
  /\ pipe' = [pipe EXCEPT ![s] = Tail(@)]
  /\ Wake(s)
  /\ UNCHANGED <<source, phase, next, tried, off, shut, reader, rx, recv, want, pending, out>>

(* A whole frame goes to the reorder loop, when its channel has room; the  *)
(* header the frame began with says which number and chunk it is.          *)
ForwardFrame(s) ==
  /\ Receiving /\ Len(hand[s]) = FrameLen /\ Len(rx) < Queue
  /\ rx' = Append(rx, Event(hand[s][1].seq, hand[s][1].body))
  /\ hand' = [hand EXCEPT ![s] = <<>>]
  /\ UNCHANGED <<svars, pvars, reader, recv, want, pending, out>>

(* The stripe ends: silently at a frame boundary, as Broken inside a frame *)
(* or on a read error.                                                     *)
EndsSilently(s) == shut[s] # "error" /\ hand[s] = <<>>

StripeEnds(s) ==
  /\ Receiving /\ reader[s] = "reading" /\ pipe[s] = <<>>
  /\ shut[s] # "open" /\ Len(hand[s]) < FrameLen
  /\ IF EndsSilently(s) THEN UNCHANGED rx
                        ELSE Len(rx) < Queue /\ rx' = Append(rx, Broken)
  /\ reader' = [reader EXCEPT ![s] = "ended"]
  /\ UNCHANGED <<svars, pvars, hand, recv, want, pending, out>>

(* A frame that is not the awaited one: kept when later, dropped when      *)
(* already delivered.                                                      *)
Kept(map, e, w) == IF e.seq > w THEN map \cup {e} ELSE map

(* recv_loop takes one event: deliver the awaited frame, keep a later one, *)
(* drop an earlier one.                                                    *)
TakeFrameAsItComes ==
  /\ recv = "recv" /\ rx # <<>> /\ Head(rx) # Broken
  /\ rx' = Tail(rx) /\ out' = Append(out, Head(rx).body)
  /\ UNCHANGED <<svars, pvars, hand, reader, recv, want, pending>>
TakeFrame ==
  /\ recv = "recv" /\ rx # <<>> /\ Head(rx) # Broken
  /\ rx' = Tail(rx)
  /\ LET e == Head(rx)
     IN  IF e.seq = want
         THEN /\ out' = Append(out, e.body) /\ want' = want + 1 /\ recv' = "drain"
              /\ UNCHANGED pending
         ELSE /\ pending' = Kept(pending, e, want)
              /\ UNCHANGED <<out, want, recv>>
  /\ UNCHANGED <<svars, pvars, hand, reader>>

(* ... and then what the gap was holding back, one write at a time.        *)
Drain ==
  /\ recv = "drain"
  /\ \E e \in pending :
       /\ e.seq = want
       /\ out' = Append(out, e.body) /\ want' = want + 1
       /\ pending' = pending \ {e}
  /\ UNCHANGED <<svars, pvars, hand, reader, rx, recv>>

DrainEnds ==
  /\ recv = "drain" /\ \A e \in pending : e.seq # want
  /\ recv' = "recv"
  /\ UNCHANGED <<svars, pvars, hand, reader, rx, want, pending, out>>

(* Without ReaderTasks the readers stay parked on their stripes.            *)
LeakReaders == UNCHANGED <<shut, pipe, armed, woken>>

(* The receive direction fails: its readers are aborted with it, so the    *)
(* stripes they held are reset and wake whoever waits to write to them.    *)
DropReaders ==
  /\ shut' = [s \in Stripes |-> IF shut[s] = "open" THEN "eof" ELSE shut[s]]
  /\ pipe' = [s \in Stripes |-> <<>>]
  /\ armed' = {} /\ woken' = (woken \/ armed # {})
FailRecv == recv' = "failed" /\ DropReaders

TakeBroken ==
  /\ recv = "recv" /\ rx # <<>> /\ Head(rx) = Broken
  /\ rx' = Tail(rx) /\ FailRecv
  /\ UNCHANGED <<source, phase, next, tried, off, hand, reader, want, pending, out>>

DestFails ==
  /\ "dest" \in Faults /\ recv = "drain" /\ FailRecv
  /\ UNCHANGED <<source, phase, next, tried, off, hand, reader, rx, want, pending, out>>

(* Every reader ended and the channel drained: the destination is shut     *)
(* down as at a normal end.                                                *)
RecvEnds ==
  /\ recv = "recv" /\ rx = <<>>
  /\ \A s \in Stripes : reader[s] = "ended"
  /\ recv' = "clean"
  /\ UNCHANGED <<svars, pvars, hand, reader, rx, want, pending, out>>

Sender ==
  ReadSource \/ SourceEnds \/ FinishStripe \/ PollWriteReady \/ PollWritePending
  \/ PollWriteError \/ Repoll
Receiver ==
  \/ \E s \in Stripes : ReadUnit(s) \/ ForwardFrame(s) \/ StripeEnds(s)
  \/ TakeFrame \/ Drain \/ DrainEnds \/ TakeBroken \/ RecvEnds

Next == Sender \/ Receiver \/ SourceFails \/ DestFails \/ \E s \in Stripes : CutStripe(s)

Spec == Init /\ [][Next]_vars

(* Every task is scheduled: the sender, each reader, the reorder loop.     *)
LiveSpec == Spec /\ WF_vars(Sender \/ Receiver)

-----------------------------------------------------------------------------
Units == [seq : Nat, body : Chunks, part : Nat]
Events == [seq : Nat, body : Chunks \cup {"broken"}]

(* Type invariant.                                                         *)
TypeOK ==
  /\ source \in Seq(Chunks)
  /\ phase \in {"read", "send", "parked", "finish", "done", "failed"}
  /\ next \in 0..K /\ tried \in 0..K /\ off \in [Stripes -> 0..FrameLen]
  /\ armed \subseteq Stripes /\ woken \in BOOLEAN
  /\ pipe \in [Stripes -> Seq(Units)] /\ hand \in [Stripes -> Seq(Units)]
  /\ shut \in [Stripes -> {"open", "fin", "eof", "error"}]
  /\ reader \in [Stripes -> {"reading", "ended"}]
  /\ rx \in Seq(Events) /\ recv \in {"recv", "drain", "clean", "failed"}
  /\ want \in Nat /\ pending \subseteq Events /\ out \in Seq(Chunks)

(* What reaches the destination is a prefix of what the source yielded:    *)
(* whichever stripes the frames took and whatever broke, nothing is        *)
(* reordered, repeated or skipped (recv_loop).                             *)
InOrder == Len(out) <= Len(source) /\ \A j \in 1..Len(out) : out[j] = source[j]

(* On every stripe whole frames follow each other: a frame is never torn   *)
(* over two stripes or interleaved with another one, even when its stripe  *)
(* parks in the middle of it (poll_send, `committed`).                     *)
FramesWhole ==
  \A s \in Stripes :
    LET w == hand[s] \o pipe[s]
    IN  \A j \in 1..Len(w) :
          /\ w[j].part = ((j - 1) % FrameLen) + 1
          /\ w[j].part > 1 => w[j].seq = w[j - 1].seq

(* A stripe group that nothing breaks delivers its whole source and then   *)
(* ends: no wakeup is lost between the stripes and the sender, and no gap  *)
(* stays open.                                                             *)
Delivers ==
  []<>(
     \/ phase = "read" /\ source = <<>>
     \/ recv = "clean" /\ out = source /\ phase = "done"
     \/ recv = "failed" \/ phase = "failed"
     \/ \E s \in Stripes : shut[s] \in {"eof", "error"})

(* When the receive direction fails, its readers go with it (ReaderTasks), *)
(* so a sender parked on full stripes is released and ends.                *)
SenderLearns == []<>(recv = "failed" => phase \in {"done", "failed"})

(* spawn_group: a group that lost a stripe can never deliver the missing   *)
(* numbers and is ended as broken, not as a normal end of the stream.      *)
CleanEndIsComplete == recv = "clean" /\ phase = "done" => out = source

(* Types, and frames that stay whole on the stripe they began on.          *)
StripeSafe == TypeOK /\ FramesWhole

(* A direction nothing breaks delivers and ends; a broken one ends on both *)
(* sides.                                                                  *)
DirectionEnds == Delivers /\ SenderLearns
=============================================================================
