----------------------------- MODULE KcpSession -----------------------------
(***************************************************************************)
(* One direction of a KCP session: the ARQ engine (src/kcp.rs) with the    *)
(* pump task that drives it (run_session in src/transport/kcp.rs), at the  *)
(* end A that writes and the end B that reads, over UDP.                   *)
(*                                                                         *)
(* Every pump round is one action: the branch of the select! it takes,     *)
(* then the tail (deliver_recv, maybe_sack, the flush).  Datagrams may be  *)
(* lost (when sent), duplicated (received and kept) and reordered (the     *)
(* wires are sets).  Timers are not counted: a retransmission timeout, a   *)
(* fast retransmit and an honoured SACK are the same choice of segments to *)
(* send again, and the dead-link grace is a flag that time may raise.      *)
(* Sequence numbers do not wrap: a session sends fewer than 2^31 segments. *)
(* The adapter sets nc=1 (configure), so cwnd never bounds a flush and is  *)
(* left out with ssthresh and incr.                                        *)
(***************************************************************************)
EXTENDS Naturals, Sequences, FiniteSets, SequencesExt, FiniteSetsExt

CONSTANTS
  KcpBytes,    \* bytes A's application writes
  Mss,         \* payload sizes the path-MTU probe may set
  SendChunk,   \* SEND_CHUNK, the largest record one send_owned is given
  MaxFrags,    \* KCP_WND_RCV, the segment count send_owned refuses
  SndWnd,      \* KCP_SND_WND
  RcvWnd,      \* KCP_RCV_WND
  FirstWnd,    \* KCP_WND_RCV, the window of a peer not yet heard from
  QueueLimit,  \* SND_QUEUE_LIMIT
  OutCap,      \* OUTBOUND_CHANNEL_DEPTH
  InCap,       \* INBOUND_CHANNEL_DEPTH
  DeadLink,    \* KCP_DEADLINK
  QuietRounds, \* CLOSE_QUIET_ROUNDS
  NetCap,      \* datagrams in flight each way (bound)
  KcpDroppers     \* ends whose application drops its stream (bound)

ASSUME KcpAssumption ==
  /\ {KcpBytes, SendChunk, MaxFrags, SndWnd, RcvWnd, FirstWnd, QueueLimit,
      OutCap, InCap, DeadLink, QuietRounds, NetCap} \subseteq Nat \ {0}
  /\ FirstWnd <= RcvWnd
  /\ Mss \subseteq Nat \ {0} /\ Mss # {} /\ KcpDroppers \subseteq {"A", "B"}

VARIABLES
  written,  \* bytes A's application has handed to poll_write
  outq,     \* out_tx: the records the pump has not taken
  snd,      \* A's engine, sending side
  endA,     \* "open", "closing", or how A's pump left
  quiet,    \* A's quiet_rounds
  rcv,      \* B's engine, receiving side, and the adapter's spill
  inq,      \* in_tx: segments in the reader channel
  got,      \* bytes B's application has read
  endB,     \* "open", "dropped" (both stream halves), "gone"
  toB, toA  \* datagrams in flight

kcpVars == <<written, outq, snd, endA, quiet, rcv, inq, got, endB, toB, toA>>

(* Bytes are numbered in the order they are written, so a run of them is a *)
(* sequence of consecutive numbers.                                        *)
Bytes(from, n) == [i \in 1..n |-> from + i]

---------------------------------------------------------------------------
(* The engine's sending side: snd_queue, snd_buf, snd_una, snd_nxt,        *)
(* rmt_wnd, the zero-window probe (off, waiting for ts_probe), whether the *)
(* send window has stood still past the grace, and the dead-link state.    *)
NewSnd == [queue |-> <<>>, buf |-> <<>>, una |-> 0, nxt |-> 0,
           wnd |-> FirstWnd, probe |-> "off", still |-> FALSE, dead |-> FALSE,
           mss |-> Max(Mss)]

WaitSnd(s) == Len(s.buf) + Len(s.queue)

(* send_owned: fill the last queued segment, then cut the rest by the mss. *)
CutChunk(data, mss) ==
  [i \in 1..((Len(data) + mss - 1) \div mss) |->
     SubSeq(data, (i - 1) * mss + 1, Min({i * mss, Len(data)}))]

Room(s) == IF s.queue = <<>> \/ Len(Last(s.queue)) >= s.mss THEN 0
           ELSE s.mss - Len(Last(s.queue))

SendOwned(s, data) ==
  LET ext  == Min({Len(data), Room(s)})
      head == SubSeq(data, 1, ext)
      rest == SubSeq(data, ext + 1, Len(data))
      base == IF ext = 0 THEN s.queue
              ELSE Front(s.queue) \o << Last(s.queue) \o head >>
  IN  [s EXCEPT !.queue = base \o CutChunk(rest, s.mss)]

(* The count send_owned refuses, an error or partial progress: both are    *)
(* fatal to drain_writer.                                                  *)
TooBig(s, data) ==
  Len(CutChunk(SubSeq(data, 1 + Min({Len(data), Room(s)}), Len(data)), s.mss))
    >= MaxFrags

(* parse_una pops the front of snd_buf, and only that counts as progress;  *)
(* parse_ack removes the segments named; shrink_buf moves snd_una.                *)
ParseUna(s, una) ==
  LET keep == SelectSeq(s.buf, LAMBDA g : g.sn >= una)
  IN  [s EXCEPT !.buf = keep,
                !.still = IF keep # s.buf THEN FALSE ELSE @]

ParseAck(s, sns) ==
  [s EXCEPT !.buf = SelectSeq(@, LAMBDA g : ~ (g.sn \in sns /\ g.sn >= s.una))]

ShrinkBuf(s) ==
  [s EXCEPT !.una = IF s.buf = <<>> THEN s.nxt ELSE s.buf[1].sn]

(* input, for a datagram that carries acknowledgements.                    *)
InputAck(s, m) ==
  ShrinkBuf(ParseAck(ShrinkBuf(ParseUna([s EXCEPT !.wnd = m.wnd], m.una)),
                      m.sns))

(* probe_wnd_size: at a zero window the first flush starts the wait, a     *)
(* later one (ripe: ts_probe has passed) asks.                             *)
ProbeWndNever(s) == [s EXCEPT !.probe = "off"]
ProbeWnd(s) ==
  [s EXCEPT !.probe = IF s.wnd = 0 THEN "wait" ELSE "off"]

Asks(s, ripe) == s.wnd = 0 /\ s.probe = "wait" /\ ripe

(* fill_snd_buf: move queued segments in while the window allows.          *)
FillSndBufFromNxt(s) ==
  LET n == Min({SndWnd, s.wnd, Len(s.queue)})
      new == [i \in 1..n |->
                [sn |-> s.nxt + i - 1, data |-> s.queue[i], xmit |-> 0]]
  IN  [s EXCEPT !.buf = @ \o new, !.nxt = @ + n,
                !.queue = SubSeq(@, n + 1, Len(@))]
FillSndBuf(s) ==
  LET limit == s.una + Min({SndWnd, s.wnd})
      n == IF s.nxt >= limit THEN 0 ELSE Min({limit - s.nxt, Len(s.queue)})
      new == [i \in 1..n |->
                [sn |-> s.nxt + i - 1, data |-> s.queue[i], xmit |-> 0]]
  IN  [s EXCEPT !.buf = @ \o new, !.nxt = @ + n,
                !.queue = SubSeq(@, n + 1, Len(@))]

(* The segments one flush sends: the new ones, and those of the others     *)
(* whose timeout, fast retransmit or SACK is due (the choice `due`).       *)
SendsOnce(g, due) == g.xmit = 0
Sends(g, due) == g.xmit = 0 \/ g.sn \in due

SendSegment(s, due) ==
  LET buf == [i \in 1..Len(s.buf) |->
                IF Sends(s.buf[i], due)
                THEN [s.buf[i] EXCEPT !.xmit = Min({@ + 1, DeadLink})]
                ELSE s.buf[i]]
  IN  [s EXCEPT !.buf = buf,
                !.dead = @ \/ \E i \in 1..Len(buf) :
                               /\ Sends(s.buf[i], due)
                               /\ buf[i].xmit >= DeadLink /\ s.still]

PushSegment(g) == [kind |-> "push", sn |-> g.sn, data |-> g.data]
Wask == [kind |-> "wask"]
Close == [kind |-> "close"]

(* flush at A: probe, fill, transmit.  The state after, and what is sent.  *)
FlushState(s, due) == SendSegment(FillSndBuf(ProbeWnd(s)), due)
FlushOut(s, due, ripe) ==
  LET f == FillSndBuf(ProbeWnd(s))
  IN  {PushSegment(f.buf[i]) : i \in {j \in 1..Len(f.buf) : Sends(f.buf[j], due)}}
        \cup (IF Asks(s, ripe) THEN {Wask} ELSE {})

---------------------------------------------------------------------------
(* The engine's receiving side with the adapter's spill.                   *)
NewRcv == [nxt |-> 0, buf |-> <<>>, queue |-> <<>>, acks |-> {},
           tell |-> FALSE, spill |-> <<>>]

Sns(r) == {r.buf[i].sn : i \in 1..Len(r.buf)}

(* The segments of rcv_buf from rcv_nxt on without a gap.                  *)
RunOverGaps(r) == Len(r.buf)
Run(r) == Max({k \in 0..Len(r.buf) :
                 \A i \in 1..k : r.buf[i].sn = r.nxt + i - 1})

(* move_buf: take that run while rcv_queue is shorter than the window.     *)
Moved(r, k) ==
  [r EXCEPT !.queue = @ \o [i \in 1..k |-> r.buf[i].data],
            !.buf = SubSeq(@, k + 1, Len(@)),
            !.nxt = @ + k]

Space(r) == IF Len(r.queue) >= RcvWnd THEN 0 ELSE RcvWnd - Len(r.queue)

MoveBuf(r) == Moved(r, Min({Run(r), Space(r)}))

(* parse_data inserts in order and ignores a repeat.                       *)
ParseData(r, m) ==
  LET below == SelectSeq(r.buf, LAMBDA g : g.sn < m.sn)
      above == SelectSeq(r.buf, LAMBDA g : g.sn > m.sn)
      seg == [sn |-> m.sn, data |-> m.data]
  IN  MoveBuf(IF m.sn \in Sns(r) THEN r
              ELSE [r EXCEPT !.buf = (below \o <<seg>>) \o above])

(* accept_push: a segment past the window is not acknowledged, an old one  *)
(* is acknowledged again and not kept.                                     *)
AcceptPush(r, m) ==
  IF m.sn >= r.nxt + RcvWnd THEN r
  ELSE LET acked == [r EXCEPT !.acks = @ \cup {m.sn}]
       IN  IF m.sn < r.nxt THEN acked ELSE ParseData(acked, m)

(* Mutant: one segment more is advertised than there is room for.          *)
WndUnusedOffByOne(r) == RcvWnd + 1 - Len(r.queue)
WndUnused(r) == Space(r)

(* recv_pop, n times: take the front segment, refill from rcv_buf, and     *)
(* remember to tell the window when the queue was full and no longer is.   *)
RecvPop(r, n) ==
  LET run  == Run(r)
      full == Moved(r, run).queue
      k    == Min({run, Space(r) + n})
      left == SubSeq(full, n + 1, Len(r.queue) + k)
  IN  [Moved(r, k) EXCEPT !.queue = left,
                          !.tell = @ \/ (Space(r) = 0 /\ n > 0
                                         /\ Len(left) < RcvWnd)]

(* deliver_recv: first the spill, in order, then rcv_queue until it is     *)
(* empty or a segment finds the reader channel full and spills.  The       *)
(* coalescing of segments into one message is left out.  (The result is a  *)
(* set of one element.)                                                    *)
DrainSpill(d) ==
  LET n == Min({Len(d.st.spill), InCap - Len(d.chan)})
  IN  [chan |-> d.chan \o SubSeq(d.st.spill, 1, n),
       st |-> [d.st EXCEPT !.spill = SubSeq(@, n + 1, Len(@))]]

DrainQueue(d) ==
  LET all  == Moved(d.st, Run(d.st)).queue
      room == InCap - Len(d.chan)
      n    == Min({Len(all), room + 1})
  IN  [chan |-> d.chan \o SubSeq(all, 1, Min({n, room})),
       st |-> [RecvPop(d.st, n) EXCEPT !.spill = SubSeq(all, room + 1, n)]]

DeliverRecv(chan, r) ==
  {IF d.st.spill # <<>> THEN d ELSE DrainQueue(d) :
     d \in {DrainSpill([chan |-> chan, st |-> r])}}

(* flush_ack and flush at B: one datagram with the pending acks and the    *)
(* window; WINS when asked, or when the queue came back under the window.  *)
AckOutOverGaps(r) ==
  IF r.acks = {} THEN {}
  ELSE {[kind |-> "ack", una |-> r.nxt + Len(r.buf), wnd |-> WndUnused(r),
         sns |-> r.acks]}
AckOut(r) ==
  IF r.acks = {} /\ ~ r.tell THEN {}
  ELSE {[kind |-> "ack", una |-> r.nxt, wnd |-> WndUnused(r), sns |-> r.acks]}

Flushed(r) == [r EXCEPT !.acks = {}, !.tell = FALSE]

---------------------------------------------------------------------------
(* Sending: any datagram may be lost, those in flight too, and a wire      *)
(* holds at most NetCap.                                                   *)
Carried(all) == {kept \in SUBSET all : Cardinality(kept) <= NetCap}
Sent(wire, out, new) ==
  new \in (IF out = {} THEN {wire} ELSE Carried(wire \cup out))

(* A datagram that is received leaves the wire, or a copy of it stays.     *)
After(wire, m) == {wire, wire \ {m}}

KcpInit ==
  /\ written = 0 /\ outq = <<>> /\ snd = NewSnd /\ endA = "open" /\ quiet = 0
  /\ rcv = NewRcv /\ inq = <<>> /\ got = <<>> /\ endB = "open"
  /\ toB = {} /\ toA = {}

(* poll_write: a permit of the semaphore, then the record is queued.       *)
KcpWrite(n) ==
  /\ endA = "open" /\ Len(outq) < OutCap
  /\ n <= SendChunk /\ written + n <= KcpBytes
  /\ written' = written + n
  /\ outq' = Append(outq, Bytes(written, n))
  /\ UNCHANGED <<snd, endA, quiet, rcv, inq, got, endB, toB, toA>>

(* A's application drops both halves of its stream.                        *)
DropA ==
  /\ "A" \in KcpDroppers /\ endA = "open"
  /\ endA' = "dropped"
  /\ UNCHANGED <<written, outq, snd, quiet, rcv, inq, got, endB, toB, toA>>

(* The tail of a pump round at A: the engine s, and what it emitted.  The  *)
(* session ends on a dead link; once closing, after QuietRounds rounds     *)
(* with nothing sent and nothing unacknowledged, or at the deadline, it    *)
(* says CLOSE and ends.                                                    *)
CalmUnacked(s, out) == out = {}
Calm(s, out) == out = {} /\ WaitSnd(s) = 0

TailA(mode, s, out, wire) ==
  /\ snd' = s
  /\ LET rounds == IF mode = "closing" /\ Calm(s, out) THEN quiet + 1 ELSE 0
     IN  \/ /\ ~ s.dead /\ rounds < QuietRounds
            /\ endA' = mode /\ quiet' = rounds /\ Sent(wire, out, toB')
         \/ /\ ~ s.dead /\ rounds >= QuietRounds
            /\ endA' = "quiet" /\ quiet' = 0
            /\ Sent(wire, out \cup {Close}, toB')
         \/ /\ ~ s.dead /\ mode = "closing"
            /\ endA' = "late" /\ quiet' = 0
            /\ Sent(wire, out \cup {Close}, toB')
         \/ /\ s.dead
            /\ endA' = "gone" /\ quiet' = 0 /\ Sent(wire, out, toB')

FlushTailA(mode, engine, due, ripe, wire) ==
  \E s \in {engine} :
    \E f \in {FlushState(s, due)}, out \in {FlushOut(s, due, ripe)} :
      TailA(mode, f, out, wire)

(* What may be due at a flush: any of the segments in flight.              *)
Dues == SUBSET {snd.buf[i].sn : i \in 1..Len(snd.buf)}

(* The writer branch of select!: drain_writer takes records until the      *)
(* queue limit, then the engine is flushed.                                *)
Fed(k) == SendOwned(snd, FlattenSeq(SubSeq(outq, 1, k)))

Taken ==
  LET stop == {k \in 1..Len(outq) : WaitSnd(Fed(k)) >= QueueLimit}
  IN  IF stop = {} THEN Len(outq) ELSE Min(stop)

(* One of them has too many segments for the engine.                       *)
DrainRefused == \E k \in 1..Taken : TooBig(Fed(k - 1), outq[k])

DrainWriter(due, ripe) ==
  /\ endA \in {"open", "dropped"} /\ outq # <<>>
  /\ WaitSnd(snd) < QueueLimit
  /\ ~ DrainRefused
  /\ \E k \in {Taken} :
       /\ outq' = SubSeq(outq, k + 1, Len(outq))
       /\ FlushTailA(endA, Fed(k), due, ripe, toB)
  /\ UNCHANGED <<written, rcv, inq, got, endB, toA>>

(* A record of too many segments ends the session.                         *)
DrainFatal ==
  /\ endA \in {"open", "dropped"} /\ outq # <<>>
  /\ WaitSnd(snd) < QueueLimit
  /\ DrainRefused
  /\ endA' = "gone" /\ quiet' = 0
  /\ UNCHANGED <<written, outq, snd, rcv, inq, got, endB, toB, toA>>

(* The writer channel is closed and empty: start closing.                  *)
SeeDropped ==
  /\ endA = "dropped" /\ outq = <<>> /\ WaitSnd(snd) < QueueLimit
  /\ TailA("closing", snd, {}, toB)
  /\ UNCHANGED <<written, outq, rcv, inq, got, endB, toA>>

UpA == endA \in {"open", "dropped", "closing"}

(* The datagram branch at A: acknowledgements, with the flush they make    *)
(* due; or CLOSE, after which no tail runs.                                *)
IntakeA(m, due, ripe) ==
  /\ UpA /\ m \in toA
  /\ toA' \in After(toA, m)
  /\ \/ /\ m.kind = "ack"
        /\ FlushTailA(endA, InputAck(snd, m), due, ripe, toB)
     \/ /\ m.kind = "close"
        /\ endA' = "gone" /\ quiet' = 0 /\ UNCHANGED <<snd, toB>>
  /\ UNCHANGED <<written, outq, rcv, inq, got, endB>>

(* The timer branch at A: update, hence flush.                             *)
TimerA(due, ripe) ==
  /\ UpA
  /\ FlushTailA(endA, snd, due, ripe, toB)
  /\ UNCHANGED <<written, outq, rcv, inq, got, endB, toA>>

(* KCP_DEAD_GRACE_MS pass with no segment taken by parse_una.              *)
GracePasses ==
  /\ UpA /\ ~ snd.still
  /\ snd' = [snd EXCEPT !.still = TRUE]
  /\ UNCHANGED <<written, outq, endA, quiet, rcv, inq, got, endB, toB, toA>>

(* maybe_path_mtu: the probe moves the segment size either way.            *)
PathMtu(mss) ==
  /\ UpA /\ mss # snd.mss
  /\ snd' = [snd EXCEPT !.mss = mss]
  /\ UNCHANGED <<written, outq, endA, quiet, rcv, inq, got, endB, toB, toA>>

---------------------------------------------------------------------------
(* A round at B after its branch left the engine r: deliver, then flush.   *)
(* Once the reader is gone the segments taken go nowhere.                  *)
Deliveries(r) ==
  IF endB = "open" THEN DeliverRecv(inq, r)
  ELSE {[chan |-> inq, st |-> [RecvPop(r, Len(r.queue) + Run(r))
                                 EXCEPT !.spill = <<>>]]}

(* The datagram branch at B: data or a window probe, or CLOSE.             *)
IntakeB(m) ==
  /\ endB # "gone" /\ m \in toB
  /\ toB' \in After(toB, m)
  /\ \/ /\ m.kind # "close"
        /\ \E r \in {IF m.kind = "push" THEN AcceptPush(rcv, m)
                     ELSE [rcv EXCEPT !.tell = TRUE]} :
           \E d \in Deliveries(r) :
             /\ rcv' = Flushed(d.st) /\ inq' = d.chan
             /\ Sent(toA, AckOut(d.st), toA')
        /\ UNCHANGED endB
     \/ /\ m.kind = "close"
        /\ endB' = "gone" /\ UNCHANGED <<rcv, inq, toA>>
  /\ UNCHANGED <<written, outq, snd, endA, quiet, got>>

(* The timer branch at B: update flushes, then the tail delivers.          *)
TimerB ==
  /\ endB # "gone"
  /\ \E d \in Deliveries(Flushed(rcv)) : rcv' = d.st /\ inq' = d.chan
  /\ Sent(toA, AckOut(rcv), toA')
  /\ UNCHANGED <<written, outq, snd, endA, quiet, got, endB, toB>>

(* poll_read: the channel still holds what was delivered when the pump is  *)
(* gone.                                                                   *)
KcpRead ==
  /\ endB # "dropped" /\ inq # <<>>
  /\ got' = got \o inq[1] /\ inq' = Tail(inq)
  /\ UNCHANGED <<written, outq, snd, endA, quiet, rcv, endB, toB, toA>>

(* B's application drops its stream; the pump then closes, or leaves       *)
(* without a word when deliver_recv meets the closed channel.              *)
DropB ==
  /\ "B" \in KcpDroppers /\ endB = "open"
  /\ endB' = "dropped" /\ inq' = <<>>
  /\ UNCHANGED <<written, outq, snd, endA, quiet, rcv, got, toB, toA>>

CloseB ==
  /\ endB = "dropped"
  /\ endB' = "gone"
  /\ Sent(toA, {Close}, toA')
  /\ UNCHANGED <<written, outq, snd, endA, quiet, rcv, inq, got, toB>>

KcpNext ==
  \/ \E n \in 1..SendChunk : KcpWrite(n)
  \/ DropA \/ DrainFatal \/ SeeDropped \/ GracePasses
  \/ \E due \in Dues, ripe \in BOOLEAN :
       \/ DrainWriter(due, ripe)
       \/ TimerA(due, ripe)
       \/ \E m \in toA : IntakeA(m, due, ripe)
  \/ \E mss \in Mss : PathMtu(mss)
  \/ \E m \in toB : IntakeB(m)
  \/ TimerB \/ KcpRead \/ DropB \/ CloseB

KcpSpec == KcpInit /\ [][KcpNext]_kcpVars

(* The network is fair, not reliable: a datagram sent again and again gets *)
(* through, and one on the wire is received.  Both pumps run (their timers *)
(* fire) and B's application reads.                                        *)
OldestArrives ==
  /\ UpA /\ UNCHANGED <<written, outq, rcv, inq, got, endB, toA>>
  /\ \E f \in {FlushState(snd, {snd.una})} :
     \E m \in FlushOut(snd, {snd.una}, TRUE) :
       /\ m.kind = "push" /\ m.sn = f.una
       /\ TailA(endA, f, {m}, {}) /\ toB' = {m}
ProbeArrives ==
  /\ Asks(snd, TRUE) /\ TimerA({}, TRUE) /\ toB' = {Wask}
AnswerArrives(m) ==
  /\ m \in toB /\ (m.kind = "push" => m.sn = snd.una)
  /\ IntakeB(m) /\ toB' = toB \ {m}
  /\ \E a \in toA' : /\ a.kind = "ack" /\ a.una = rcv'.nxt
                     /\ a.wnd = WndUnused(rcv')
News(m) == m.kind = "ack" /\ (m.una > snd.una \/ m.wnd > 0)

KcpTasks == {"writer", "timerA", "timerB", "reader", "grace"}
KcpTask(k) ==
  \/ k = "writer" /\ DrainWriter({}, FALSE)
  \/ k = "timerA" /\ TimerA({}, FALSE)
  \/ k = "timerB" /\ TimerB
  \/ k = "reader" /\ KcpRead
  \/ k = "grace" /\ GracePasses
KcpArrivals == {"oldest", "probe", "answer", "news"}
KcpArrival(k) ==
  \/ k = "oldest" /\ OldestArrives
  \/ k = "probe" /\ ProbeArrives
  \/ k = "answer" /\ \E m \in toB : AnswerArrives(m)
  \/ k = "news" /\ \E m \in toA : News(m) /\ IntakeA(m, {}, FALSE)

KcpLive ==
  /\ KcpSpec /\ \A k \in KcpTasks : WF_kcpVars(KcpTask(k))
  /\ \A k \in KcpArrivals : SF_kcpVars(KcpArrival(k))

---------------------------------------------------------------------------
Segment == Seq(1..KcpBytes)
(* Type invariant: queues hold segments, counters stay within what was written. *)
KcpTypeOK ==
  /\ written \in 0..KcpBytes
  /\ outq \in Seq(Segment) /\ inq \in Seq(Segment) /\ got \in Segment
  /\ snd.una \in Nat /\ snd.nxt \in Nat /\ snd.wnd \in 0..RcvWnd
  /\ endA \in {"open", "dropped", "closing", "quiet", "late", "gone"}
  /\ endB \in {"open", "dropped", "gone"}
  /\ quiet \in 0..QuietRounds

(* In order, exactly once: what B has read, what waits in the reader       *)
(* channel, in the spill and in rcv_queue are together a prefix of the     *)
(* bytes A wrote, whatever the network does and however often segments     *)
(* were merged, cut and sent again.                                        *)
KcpInOrder ==
  endB = "open" =>
    LET held == got \o FlattenSeq(inq) \o FlattenSeq(rcv.spill)
                  \o FlattenSeq(rcv.queue)
    IN  \A i \in 1..Len(held) : held[i] = i

(* A segment the sender has let go of has arrived: parse_ack and parse_una *)
(* remove only what the receiver's engine holds or has passed on.          *)
AckedArrived ==
  \A sn \in 0..(snd.nxt - 1) :
    \/ \E i \in 1..Len(snd.buf) : snd.buf[i].sn = sn
    \/ sn < rcv.nxt \/ sn \in Sns(rcv)

(* The receiver never holds more than its window twice over, and the       *)
(* sender never runs further ahead than its own.                           *)
WindowsHold ==
  /\ Len(rcv.queue) <= RcvWnd
  /\ \A sn \in Sns(rcv) : rcv.nxt <= sn /\ sn < rcv.nxt + RcvWnd
  /\ snd.nxt - snd.una <= SndWnd
  /\ Len(rcv.spill) <= 1

(* A that ends by quiet rounds leaves nothing behind: every byte it was    *)
(* given is in B's hands (closing_quiescent counts what is unacknowledged).*)
QuietCloseFlushed ==
  endA = "quiet" =>
    /\ outq = <<>> /\ snd.queue = <<>> /\ snd.buf = <<>>
    /\ snd.nxt <= rcv.nxt + Cardinality(Sns(rcv))

(* Every byte A's application wrote is read by B's, unless an end has left:*)
(* a lost ack is repeated, a lost segment sent again, and a window that    *)
(* closed is found open again although the datagram that said so was lost. *)
EverythingRead ==
  []<>(Len(got) = written \/ ~ UpA \/ endB # "open")

(* A peer that is gone without a word (its CLOSE frames lost) is found out *)
(* once something is in flight to it: the retransmissions run into the     *)
(* dead-link count and the silence into the grace.  (With nothing in       *)
(* flight and a closed window the sender only probes, and is never told.)  *)
VanishedPeerFound ==
  []<>(endB = "gone" => ~ UpA \/ snd.buf = <<>>)

(* The safety of a session over UDP: bytes in order and once, nothing let  *)
(* go of that has not arrived, both windows kept, a quiet end only when    *)
(* everything was handed over.                                             *)
KcpSafe ==
  KcpTypeOK /\ KcpInOrder /\ AckedArrived /\ WindowsHold /\ QuietCloseFlushed

(* Over a network that is fair but not reliable everything is read, and a  *)
(* peer that vanished is found out.                                        *)
KcpDelivers == EverythingRead /\ VanishedPeerFound
=============================================================================
