--------------------------- MODULE MuxConnection ---------------------------
(***************************************************************************)
(* One yamux connection of a tunnel: two `Connection`s (src/mux) joined by *)
(* an ordered socket, and the `Stream`s the client opens over it.          *)
(*                                                                         *)
(* A stream's user and the connection's driver are different tasks: the    *)
(* user puts commands in a bounded per-stream channel, the driver moves    *)
(* them into a priority queue of bookkeeping frames (ctrl) and a FIFO of   *)
(* payload (data), and writes ctrl ahead of data.  Bytes are counted, not  *)
(* spelled: the payload of one stream never overtakes itself, so counts    *)
(* tell everything the properties ask about.                               *)
(***************************************************************************)
EXTENDS Naturals, Sequences, FiniteSets

CONSTANTS
  Streams,    \* ids the client may open (next_stream_id never reuses one)
  MaxStreams, \* Config::max_num_streams (DEFAULT_MUX_MAX_STREAMS = 64)
  Ceiling,    \* streams the pool places on one tunnel (TUNNEL_STREAM_CEILING)
  MaxBacklog, \* MAX_ACK_BACKLOG
  Credit,     \* DEFAULT_CREDIT, in model bytes
  Split,      \* Config::split_send_size
  ChanCap,    \* depth of a stream's command channel (10)
  WireCap,    \* frames the socket holds in one direction
  MaxBytes,   \* [Sides -> Nat]: bytes a side writes per stream (model bound)
  Closers,    \* the sides whose users half-close with poll_shutdown
  Droppers,   \* the sides whose users drop their Stream
  Faults      \* the sides whose driver may end (I/O error, tunnel shut down)

Sides == {"client", "server"}

ASSUME MuxAssumption ==
  /\ IsFiniteSet(Streams)
  /\ MaxStreams \in Nat \ {0} /\ Ceiling \in 1..MaxStreams
  /\ MaxBacklog \in Nat \ {0} /\ Credit \in Nat \ {0} /\ Split \in Nat \ {0}
  /\ ChanCap \in Nat \ {0} /\ WireCap \in Nat \ {0}
  /\ MaxBytes \in [Sides -> Nat]
  /\ Closers \subseteq Sides /\ Droppers \subseteq Sides /\ Faults \subseteq Sides

VARIABLES
  conn,   \* ConnectionState of each side: "active" or "closed"
  known,  \* Active::streams, the ids of the stream map
  ep,     \* per side and id: the Stream handle and its Shared state
  chan,   \* per side and id: the stream's command channel
  ctrl,   \* Active::control_frames
  data,   \* Active::pending_frames
  reply,  \* Active::pending_read_frame, a sequence of length 0 or 1
  wire    \* frames in the socket, by sending side

vars == <<conn, known, ep, chan, ctrl, data, reply, wire>>

Peer(p) == IF p = "client" THEN "server" ELSE "client"

MaxPending == MaxStreams * Split      \* Active::max_pending_bytes

-----------------------------------------------------------------------------
(* Frames and commands.  A close command becomes a FIN frame when taken.   *)

Flags == SUBSET {"SYN", "ACK", "FIN", "RST"}
Frame(k, i, n, fl) == [k |-> k, id |-> i, n |-> n, fl |-> fl]
GoAway == Frame("goaway", 0, 0, {})
IsReset(f) == "RST" \in f.fl
Frames == [k : {"data", "wu", "goaway"}, id : Streams \cup {0}, n : Nat, fl : Flags]

Total(v) ==
  LET sum[j \in 0..Len(v)] == IF j = 0 THEN 0 ELSE sum[j - 1] + v[j]
  IN  sum[Len(v)]
SumLen(s) == Total([j \in DOMAIN s |-> s[j].n])

(* is_bookkeeping: what leaves through control_frames.                     *)
IsBookkeeping(f) == f.k = "wu" \/ "FIN" \in f.fl

-----------------------------------------------------------------------------
(* The shared state of one stream end.                                     *)

StreamStates == {"open", "sendClosed", "recvClosed", "closed"}
CanRead(s)  == s \notin {"recvClosed", "closed"}
CanWrite(s) == s \notin {"sendClosed", "closed"}

(* Shared::update_state; "open" stands for Open { .. }.                    *)
UpdateState(cur, next) ==
  CASE cur = "open" -> next
    [] cur = "recvClosed" /\ next \in {"closed", "sendClosed"} -> "closed"
    [] cur = "sendClosed" /\ next \in {"closed", "recvClosed"} -> "closed"
    [] OTHER -> cur

(* handle: "none" before the stream exists, "held" by its user, "dropped"  *)
(* by the user but not yet seen by the driver, "gone" afterwards.          *)
NoEnd == [st |-> "closed", acked |-> FALSE, handle |-> "none", flag |-> {},
          sw |-> 0, rw |-> 0, buf |-> 0, wrote |-> 0, got |-> 0,
          eof |-> FALSE, dry |-> FALSE, reset |-> FALSE, finished |-> FALSE]

NewEnd(fl) == [NoEnd EXCEPT !.st = "open", !.handle = "held", !.flag = fl,
                            !.sw = Credit, !.rw = Credit]

Held(p, i) == ep[p][i].handle = "held"

(* Streams the pool counts on this tunnel: a lease lives as long as its    *)
(* user, whatever the driver still holds.                                  *)
Leases == Cardinality({i \in Streams : Held("client", i)})

(* Type invariant.                                                         *)
TypeOK ==
  /\ conn \in [Sides -> {"active", "closed"}]
  /\ known \in [Sides -> SUBSET Streams]
  /\ \A p \in Sides, i \in Streams :
       /\ ep[p][i].st \in StreamStates
       /\ ep[p][i].handle \in {"none", "held", "dropped", "gone"}
       /\ ep[p][i].flag \in {{}, {"SYN"}, {"ACK"}}
       /\ {ep[p][i].sw, ep[p][i].rw, ep[p][i].buf, ep[p][i].wrote, ep[p][i].got} \subseteq Nat
       /\ Len(chan[p][i]) <= ChanCap
  /\ \A p \in Sides :
       /\ {ctrl[p][j] : j \in DOMAIN ctrl[p]} \subseteq Frames
       /\ {data[p][j] : j \in DOMAIN data[p]} \subseteq Frames
       /\ {wire[p][j] : j \in DOMAIN wire[p]} \subseteq Frames
       /\ Len(reply[p]) <= 1 /\ Len(wire[p]) <= WireCap

Init ==
  /\ conn = [p \in Sides |-> "active"]
  /\ known = [p \in Sides |-> {}]
  /\ ep = [p \in Sides |-> [i \in Streams |-> NoEnd]]
  /\ chan = [p \in Sides |-> [i \in Streams |-> <<>>]]
  /\ ctrl = [p \in Sides |-> <<>>]
  /\ data = [p \in Sides |-> <<>>]
  /\ reply = [p \in Sides |-> <<>>]
  /\ wire = [p \in Sides |-> <<>>]

-----------------------------------------------------------------------------
(* The stream's user.                                                      *)

Push(p, i, cmd) == chan' = [chan EXCEPT ![p][i] = Append(@, cmd)]
(* Mutant: poll_ready is not asked before a send.                          *)
HasRoomAlways(p, i) == TRUE
HasRoom(p, i) == Len(chan[p][i]) < ChanCap

(* FlowController::consume_send_window.                                    *)
ConsumeNothing(sw, n) == sw
ConsumeSendWindow(sw, n) == sw - n

(* AsyncWrite::poll_write: one frame, cut to the window and the split size.*)
PollWrite(p, i, len) ==
  LET e == ep[p][i]
      n == CHOOSE m \in {e.sw, len, Split} : m <= e.sw /\ m <= len /\ m <= Split
  IN  /\ HasRoom(p, i) /\ CanWrite(e.st) /\ e.sw > 0
      /\ ep' = [ep EXCEPT ![p][i] = [e EXCEPT
             !.sw = ConsumeSendWindow(@, n), !.wrote = @ + n, !.flag = {},
             !.acked = @ \/ (e.st = "open" /\ "ACK" \in e.flag)]]
      /\ Push(p, i, Frame("data", i, n, e.flag))

(* A user writing payload.                                                 *)
Write(p, i) ==
  /\ Held(p, i) /\ "SYN" \notin ep[p][i].flag
  /\ \E len \in 1..(MaxBytes[p] - ep[p][i].wrote) : PollWrite(p, i, len)
  /\ UNCHANGED <<conn, known, ctrl, data, reply, wire>>

(* SynAnnounce: the zero-length write that announces a fresh stream; the   *)
(* caller gets the stream only after it.                                   *)
SynAnnounce(i) ==
  /\ Held("client", i) /\ "SYN" \in ep["client"][i].flag
  /\ PollWrite("client", i, 0)
  /\ UNCHANGED <<conn, known, ctrl, data, reply, wire>>

(* FlowController::next_window_update with a fixed max_receive_window: the *)
(* bytes taken out of the window and out of the buffer, when at least half.*)
WindowUpdateTooLate(e) ==
  LET room == (Credit - e.rw) - e.buf
  IN  IF Credit - e.rw >= e.buf /\ room > Credit THEN room ELSE 0
WindowUpdate(e) ==
  LET room == (Credit - e.rw) - e.buf
  IN  IF Credit - e.rw >= e.buf /\ room >= Credit \div 2 THEN room ELSE 0

(* send_window_update: queue the credit that is due if the channel has     *)
(* room, for a stream end e about to be stored.                            *)
GrantUnrecorded(p, i, e) ==
  LET credit == IF CanRead(e.st) /\ HasRoom(p, i) THEN WindowUpdate(e) ELSE 0
  IN  IF credit > 0
      THEN /\ ep' = [ep EXCEPT ![p][i] = [e EXCEPT !.flag = {}]]
           /\ Push(p, i, Frame("wu", i, credit, e.flag))
      ELSE ep' = [ep EXCEPT ![p][i] = e] /\ UNCHANGED chan
GrantCredit(p, i, e) ==
  LET credit == IF CanRead(e.st) /\ HasRoom(p, i) THEN WindowUpdate(e) ELSE 0
  IN  IF credit > 0
      THEN /\ ep' = [ep EXCEPT ![p][i] = [e EXCEPT !.rw = @ + credit, !.flag = {}]]
           /\ Push(p, i, Frame("wu", i, credit, e.flag))
      ELSE ep' = [ep EXCEPT ![p][i] = e] /\ UNCHANGED chan

MayRead(p, i) == Held(p, i) /\ "SYN" \notin ep[p][i].flag /\ ~ep[p][i].eof /\ ~ep[p][i].dry

(* AsyncRead::poll_read, buffered bytes: deliver k of them.                *)
PollRead(p, i) ==
  /\ MayRead(p, i)
  /\ \E k \in 1..ep[p][i].buf :
       GrantCredit(p, i, [ep[p][i] EXCEPT !.buf = @ - k, !.got = @ + k])
  /\ UNCHANGED <<conn, known, ctrl, data, reply, wire>>

(* poll_read on an empty buffer lets go of the lock before it looks at the *)
(* state, to queue the window update: the driver can run in between.  (A   *)
(* poll with no end, no credit and nothing arriving would change nothing.) *)
PollReadDry(p, i) ==
  /\ MayRead(p, i) /\ ep[p][i].buf = 0
  /\ \/ ~CanRead(ep[p][i].st)
     \/ HasRoom(p, i) /\ WindowUpdate(ep[p][i]) > 0
     \/ wire[Peer(p)] # <<>>
  /\ GrantCredit(p, i, [ep[p][i] EXCEPT !.dry = TRUE])
  /\ UNCHANGED <<conn, known, ctrl, data, reply, wire>>

(* ... the second half: end of file when the stream can no longer be read, *)
(* whatever is in the buffer now; otherwise the reader parks or re-polls.  *)
PollReadSettle(p, i) ==
  /\ Held(p, i) /\ ep[p][i].dry
  /\ ep' = [ep EXCEPT ![p][i] = [@ EXCEPT !.dry = FALSE, !.eof = ~CanRead(ep[p][i].st)]]
  /\ UNCHANGED <<conn, known, chan, ctrl, data, reply, wire>>

(* AsyncWrite::poll_shutdown; a user half-closes a direction once.         *)
Shutdown(p, i) ==
  /\ p \in Closers /\ Held(p, i) /\ "SYN" \notin ep[p][i].flag
  /\ CanWrite(ep[p][i].st) /\ HasRoom(p, i)
  /\ Push(p, i, Frame("data", i, 0, {"FIN"} \cup ep[p][i].flag))
  /\ ep' = [ep EXCEPT ![p][i] = [@ EXCEPT
             !.st = UpdateState(ep[p][i].st, "sendClosed"), !.flag = {}, !.finished = TRUE]]
  /\ UNCHANGED <<conn, known, ctrl, data, reply, wire>>

(* The user drops the Stream (and, on the client, its lease).              *)
DropStream(p, i) ==
  /\ p \in Droppers /\ Held(p, i) /\ "SYN" \notin ep[p][i].flag
  /\ ep' = [ep EXCEPT ![p][i] = [@ EXCEPT !.handle = "dropped", !.dry = FALSE]]
  /\ UNCHANGED <<conn, known, chan, ctrl, data, reply, wire>>

-----------------------------------------------------------------------------
(* The connection's driver.                                                *)

(* Active::cleanup and drop_all_streams; the receivers are closed, so      *)
(* commands still in the channels are lost.                                *)
CloseConn(p) ==
  /\ conn' = [conn EXCEPT ![p] = "closed"]
  /\ known' = [known EXCEPT ![p] = {}]
  /\ ep' = [ep EXCEPT ![p] = [i \in Streams |->
              IF i \in known[p] THEN [@[i] EXCEPT !.st = "closed"] ELSE @[i]]]
  /\ chan' = [chan EXCEPT ![p] = [i \in Streams |-> <<>>]]
  /\ ctrl' = [ctrl EXCEPT ![p] = <<>>]
  /\ data' = [data EXCEPT ![p] = <<>>]
  /\ reply' = [reply EXCEPT ![p] = <<>>]

PendingAck(i) == ep["client"][i].st = "open" /\ ~ep["client"][i].acked

(* Active::poll_new_outbound at the cap: the error takes the connection.   *)
OpenAtCap ==
  /\ conn["client"] = "active" /\ Leases < Ceiling
  /\ \E i \in Streams : ep["client"][i].handle = "none"
  /\ Cardinality(known["client"]) >= MaxStreams
  /\ CloseConn("client")
  /\ UNCHANGED wire

(* The pool placed an open here (reserve refuses a tunnel at the ceiling)  *)
(* and the driver serves it: Active::poll_new_outbound.  One announcement  *)
(* is in flight at a time.                                                 *)
OpenStream(i) ==
  /\ conn["client"] = "active" /\ Leases < Ceiling
  /\ ep["client"][i].handle = "none"
  /\ \A j \in Streams : Held("client", j) => "SYN" \notin ep["client"][j].flag
  /\ Cardinality(known["client"]) < MaxStreams
  /\ Cardinality({j \in known["client"] : PendingAck(j)}) < MaxBacklog
  /\ ep' = [ep EXCEPT !["client"][i] = NewEnd({"SYN"})]
  /\ known' = [known EXCEPT !["client"] = @ \cup {i}]
  /\ UNCHANGED <<conn, chan, ctrl, data, reply, wire>>

Queued(p) == ctrl[p] # <<>> \/ data[p] # <<>> \/ reply[p] # <<>>

(* The receivers are scanned when the socket refuses more, or when nothing *)
(* is left to write, and while the payload queue is under its byte bound.  *)
MayScanWhenBlocked(p) ==
  conn[p] = "active" /\ Len(wire[p]) = WireCap /\ SumLen(data[p]) < MaxPending
MayScan(p) ==
  /\ conn[p] = "active"
  /\ Len(wire[p]) = WireCap \/ ~Queued(p)
  /\ SumLen(data[p]) < MaxPending

(* queue_receiver_frames: one command of one ready stream.                 *)
TakeCommand(p, i) ==
  /\ MayScan(p) /\ chan[p][i] # <<>>
  /\ chan' = [chan EXCEPT ![p][i] = Tail(@)]
  /\ IF IsBookkeeping(Head(chan[p][i]))
     THEN ctrl' = [ctrl EXCEPT ![p] = Append(@, Head(chan[p][i]))] /\ UNCHANGED data
     ELSE data' = [data EXCEPT ![p] = Append(@, Head(chan[p][i]))] /\ UNCHANGED ctrl
  /\ UNCHANGED <<conn, known, ep, reply, wire>>

(* What on_drop_stream owes the peer for a stream left in state s.         *)
DropNotice(i, s) ==
  CASE s = "open"       -> <<Frame("data", i, 0, {"RST"})>>
    [] s = "recvClosed" -> <<Frame("data", i, 0, {"FIN"})>>
    [] OTHER            -> <<>>

(* on_drop_stream: the channel of a dropped stream reported its end.       *)
ReapDropped(p, i) ==
  /\ MayScan(p) /\ ep[p][i].handle = "dropped" /\ chan[p][i] = <<>>
  /\ known' = [known EXCEPT ![p] = @ \ {i}]
  /\ ep' = [ep EXCEPT ![p][i] = [@ EXCEPT !.handle = "gone", !.st = "closed"]]
  /\ ctrl' = [ctrl EXCEPT ![p] = @ \o
                (IF i \in known[p] THEN DropNotice(i, ep[p][i].st) ELSE <<>>)]
  /\ UNCHANGED <<conn, chan, data, reply, wire>>

(* next_queued_frame into the socket: reply, then ctrl, then data.         *)
Transmit(p) ==
  /\ conn[p] = "active" /\ Queued(p) /\ Len(wire[p]) < WireCap
  /\ LET q == reply[p] \o ctrl[p] \o data[p]
     IN  wire' = [wire EXCEPT ![p] = Append(@, Head(q))]
  /\ IF reply[p] # <<>> THEN reply' = [reply EXCEPT ![p] = <<>>] /\ UNCHANGED <<ctrl, data>>
     ELSE IF ctrl[p] # <<>> THEN ctrl' = [ctrl EXCEPT ![p] = Tail(@)] /\ UNCHANGED <<data, reply>>
     ELSE data' = [data EXCEPT ![p] = Tail(@)] /\ UNCHANGED <<ctrl, reply>>
  /\ UNCHANGED <<conn, known, ep, chan>>

-----------------------------------------------------------------------------
(* Inbound frames.  Each handler says what it does to the stream end and   *)
(* what it leaves in pending_read_frame.                                   *)

Reply(p, f) == reply' = [reply EXCEPT ![p] = <<f>>]

(* The ACK flag on any frame acknowledges an open stream.                  *)
Acknowledge(e, f) == [e EXCEPT !.acked = @ \/ (e.st = "open" /\ "ACK" \in f.fl)]

HalfClose(e, f) == IF "FIN" \in f.fl THEN [e EXCEPT !.st = UpdateState(@, "recvClosed")] ELSE e

OnReset(p, f) ==
  /\ IsReset(f) /\ f.id \in known[p]
  /\ ep' = [ep EXCEPT ![p][f.id] = [@ EXCEPT !.st = "closed", !.reset = TRUE]]
  /\ UNCHANGED <<known, reply>>

(* on_data with SYN: duplicate ids and oversized first bodies terminate,   *)
(* a full stream map refuses this stream alone.                            *)
OnSynSilentAtCap(p, f) ==
  /\ ~IsReset(f) /\ "SYN" \in f.fl /\ f.id \notin known[p]
  /\ IF Cardinality(known[p]) = MaxStreams THEN UNCHANGED <<ep, known>>
     ELSE /\ ep' = [ep EXCEPT ![p][f.id] = NewEnd({"ACK"})]
          /\ known' = [known EXCEPT ![p] = @ \cup {f.id}]
  /\ UNCHANGED reply
OnSyn(p, f) ==
  /\ ~IsReset(f) /\ "SYN" \in f.fl
  /\ LET full == Cardinality(known[p]) = MaxStreams
     IN  IF f.id \in known[p] \/ (~full /\ f.n > Credit)
         THEN Reply(p, GoAway) /\ UNCHANGED <<ep, known>>
         ELSE IF full
         THEN Reply(p, Frame("data", f.id, 0, {"RST"})) /\ UNCHANGED <<ep, known>>
         ELSE /\ ep' = [ep EXCEPT ![p][f.id] =
                         HalfClose([NewEnd({"ACK"}) EXCEPT !.rw = @ - f.n, !.buf = f.n], f)]
              /\ known' = [known EXCEPT ![p] = @ \cup {f.id}]
              /\ UNCHANGED reply

(* on_data for a known stream.                                             *)
OnData(p, f) ==
  /\ f.k = "data" /\ ~IsReset(f) /\ "SYN" \notin f.fl /\ f.id \in known[p]
  /\ IF f.n > ep[p][f.id].rw
     THEN Reply(p, GoAway) /\ UNCHANGED ep
     ELSE /\ ep' = [ep EXCEPT ![p][f.id] =
                      HalfClose([Acknowledge(ep[p][f.id], f) EXCEPT
                                   !.rw = @ - f.n, !.buf = @ + f.n], f)]
          /\ UNCHANGED reply
  /\ UNCHANGED known

(* on_window_update for a known stream.                                    *)
OnWindowUpdate(p, f) ==
  /\ f.k = "wu" /\ ~IsReset(f) /\ f.id \in known[p]
  /\ ep' = [ep EXCEPT ![p][f.id] =
              HalfClose([Acknowledge(ep[p][f.id], f) EXCEPT !.sw = @ + f.n], f)]
  /\ UNCHANGED <<known, reply>>

(* A frame for a stream this side does not know is dropped, unanswered.    *)
OnUnknown(p, f) ==
  /\ f.k # "goaway" /\ f.id \notin known[p] /\ ("SYN" \notin f.fl \/ IsReset(f))
  /\ UNCHANGED <<ep, known, reply>>

(* poll_next_frame and on_frame; nothing is read while a reply is pending. *)
ReceiveFrame(p) ==
  /\ conn[p] = "active" /\ reply[p] = <<>> /\ wire[Peer(p)] # <<>>
  /\ wire' = [wire EXCEPT ![Peer(p)] = Tail(@)]
  /\ LET f == Head(wire[Peer(p)])
     IN  IF f.k = "goaway" THEN CloseConn(p)
         ELSE
            /\ \/ OnReset(p, f) \/ OnSyn(p, f) \/ OnData(p, f)
               \/ OnWindowUpdate(p, f) \/ OnUnknown(p, f)
            /\ UNCHANGED <<conn, chan, ctrl, data>>

(* The socket's end of file, once what was in flight has been read.        *)
ReceiveEof(p) ==
  /\ conn[p] = "active" /\ conn[Peer(p)] = "closed"
  /\ wire[Peer(p)] = <<>> /\ reply[p] = <<>>
  /\ CloseConn(p) /\ UNCHANGED wire

(* The driver task ends: a socket error, or the tunnel's shutdown drops    *)
(* the Connection.                                                         *)
DriverEnd(p) ==
  /\ p \in Faults /\ conn[p] = "active"
  /\ CloseConn(p) /\ UNCHANGED wire

Driver(p) ==
  \/ Transmit(p) \/ ReceiveFrame(p) \/ ReceiveEof(p)
  \/ \E i \in Streams : TakeCommand(p, i) \/ ReapDropped(p, i)

User(p) ==
  \E i \in Streams :
    \/ Write(p, i) \/ PollRead(p, i) \/ PollReadDry(p, i) \/ PollReadSettle(p, i)
    \/ Shutdown(p, i) \/ DropStream(p, i)

Next ==
  \/ \E i \in Streams : OpenStream(i) \/ SynAnnounce(i)
  \/ OpenAtCap
  \/ \E p \in Sides : Driver(p) \/ User(p) \/ DriverEnd(p)

Spec == Init /\ [][Next]_vars

(* The drivers are tasks woken for every frame, command and free slot of   *)
(* the socket, and come back to the scan of the receivers again and again; *)
(* the users copy from the stream to a socket and back.  Half-closing,     *)
(* dropping, opening more streams and failing are never promised.          *)
MuxTasks ==
  {"transmit", "receive", "eof"} \X Sides
    \cup {"write", "read", "dry", "settle"} \X Sides \X Streams
    \cup {<<"announce", "client", i>> : i \in Streams}
MuxTask(k) ==
  \/ k[1] = "transmit" /\ Transmit(k[2])
  \/ k[1] = "receive" /\ ReceiveFrame(k[2])
  \/ k[1] = "eof" /\ ReceiveEof(k[2])
  \/ k[1] = "write" /\ Write(k[2], k[3])
  \/ k[1] = "read" /\ PollRead(k[2], k[3])
  \/ k[1] = "dry" /\ PollReadDry(k[2], k[3])
  \/ k[1] = "settle" /\ PollReadSettle(k[2], k[3])
  \/ k[1] = "announce" /\ SynAnnounce(k[3])
Scans(p) == \E i \in Streams : TakeCommand(p, i) \/ ReapDropped(p, i)
LiveSpec ==
  Spec /\ (\A k \in MuxTasks : WF_vars(MuxTask(k))) /\ \A p \in Sides : SF_vars(Scans(p))

-----------------------------------------------------------------------------
(* Properties.                                                             *)

Part(f, k, i) == IF f.k = k /\ f.id = i THEN f.n ELSE 0
Sum(s, k, i) == Total([j \in DOMAIN s |-> Part(s[j], k, i)])

(* Payload of stream i, and credit for it, on its way out of side p.       *)
InFlight(p, k, i) ==
  Sum(chan[p][i], k, i) + Sum(ctrl[p], k, i) + Sum(data[p], k, i) + Sum(wire[p], k, i)

(* While both ends of a stream are in their maps, what the receiver will   *)
(* still accept is exactly what the sender may still send plus what is on  *)
(* its way: the send_window / receive_window pair of flow_control.rs never *)
(* loses or invents a byte of credit, whatever overtakes what.             *)
CreditConserved ==
  \A p \in Sides, i \in Streams :
    i \in known[p] /\ i \in known[Peer(p)] =>
      ep[Peer(p)][i].rw =
        ep[p][i].sw + InFlight(p, "data", i) + InFlight(Peer(p), "wu", i)

(* Two conforming ends never trip each other's protocol checks (a body     *)
(* over the window, a duplicate SYN): neither side ever sends a goaway.    *)
NoProtocolError ==
  \A p \in Sides : GoAway \notin {wire[p][j] : j \in DOMAIN wire[p]} /\ reply[p] # <<GoAway>>

(* Every announced stream is settled: the server comes to hold it, or the  *)
(* client learns that it was refused (on_data at the cap answers RST).     *)
AnnouncementSettles ==
  []<>(\A i \in Streams :
         Held("client", i) => ep["server"][i].handle # "none" \/ ep["client"][i].st = "closed")

(* Every byte a user means to write is read by the peer's user although    *)
(* windows, channels and the socket all block (the credit path cannot      *)
(* deadlock), unless the client drops the stream or the server refuses it. *)
EverythingDelivered ==
  []<>(\A p \in Sides, i \in Streams :
         Held("client", i) => ep[Peer(p)][i].got = MaxBytes[p] \/ ep["client"][i].reset)

(* A dropped Stream always leaves the stream map, even when the payload    *)
(* queue is at its bound when it is dropped.                               *)
DroppedLeavesMap ==
  []<>(\A p \in Sides, i \in Streams :
         ep[p][i].handle \in {"dropped", "gone"} => i \notin known[p])

(* A reader that is told end-of-file has every byte its peer wrote before  *)
(* its FIN (connection.rs: the priority queue "never reorders bytes").     *)
EofIsComplete ==
  \A p \in Sides, i \in Streams :
    /\ ep[p][i].eof /\ ep[p][i].buf = 0 /\ ~ep[p][i].reset /\ conn[p] = "active"
    /\ ep[Peer(p)][i].finished
    => ep[p][i].got = ep[Peer(p)][i].wrote

-----------------------------------------------------------------------------
(* The connection implements MuxFlowControl.  A flow is cut once an end of *)
(* its stream is gone, a connection closed, or the server refused the SYN. *)

SynTravels(i) ==
  \/ "SYN" \in ep["client"][i].flag
  \/ \E q \in {chan["client"][i], data["client"], wire["client"]} :
       \E j \in DOMAIN q : q[j].id = i /\ "SYN" \in q[j].fl

EndGone(p, i) == ep[p][i].handle = "gone" \/ (ep[p][i].handle # "none" /\ conn[p] = "closed")

FlowLife(i) ==
  IF ep["client"][i].handle = "none" THEN "none"
  ELSE IF \/ \E p \in Sides : EndGone(p, i)
          \/ ep["server"][i].handle = "none" /\ ~SynTravels(i)
       THEN "cut" ELSE "live"

(* An end the peer does not know of yet has its initial windows.           *)
End(p, i) == IF ep[p][i].handle = "none" THEN NewEnd({}) ELSE ep[p][i]

UnlessCut(i, n) == IF FlowLife(i) = "cut" THEN 0 ELSE n

(* The variables of MuxFlowControl, per flow <<receiving side, stream>>.   *)
flows == Sides \X Streams
flowLife == [f \in flows |-> FlowLife(f[2])]
flowSw == [f \in flows |-> UnlessCut(f[2], End(Peer(f[1]), f[2]).sw)]
flowRw == [f \in flows |-> UnlessCut(f[2], End(f[1], f[2]).rw)]
flowBuf == [f \in flows |-> UnlessCut(f[2], End(f[1], f[2]).buf)]
flowFlight == [f \in flows |-> UnlessCut(f[2], InFlight(Peer(f[1]), "data", f[2]))]
flowBack == [f \in flows |-> UnlessCut(f[2], InFlight(f[1], "wu", f[2]))]

Flow == INSTANCE MuxFlowControl WITH
  Receivers <- Sides, StreamIds <- Streams, Credit <- Credit,
  MaxStreams <- Cardinality(Streams), ConnLimit <- Cardinality(Streams) * Credit,
  MaxWindow <- Credit,
  life <- flowLife, sw <- flowSw, rw <- flowRw, maxw <- [f \in flows |-> Credit],
  buf <- flowBuf, flight <- flowFlight, back <- flowBack, acc <- [r \in Sides |-> 0]

(* Every step of the queues, the socket and the handlers is a step of the  *)
(* abstract window exchange or changes nothing it can see: Flow!FSpec, with*)
(* the steps of other components, which cannot be seen either, put first   *)
(* to spare TLC the search for an abstract step.                           *)
ImplementsFlowControl == Flow!FInit /\ [][UNCHANGED vars \/ Flow!FStep]_vars

(* The safety of a connection whose streams are opened, half-closed,       *)
(* dropped and cut in any order: the types, and no credit lost or invented.*)
MuxSafe == TypeOK /\ CreditConserved

(* Under fairness every byte arrives, every announcement is accepted or    *)
(* refused, and every dropped stream leaves the maps, with all queues full.*)
StreamsSettle == EverythingDelivered /\ AnnouncementSettles /\ DroppedLeavesMap
=============================================================================
