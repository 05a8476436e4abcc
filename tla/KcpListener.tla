----------------------------- MODULE KcpListener -----------------------------
(***************************************************************************)
(* The server's KCP listener (transport/kcp.rs, core/server.rs): one UDP   *)
(* socket whose dispatcher routes datagrams to sessions by (peer, conv)    *)
(* and adopts unknown conversations.  The dispatcher, every session's pump *)
(* and every session's handler are tasks; they meet in the sessions' own   *)
(* queues, the accept queue, and the channel on which a pump announces     *)
(* that it is gone.  KcpSession models what a pump does with a datagram.   *)
(*                                                                         *)
(* A key is a client: conversation ids and source ports are random.  A     *)
(* client that has been closed never comes back under its key.             *)
(***************************************************************************)
EXTENDS Integers, Sequences, FiniteSets

CONSTANTS
    Keys,        \* the (peer, conv) pairs
    Slots,       \* bound: sessions that exist at a time, in the map or not
    SessionCap,  \* MAX_LISTENER_SESSIONS
    QueueCap,    \* DATAGRAM_CHANNEL_DEPTH
    AcceptCap,   \* depth of the accept queue
    GoneCap,     \* depth of the gone channel
    SocketCap,   \* bound: datagrams in the socket's buffer, also the batch
    MaxSent      \* bound: datagrams the clients send

ASSUME ListenerConstants ==
    /\ {SessionCap, QueueCap, AcceptCap, GoneCap, SocketCap, MaxSent} \subseteq Nat \ {0}
    /\ Keys # {} /\ IsFiniteSet(Keys) /\ IsFiniteSet(Slots)

NoSlot == 0
ASSUME SlotsAreNumbers == Slots \subseteq Nat \ {NoSlot}

VARIABLES
    client,  \* key -> "new", "open", "off"
    socket,  \* datagrams the kernel holds: [key, ctrl]
    batch,   \* what the dispatcher received and has not routed
    at,      \* the session the dispatcher waits on, NoSlot when on none
    doing,   \* "recv", "send" (waits on at's queue), "accept", "stopped"
    map,     \* key -> session slot, NoSlot when absent
    ses,     \* slot -> [key, first, pump, queued, stream]
    accepts, \* the accept queue
    gone,    \* the gone channel
    up,      \* run_kcp_listener runs
    sent,
    seen     \* history: keys that have had a session

listenerVars == <<client, socket, batch, at, doing, map, ses, accepts, gone, up, sent, seen>>

Unused == [key |-> CHOOSE k \in Keys : TRUE, first |-> FALSE, pump |-> "exited", queued |-> 0, stream |-> "dropped"]
IsFree(s) == ses[s] = Unused /\ at # s /\ \A k \in Keys : map[k] # s
Known == {k \in Keys : map[k] # NoSlot}
Tidy(f) == [s \in Slots |-> IF f[s].pump = "exited" /\ f[s].stream = "dropped" THEN Unused ELSE f[s]]
Set(s, field, v) == Tidy([ses EXCEPT ![s][field] = v])

ListenerInit ==
    /\ client = [k \in Keys |-> "new"] /\ socket = <<>> /\ batch = <<>>
    /\ at = NoSlot /\ doing = "recv" /\ map = [k \in Keys |-> NoSlot]
    /\ ses = [s \in Slots |-> Unused] /\ accepts = <<>> /\ gone = <<>>
    /\ up = TRUE /\ sent = 0 /\ seen = {}

-----------------------------------------------------------------------------
(* The clients: connect, retransmissions and keepalives until they close. *)

ClientSends(k, ctrl) ==
    /\ client[k] # "off" /\ (ctrl => client[k] = "open")
    /\ Len(socket) < SocketCap /\ sent < MaxSent /\ sent' = sent + 1
    /\ client' = [client EXCEPT ![k] = "open"]
    /\ socket' = Append(socket, [key |-> k, ctrl |-> ctrl])
    /\ UNCHANGED <<batch, at, doing, map, ses, accepts, gone, up, seen>>

ClientCloses(k) ==
    /\ client[k] = "open"
    /\ client' = [client EXCEPT ![k] = "off"]
    /\ UNCHANGED <<socket, batch, at, doing, map, ses, accepts, gone, up, sent, seen>>

-----------------------------------------------------------------------------
(* The dispatcher: dispatch_recv and route_datagram. *)

Receive ==
    /\ doing = "recv" /\ batch = <<>> /\ socket # <<>>
    /\ batch' = socket /\ socket' = <<>>
    /\ UNCHANGED <<client, at, doing, map, ses, accepts, gone, up, sent, seen>>

Routing == doing = "recv" /\ batch # <<>>
Key == Head(batch).key

\* Mutant: the cap is compared with >.
AtCapOff == Cardinality(Known) > SessionCap

\* A control frame never opens a session; past the cap nothing does.
AtCap == Cardinality(Known) >= SessionCap
RouteNowhere ==
    /\ Routing /\ map[Key] = NoSlot /\ (Head(batch).ctrl \/ AtCap)
    /\ batch' = Tail(batch)
    /\ UNCHANGED <<client, socket, at, doing, map, ses, accepts, gone, up, sent, seen>>

\* Mutant: a queue takes one datagram too many.
FullOff(s) == ses[s].queued > QueueCap

\* tx.send: taken, refused because the pump has exited, or waited for.
Full(s) == ses[s].queued >= QueueCap
Forgotten(s) == [k \in Keys |-> IF map[k] = s THEN NoSlot ELSE map[k]]
\* Mutant: a session that cannot keep up loses its route.
HandOffOrForget(s) ==
    IF ses[s].pump = "exited" \/ Full(s)
    THEN map' = Forgotten(s) /\ at' = NoSlot /\ doing' = "recv" /\ UNCHANGED ses
    ELSE ses' = Set(s, "queued", ses[s].queued + 1) /\ at' = NoSlot /\ doing' = "recv" /\ UNCHANGED map
HandOff(s) ==
    CASE ses[s].pump = "exited" -> map' = Forgotten(s) /\ at' = NoSlot /\ doing' = "recv" /\ UNCHANGED ses
      [] ses[s].pump # "exited" /\ ~Full(s) -> ses' = Set(s, "queued", ses[s].queued + 1) /\ at' = NoSlot /\ doing' = "recv" /\ UNCHANGED map
      [] OTHER -> at' = s /\ doing' = "send" /\ UNCHANGED <<map, ses>>
RouteKnown ==
    /\ Routing /\ map[Key] # NoSlot
    /\ HandOff(map[Key])
    /\ batch' = Tail(batch)
    /\ UNCHANGED <<client, socket, accepts, gone, up, sent, seen>>
SendResumes ==
    /\ doing = "send" /\ (ses[at].pump = "exited" \/ ~Full(at))
    /\ HandOff(at)
    /\ UNCHANGED <<client, socket, batch, accepts, gone, up, sent, seen>>

\* A fresh session with its first datagram, in the map before it is accepted.
Adopt(s) ==
    /\ Routing /\ map[Key] = NoSlot /\ ~Head(batch).ctrl /\ ~AtCap
    /\ IsFree(s) /\ \A t \in Slots : IsFree(t) => s <= t
    /\ ses' = [ses EXCEPT ![s] = [key |-> Key, first |-> Key \notin seen,
                                  pump |-> "live", queued |-> 1, stream |-> "handed"]]
    /\ map' = [map EXCEPT ![Key] = s] /\ seen' = seen \cup {Key}
    /\ at' = s /\ doing' = "accept" /\ batch' = Tail(batch)
    /\ UNCHANGED <<client, socket, accepts, gone, up, sent>>
AcceptSends ==
    /\ doing = "accept" /\ up /\ Len(accepts) < AcceptCap
    /\ accepts' = Append(accepts, at) /\ ses' = Set(at, "stream", "queued")
    /\ at' = NoSlot /\ doing' = "recv"
    /\ UNCHANGED <<client, socket, batch, map, gone, up, sent, seen>>

\* The select drops the receive with whatever it was doing: the rest of the
\* batch, the datagram or the accepted session in its hand.
Abandoned == IF doing = "accept" THEN Set(at, "stream", "dropped") ELSE ses
Waiting == doing \in {"send", "accept"} \/ (doing = "recv" /\ batch = <<>>)
\* Mutant: the gone channel is looked at between receives only.
WaitingIdle == doing = "recv" /\ batch = <<>>
GonePolled == Waiting
TakeGone ==
    /\ GonePolled /\ gone # <<>>
    /\ map' = [map EXCEPT ![Head(gone)] = NoSlot] /\ gone' = Tail(gone)
    /\ ses' = Abandoned /\ batch' = <<>> /\ at' = NoSlot /\ doing' = "recv"
    /\ UNCHANGED <<client, socket, accepts, up, sent, seen>>

\* Mutant: the dispatcher leaves the senders in place.
MapKept == map
MapCleared == [k \in Keys |-> NoSlot]
DispatchStops ==
    /\ ~up /\ Waiting
    /\ map' = MapCleared /\ ses' = Abandoned /\ batch' = <<>> /\ gone' = <<>> /\ at' = NoSlot
    /\ doing' = "stopped"
    /\ UNCHANGED <<client, socket, accepts, up, sent, seen>>

-----------------------------------------------------------------------------
(* The pumps, the handlers, and the listener's own task. *)

PumpTakes(s) ==
    /\ ses[s].pump = "live" /\ ses[s].queued > 0
    /\ ses' = Set(s, "queued", ses[s].queued - 1)
    /\ UNCHANGED <<client, socket, batch, at, doing, map, accepts, gone, up, sent, seen>>

\* Its stream is dropped, or the dispatcher let go of its queue.  The queue
\* lives until the end is announced.
PumpEnds(s) ==
    /\ ses[s].pump = "live"
    /\ \/ ses[s].stream = "dropped"
       \/ map[ses[s].key] # s /\ ses[s].queued = 0 /\ at # s
    /\ ses' = Set(s, "pump", "ended")
    /\ UNCHANGED <<client, socket, batch, at, doing, map, accepts, gone, up, sent, seen>>

\* A close frame of a client that is gone arrived, or a segment of the server's
\* own was retransmitted to the limit.  Frames are lost and an idle session
\* sends nothing, so this may never happen.
PumpHears(s) ==
    /\ ses[s].pump = "live" /\ client[ses[s].key] = "off"
    /\ ses' = Set(s, "pump", "ended")
    /\ UNCHANGED <<client, socket, batch, at, doing, map, accepts, gone, up, sent, seen>>

\* Mutant: the announcement is dropped when the channel is full.
AnnounceTries(s) == /\ gone' = IF Len(gone) < GoneCap THEN Append(gone, ses[s].key) ELSE gone
Announce(s) == IF doing = "stopped" THEN UNCHANGED gone
               ELSE Len(gone) < GoneCap /\ gone' = Append(gone, ses[s].key)
PumpExits(s) ==
    /\ ses[s].pump = "ended" /\ Announce(s)
    /\ ses' = Tidy([ses EXCEPT ![s].pump = "exited", ![s].queued = 0])
    /\ UNCHANGED <<client, socket, batch, at, doing, map, accepts, up, sent, seen>>

\* run_kcp_listener hands the session to a task of its own.
TakeAccepted ==
    /\ up /\ accepts # <<>>
    /\ ses' = Set(Head(accepts), "stream", "held") /\ accepts' = Tail(accepts)
    /\ UNCHANGED <<client, socket, batch, at, doing, map, gone, up, sent, seen>>

\* handle_kcp_session: a deadline on the opening, or the end of what it serves.
HandlerEnds(s) ==
    /\ ses[s].stream = "held"
    /\ ses' = Set(s, "stream", "dropped")
    /\ UNCHANGED <<client, socket, batch, at, doing, map, accepts, gone, up, sent, seen>>

ListenerStops ==
    /\ up
    /\ up' = FALSE /\ accepts' = <<>>
    /\ ses' = Tidy([s \in Slots |-> IF ses[s].stream = "queued" THEN [ses[s] EXCEPT !.stream = "dropped"] ELSE ses[s]])
    /\ UNCHANGED <<client, socket, batch, at, doing, map, gone, sent, seen>>

\* ensure_kcp_listener of the next server: the port is free once the
\* dispatcher and every pump let go of the socket.
PortFree == doing = "stopped" /\ \A s \in Slots : ses[s].pump = "exited"

-----------------------------------------------------------------------------
DispatchStep == Receive \/ RouteNowhere \/ RouteKnown \/ SendResumes \/ AcceptSends \/ DispatchStops
                \/ \E s \in Slots : Adopt(s)
PumpStep(s) == PumpTakes(s) \/ PumpEnds(s) \/ PumpExits(s)
ListenerNext ==
    \/ DispatchStep \/ TakeGone \/ TakeAccepted \/ ListenerStops
    \/ \E s \in Slots : PumpStep(s) \/ PumpHears(s) \/ HandlerEnds(s)
    \/ \E k \in Keys : ClientCloses(k) \/ \E ctrl \in BOOLEAN : ClientSends(k, ctrl)

\* The tasks as a whole do not stop while one of them can run; the clients
\* send finitely often, so this is all the fairness there is to assume.  A
\* handler is obliged to end only where its session has: its reads then return
\* an end of stream.  Nothing obliges the network to carry a close frame.
ListenerTask ==
    \/ DispatchStep \/ TakeGone \/ TakeAccepted
    \/ \E s \in Slots : PumpStep(s) \/ (HandlerEnds(s) /\ ses[s].pump = "exited")
ListenerSpec == ListenerInit /\ [][ListenerNext]_listenerVars /\ WF_listenerVars(ListenerTask)

-----------------------------------------------------------------------------
\* Type invariant: the map names slots, and no queue outgrows its capacity.
ListenerTypeOK ==
    /\ client \in [Keys -> {"new", "open", "off"}] /\ doing \in {"recv", "send", "accept", "stopped"}
    /\ map \in [Keys -> Slots \cup {NoSlot}] /\ at \in Slots \cup {NoSlot}
    /\ Len(accepts) <= AcceptCap /\ Len(gone) <= GoneCap
    /\ \A s \in Slots : ses[s].queued \in 0..QueueCap

\* The first session of a client keeps its route for as long as it lives: no
\* announcement of another session, no full queue and no abandoned receive
\* takes it out of the map (kcp.rs 2960-3010, 3093-3102).
FirstKeepsRoute ==
    \A s \in Slots :
        ses[s].first /\ ses[s].pump = "live" /\ doing # "stopped" => map[ses[s].key] = s

\* The cap holds for the sessions that exist, not only for the entries of the
\* map (kcp.rs 2984): of the clients' first sessions, the ones that carry
\* traffic, no more than the cap live at a time.  A later session of the same
\* key, opened by a datagram that came after the end, is not counted.
SessionsBounded ==
    Cardinality({s \in Slots : ses[s].pump = "live" /\ ses[s].first}) <= SessionCap

\* The dispatcher never waits for ever, although the queue it waits on may be
\* that of a pump that waits for the dispatcher (kcp.rs 2975, 2194).
DispatcherGoesOn == []<>(doing \notin {"send", "accept"})

\* A session that is over leaves the map for good, late datagrams, phantom
\* sessions and a full announcement channel notwithstanding (kcp.rs 970, 3096):
\* what stays counted against the cap has a pump that runs and a handler that
\* holds its stream.  A client that is gone is another matter: its idle session
\* stays where its close frames were lost.
EndedSessionsLeave ==
    <>[](\A k \in Known : ses[map[k]].pump = "live" /\ ses[map[k]].stream # "dropped")

\* A listener that was stopped gives its port back, whatever its sessions were
\* doing (server.rs 691-697, kcp.rs 3105).
StoppedFreesPort == []<>(up \/ PortFree)

\* The safety of the listener: types and queue bounds, routes that stay, and the
\* cap on sessions.
ListenerSafe == ListenerTypeOK /\ FirstKeepsRoute /\ SessionsBounded

\* No task of the listener waits for ever: the dispatcher goes on, sessions that
\* are over leave the map, and a stopped listener frees its port.
ListenerSettles == DispatcherGoesOn /\ EndedSessionsLeave /\ StoppedFreesPort
=============================================================================
