----------------------------- MODULE UdpForward -----------------------------
(***************************************************************************)
(* The forwarding of one UDP service: on the server the socket's reader,   *)
(* the affinity table and the set of workers, one per data channel, that   *)
(* grows under pressure and retires its idle members (core/server.rs); on  *)
(* the client the hub that gives every visitor one local socket, whatever  *)
(* channel its datagrams come in by (core/client.rs).                      *)
(*                                                                         *)
(* A worker and its data channel have one number, given in the order of    *)
(* the channels; the code numbers its workers from a counter it also uses  *)
(* to walk the map, whose order is the hash map's: any live worker.  A     *)
(* datagram is the visitor it belongs to.  Ages are choices: a worker may  *)
(* be older than 30 s or not, a route quiet for 300 s or not.              *)
(***************************************************************************)
EXTENDS Integers, FiniteSets, Sequences

CONSTANTS
    Peers,       \* the visitors' addresses
    MaxWorkers,  \* max_udp_workers of the registration
    Crowded,     \* peers on one worker that make the pool ask for another (2 in the code)
    QueueSize,   \* UDP_QUEUE_SIZE, of every queue
    MaxAsked,    \* bound: requests waiting that are told apart
    MaxChannels, \* bound: data channels the client opens
    MaxForwarders, \* bound: forwarders that run at once
    MaxFaults    \* bound: data channels that break

ASSUME UdpConstants ==
    /\ Peers # {} /\ IsFiniteSet(Peers)
    /\ {MaxWorkers, QueueSize, MaxAsked, MaxChannels, MaxForwarders} \subseteq Nat \ {0}
    /\ {Crowded, MaxFaults} \subseteq Nat

VARIABLES
    workers,   \* UdpWorkerMap: the ids datagrams are routed to
    spawned,   \* UdpWorkerSet.spawned: never told of a worker's end
    retiring,  \* UdpWorkerSet.retiring
    task,      \* worker id -> its task: "none", "run", "ended"
    queue,     \* worker id -> datagrams in its queue and on its channel
    routes,    \* the affinity table: visitor -> worker id, 0 for none
    grown,     \* the pool asked for a worker less than a second ago
    shut,      \* shutting_down, and the pool's loop is over
    asked,     \* requests for a data channel the client has not acted on
    made,      \* data channels opened so far
    faults,    \* data channels broken so far
    chan,      \* channel -> "none", "offered" (to data_ch_rx), "up", "down"
    reader,    \* channel -> its read loop on the client: "none", "read", "ended", or the visitor it connects for
    writer,    \* channel -> its writer on the client: "none", "open", "closed"
    outq,      \* channel -> replies queued for the writer
    registered,\* UdpHub.channels
    hub,       \* UdpHub.routes: visitor -> [fwd, out], or NoRoute
    fwd        \* forwarder -> [at, peer, pick]

srv == <<workers, spawned, retiring, task, queue, routes, grown, shut>>
net == <<asked, made, faults, chan>>
cli == <<reader, writer, outq, registered, hub, fwd>>
udpVars == <<srv, net, cli>>

Channels == 1..MaxChannels
Forwarders == 1..MaxForwarders
NoRoute == [fwd |-> 0, out |-> 0]
NoForwarder == [at |-> "none", peer |-> CHOOSE p \in Peers : TRUE, pick |-> 0]

UdpInit ==
    /\ workers = {} /\ spawned = {} /\ retiring = {}
    /\ task = [c \in Channels |-> "none"]
    /\ queue = [c \in Channels |-> <<>>]
    /\ routes = [p \in Peers |-> 0]
    /\ grown = TRUE /\ shut = FALSE
    /\ asked = 1 /\ made = 0 /\ faults = 0
    /\ chan = [c \in Channels |-> "none"]
    /\ reader = [c \in Channels |-> "none"]
    /\ writer = [c \in Channels |-> "none"]
    /\ outq = [c \in Channels |-> 0]
    /\ registered = {}
    /\ hub = [p \in Peers |-> NoRoute]
    /\ fwd = [f \in Forwarders |-> NoForwarder]

-----------------------------------------------------------------------------
(* Requests for channels.  A request is a command the session's task       *)
(* writes; more than MaxAsked waiting ones are not told apart.          *)

Asks(n) == IF asked + n > MaxAsked THEN MaxAsked ELSE asked + n

(* The client's answer to CreateDataChannelFor: it opens one more channel, *)
(* with no look at the service's ceiling.                                  *)
OpenChannel ==
    /\ asked > 0 /\ made < MaxChannels
    /\ asked' = asked - 1
    /\ made' = made + 1
    /\ chan' = [chan EXCEPT ![made + 1] = "offered"]
    /\ UNCHANGED <<srv, cli, faults>>

(* ... or the open fails, which nobody is told of. *)
OpenFails ==
    /\ asked > 0
    /\ asked' = asked - 1
    /\ UNCHANGED <<srv, cli, made, faults, chan>>

(* The tunnel under a channel breaks. *)
ChannelBreaks(c) ==
    /\ faults < MaxFaults /\ chan[c] \in {"offered", "up"}
    /\ faults' = faults + 1
    /\ chan' = [chan EXCEPT ![c] = "down"]
    /\ UNCHANGED <<srv, cli, asked, made>>

-----------------------------------------------------------------------------
(* The server's pool. *)

(* A channel comes out of data_ch_rx: it is told StartForwardUdp and gets a *)
(* worker; when the write fails the pool goes on, one channel short.        *)
SpawnWorker(c) ==
    /\ workers' = workers \cup {c}
    /\ spawned' = spawned \cup {c}
    /\ task' = [task EXCEPT ![c] = "run"]

TakeChannel(c) ==
    /\ ~shut /\ chan[c] = "offered"
    /\ SpawnWorker(c)
    /\ chan' = [chan EXCEPT ![c] = "up"]
    /\ UNCHANGED <<retiring, queue, routes, grown, shut, asked, made, faults, cli>>

TakeBroken(c) ==
    /\ ~shut /\ chan[c] = "down" /\ task[c] = "none"
    /\ task' = [task EXCEPT ![c] = "ended"]
    /\ UNCHANGED <<workers, spawned, retiring, queue, routes, grown, shut, net, cli>>

(* Where a datagram of p goes: to the worker its route pins, while that one *)
(* lives; else to any live worker; 0 for none.                              *)
Targets(p) ==
    IF routes[p] \in workers THEN {routes[p]}
    ELSE IF workers = {} THEN {0} ELSE workers

(* Mutant: a queue takes one datagram too many.                            *)
EnqueuesOneMore(w) == w # 0 /\ Len(queue[w]) <= QueueSize

Enqueues(w) == w # 0 /\ Len(queue[w]) < QueueSize

(* Mutant: only a full queue presses, an empty pool does not.              *)
PressesWhenFull(w) == w # 0 /\ ~Enqueues(w) /\ ~grown

(* note_udp_pressure: whatever was not queued asks for a worker, at most *)
(* once a second.                                                        *)
Presses(w) == ~Enqueues(w) /\ ~grown

(* recv_from, route_udp_datagram and note_udp_pressure. *)
Receive(p) ==
    /\ ~shut
    /\ \E w \in Targets(p) :
        /\ routes' = IF w = 0 THEN routes ELSE [routes EXCEPT ![p] = w]
        /\ queue' = IF Enqueues(w) THEN [queue EXCEPT ![w] = Append(@, p)] ELSE queue
        /\ grown' = (grown \/ Presses(w))
        /\ asked' = IF Presses(w) THEN Asks(1) ELSE asked
    /\ UNCHANGED <<workers, spawned, retiring, task, shut, made, faults, chan, cli>>

SecondPasses ==
    /\ grown /\ ~shut
    /\ grown' = FALSE
    /\ UNCHANGED <<workers, spawned, retiring, task, queue, routes, shut, net, cli>>

Pinned == {routes[p] : p \in Peers}
Carried(w) == Cardinality({p \in Peers : routes[p] = w})

(* retire_idle_udp_worker: asks for a worker when one carries a crowd and  *)
(* the set is under its ceiling, then takes the newest one of the unpinned *)
(* that are old enough out of the map.  The list it takes it from still    *)
(* names workers that have ended.                                          *)
Crowds ==
    /\ \E w \in Pinned \ {0} : Carried(w) > Crowded
    /\ Cardinality(workers) < MaxWorkers

(* Mutant: the list of the spawned is counted, not the map of the live.    *)
IdleOfSpawned == IF Cardinality(spawned) <= 1 THEN {} ELSE spawned \ Pinned

(* Mutant: a worker with visitors may be retired.                          *)
IdleOrPinned == IF Cardinality(workers) <= 1 THEN {} ELSE spawned

Idle == IF Cardinality(workers) <= 1 THEN {} ELSE spawned \ Pinned

RetireTick ==
    /\ ~shut /\ (Crowds \/ Idle # {})
    /\ asked' = IF Crowds THEN Asks(1) ELSE asked
    /\ \E gone \in {{}} \cup {{w} : w \in Idle} :
        /\ workers' = workers \ gone
        /\ spawned' = spawned \ gone
        /\ retiring' = retiring \cup gone
    /\ UNCHANGED <<task, queue, routes, grown, shut, made, faults, chan, cli>>

(* The sweep forgets the visitors not heard of for UDP_ROUTE_TTL_SECS. *)
Sweep ==
    /\ ~shut
    /\ \E quiet \in SUBSET {p \in Peers : routes[p] # 0} :
        /\ quiet # {}
        /\ routes' = [p \in Peers |-> IF p \in quiet THEN 0 ELSE routes[p]]
    /\ UNCHANGED <<workers, spawned, retiring, task, queue, grown, shut, net, cli>>

(* The pool's loop ends: shutdown, the control task's end, a socket error. *)
PoolEnds ==
    /\ ~shut
    /\ shut' = TRUE
    /\ UNCHANGED <<workers, spawned, retiring, task, queue, routes, grown, net, cli>>

(* A worker's task ends: its channel failed, or its queue is closed and     *)
(* empty, or the pool is shut.  The guard takes the id out of the map, and  *)
(* asks for a replacement if it was still there.                            *)
MayEnd(c) ==
    \/ chan[c] = "down"
    \/ c \notin workers /\ queue[c] = <<>>
    \/ shut

(* Mutant: the guard does not ask whether its worker was retired.          *)
ReplacedAlways(c) == ~shut

Replaced(c) == c \in workers /\ ~shut /\ c \notin retiring

WorkerEnds(c) ==
    /\ task[c] = "run" /\ MayEnd(c)
    /\ task' = [task EXCEPT ![c] = "ended"]
    /\ workers' = workers \ {c}
    /\ retiring' = IF c \in workers THEN retiring \ {c} ELSE retiring
    /\ asked' = IF Replaced(c) THEN Asks(1) ELSE asked
    /\ queue' = [queue EXCEPT ![c] = <<>>]
    /\ chan' = [chan EXCEPT ![c] = "down"]
    /\ UNCHANGED <<spawned, routes, grown, shut, made, faults, cli>>

-----------------------------------------------------------------------------
(* The client's channels. *)

(* The client reads StartForwardUdp: the channel is registered with the    *)
(* hub, its writer spawned and its read loop begins.                       *)
ChannelStarts(c) ==
    /\ task[c] # "none" /\ chan[c] = "up" /\ reader[c] = "none"
    /\ reader' = [reader EXCEPT ![c] = "read"]
    /\ writer' = [writer EXCEPT ![c] = "open"]
    /\ registered' = registered \cup {c}
    /\ UNCHANGED <<srv, net, outq, hub, fwd>>

(* The read loop fails with the channel and unregisters it; the writer     *)
(* stays as long as a route holds its queue.                               *)
ReaderEnds(c) ==
    /\ reader[c] = "read" /\ chan[c] = "down"
    /\ reader' = [reader EXCEPT ![c] = "ended"]
    /\ registered' = registered \ {c}
    /\ UNCHANGED <<srv, net, writer, outq, hub, fwd>>

(* The senders of a channel's queue that live. *)
Held(c) == reader[c] # "ended" \/ \E p \in Peers : hub[p].out = c \/ \E f \in Forwarders : fwd[f].pick = c

WriterEnds(c) ==
    /\ writer[c] = "open" /\ ~Held(c) /\ outq[c] = 0
    /\ writer' = [writer EXCEPT ![c] = "closed"]
    /\ UNCHANGED <<srv, net, reader, outq, registered, hub, fwd>>

(* The writer takes a reply: it goes out, and the server's worker sends it *)
(* from the service's socket; on a broken channel the writer is over.      *)
WriterWrites(c) ==
    /\ writer[c] = "open" /\ outq[c] > 0
    /\ IF chan[c] = "up"
       THEN outq' = [outq EXCEPT ![c] = @ - 1] /\ UNCHANGED writer
       ELSE /\ outq' = [outq EXCEPT ![c] = 0]
            /\ writer' = [writer EXCEPT ![c] = "closed"]
    /\ UNCHANGED <<srv, net, reader, registered, hub, fwd>>

-----------------------------------------------------------------------------
(* The client's hub and its forwarders. *)

(* A datagram of p that came in by c: replies go out by c from now on. The *)
(* datagram is queued for the forwarder, which sends it, or drops it when  *)
(* the queue is full or it waited too long: nothing else depends on it.    *)
Redirect(p, c) == hub' = [hub EXCEPT ![p].out = c] /\ UNCHANGED fwd

(* A worker's frame reaches the channel's read loop, and udp_read_loop     *)
(* hands it to the hub.                                                    *)
Deliver(c) ==
    /\ reader[c] = "read" /\ queue[c] # <<>>
    /\ queue' = [queue EXCEPT ![c] = Tail(@)]
    /\ LET p == Head(queue[c]) IN
        IF hub[p] # NoRoute
        THEN Redirect(p, c) /\ UNCHANGED reader
        ELSE reader' = [reader EXCEPT ![c] = p] /\ UNCHANGED <<hub, fwd>>
    /\ UNCHANGED <<workers, spawned, retiring, task, routes, grown, shut, net, writer, outq, registered>>

(* The connect failed: the datagram is dropped. *)
ConnectFails(c) ==
    /\ reader[c] \in Peers
    /\ reader' = [reader EXCEPT ![c] = "read"]
    /\ UNCHANGED <<srv, net, writer, outq, registered, hub, fwd>>

Fresh(f) == fwd[f].at = "none" /\ \A g \in 1..(f - 1) : fwd[g].at # "none"

Spawn(p, c, f) ==
    /\ Fresh(f)
    /\ hub' = [hub EXCEPT ![p] = [fwd |-> f, out |-> c]]
    /\ fwd' = [fwd EXCEPT ![f] = [at |-> "run", peer |-> p, pick |-> 0]]

(* Mutant: the table is not looked at again.                               *)
ConnectedUnchecked(p, c) == \E f \in Forwarders : Spawn(p, c, f)

(* The local socket is connected: the table is looked at again, because    *)
(* another channel may have brought the visitor a forwarder meanwhile.     *)
Connected(p, c) ==
    IF hub[p] # NoRoute THEN Redirect(p, c)
    ELSE \E f \in Forwarders : Spawn(p, c, f)

DeliverConnected(c) ==
    /\ reader[c] \in Peers
    /\ Connected(reader[c], c)
    /\ reader' = [reader EXCEPT ![c] = "read"]
    /\ UNCHANGED <<srv, net, writer, outq, registered>>

(* A refused datagram, the socket's own error, or nothing for udp_lifetime. *)
ForwarderBreaks(f) ==
    /\ fwd[f].at = "run"
    /\ fwd' = [fwd EXCEPT ![f].at = "ending"]
    /\ UNCHANGED <<srv, net, reader, writer, outq, registered, hub>>

(* The forwarder's last act: it gives up the route if it is still its own. *)
Forget(f) ==
    IF hub[fwd[f].peer].fwd = f THEN [hub EXCEPT ![fwd[f].peer] = NoRoute] ELSE hub

ForwarderEnds(f) ==
    /\ fwd[f].at = "ending"
    /\ hub' = Forget(f)
    /\ fwd' = [fwd EXCEPT ![f] = NoForwarder]
    /\ UNCHANGED <<srv, net, reader, writer, outq, registered>>

(* send_outbound: a reply goes by the channel the route names, or is       *)
(* dropped when that one's queue is full; a closed one makes the forwarder *)
(* look for another.                                                       *)
Out(f) == hub[fwd[f].peer].out
(* Mutant: a closed channel is not taken for lost.                         *)
LostNever(f) == Out(f) = 0

Lost(f) == Out(f) = 0 \/ writer[Out(f)] = "closed"
ForwarderReplies(f) ==
    /\ fwd[f].at = "run"
    /\ IF Lost(f)
       THEN fwd' = [fwd EXCEPT ![f].at = "look"] /\ UNCHANGED outq
       ELSE /\ outq' = [outq EXCEPT ![Out(f)] =
                          IF @ < QueueSize /\ writer[Out(f)] = "open" THEN @ + 1 ELSE @]
            /\ UNCHANGED fwd
    /\ UNCHANGED <<srv, net, reader, writer, registered, hub>>

(* The round robin over the registered channels: any of them. *)
ForwarderPicks(f) ==
    /\ fwd[f].at = "look"
    /\ IF registered = {} THEN fwd' = [fwd EXCEPT ![f].at = "run"]
       ELSE \E c \in registered : fwd' = [fwd EXCEPT ![f].at = "repin", ![f].pick = c]
    /\ UNCHANGED <<srv, net, reader, writer, outq, registered, hub>>

ForwarderRepins(f) ==
    LET p == fwd[f].peer  c == fwd[f].pick IN
    /\ fwd[f].at = "repin"
    /\ hub' = IF hub[p] = NoRoute THEN hub ELSE [hub EXCEPT ![p].out = c]
    /\ outq' = [outq EXCEPT ![c] = IF @ < QueueSize /\ writer[c] = "open" THEN @ + 1 ELSE @]
    /\ fwd' = [fwd EXCEPT ![f].at = "run", ![f].pick = 0]
    /\ UNCHANGED <<srv, net, reader, writer, registered>>

-----------------------------------------------------------------------------
PoolNext ==
    \/ OpenChannel \/ OpenFails \/ SecondPasses \/ RetireTick \/ Sweep \/ PoolEnds
    \/ \E p \in Peers : Receive(p)
    \/ \E c \in Channels :
        \/ ChannelBreaks(c) \/ TakeChannel(c) \/ TakeBroken(c)
        \/ WorkerEnds(c)

HubNext ==
    \/ \E c \in Channels :
        \/ ChannelStarts(c) \/ ReaderEnds(c) \/ WriterEnds(c) \/ WriterWrites(c)
        \/ Deliver(c) \/ ConnectFails(c) \/ DeliverConnected(c)
    \/ \E f \in Forwarders :
        \/ ForwarderBreaks(f) \/ ForwarderEnds(f)
        \/ ForwarderReplies(f) \/ ForwarderPicks(f) \/ ForwarderRepins(f)

UdpNext == PoolNext \/ HubNext

UdpSpec == UdpInit /\ [][UdpNext]_udpVars

(* The tasks' own steps are taken; visitors and the local service go on    *)
(* sending; an open the client keeps trying goes through in the end.       *)
UdpFairness ==
    /\ WF_udpVars(SecondPasses)
    /\ WF_udpVars(\E p \in Peers : Receive(p))
    /\ SF_udpVars(OpenChannel)
    /\ \A c \in Channels :
        /\ WF_udpVars(TakeChannel(c))
        /\ WF_udpVars(WorkerEnds(c))
        /\ WF_udpVars(ChannelStarts(c))
        /\ WF_udpVars(ReaderEnds(c))
        /\ WF_udpVars(WriterWrites(c))
        /\ WF_udpVars(ConnectFails(c) \/ DeliverConnected(c))
    /\ \A f \in Forwarders :
        /\ SF_udpVars(ForwarderReplies(f))
        /\ WF_udpVars(ForwarderPicks(f))
        /\ WF_udpVars(ForwarderRepins(f))
        /\ WF_udpVars(ForwarderEnds(f))

UdpLive == UdpSpec /\ UdpFairness

-----------------------------------------------------------------------------
(* The state's shape. *)
UdpTypeOK ==
    /\ workers \subseteq Channels /\ spawned \subseteq Channels /\ retiring \subseteq Channels
    /\ task \in [Channels -> {"none", "run", "ended"}]
    /\ \A c \in Channels : Len(queue[c]) <= QueueSize
    /\ routes \in [Peers -> 0..MaxChannels]
    /\ {grown, shut} \subseteq BOOLEAN
    /\ asked \in 0..MaxAsked /\ made \in 0..MaxChannels /\ faults \in 0..MaxFaults
    /\ chan \in [Channels -> {"none", "offered", "up", "down"}]
    /\ reader \in [Channels -> {"none", "read", "ended"} \cup Peers]
    /\ writer \in [Channels -> {"none", "open", "closed"}]
    /\ outq \in [Channels -> 0..QueueSize]
    /\ registered \subseteq Channels
    /\ hub \in [Peers -> [fwd : 0..MaxForwarders, out : 0..MaxChannels]]
    /\ fwd \in [Forwarders -> [at : {"none", "run", "look", "repin", "ending"},
                               peer : Peers, pick : 0..MaxChannels]]

(* One local socket per visitor (client.rs, UdpHub::deliver and the end of  *)
(* run_udp_forwarder): a forwarder that still runs is the one the table     *)
(* names for its visitor, whatever two channels connecting at once, an      *)
(* expiring forwarder and a new one do in between.                          *)
OneForwarder ==
    \A f \in Forwarders :
        fwd[f].at \in {"run", "look", "repin", "ending"} => hub[fwd[f].peer].fwd = f

(* A visitor is never split over channels that live (server.rs,             *)
(* route_udp_datagram and retire_idle_udp_worker): its route goes from one  *)
(* worker to another only when the first one's channel failed.              *)
StickyVisitor ==
    [][\A p \in Peers :
        routes[p] # 0 /\ routes'[p] \notin {0, routes[p]}
            => chan[routes[p]] = "down" /\ routes[p] \notin retiring]_udpVars

(* The pool is emptied by failures and by its end, never by retirement,     *)
(* which counts the live workers of a set that also lists dead ones         *)
(* (server.rs, retire_idle_udp_worker).                                     *)
OnlyFailureEmpties ==
    [][workers # {} /\ workers' = {} => shut \/ \E c \in workers : chan[c] = "down"]_udpVars

(* Idle workers leave for good (server.rs, UdpWorkerGuard): the end of a    *)
(* worker that was retired asks for no replacement, however its channel     *)
(* ended meanwhile.                                                         *)
RetiredIsNotReplaced ==
    [][\A c \in Channels :
        task[c] = "run" /\ task'[c] = "ended" /\ c \in retiring => asked' = asked]_udpVars

(* A pool that lost every worker, by failures or by channels that never     *)
(* started, gets one again while visitors send (server.rs,                  *)
(* note_udp_pressure), or ends.                                             *)
PoolHeals == []<>(workers # {} \/ shut \/ made = MaxChannels)

(* Replies leave by a channel that works (client.rs, send_outbound): a       *)
(* visitor that keeps its forwarder, on a client that keeps a channel, does  *)
(* not stay pinned to a channel that is gone.                                *)
RepliesFindAChannel ==
    \A p \in Peers :
        <>[](hub[p] # NoRoute /\ registered # {}) => <>[](hub[p].out \in {c \in Channels : chan[c] = "up"})

(* The safety of the hub: types, and one local socket per visitor.         *)
UdpSafe == UdpTypeOK /\ OneForwarder

(* The worker set changes only as it should: a visitor stays on its worker,*)
(* retirement leaves one and is not made good for.                         *)
WorkersKept == StickyVisitor /\ OnlyFailureEmpties /\ RetiredIsNotReplaced

(* A pool without workers gets one, and replies leave a dead channel.      *)
UdpHeals == PoolHeals /\ RepliesFindAChannel
=============================================================================
