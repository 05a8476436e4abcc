-------------------------- MODULE UdpForward_proofs --------------------------
(***************************************************************************)
(* One local socket per visitor on the client, and what may happen to the  *)
(* server's workers and the routes to them, for every number of visitors,  *)
(* channels, forwarders and faults and every size of the queues.           *)
(***************************************************************************)
EXTENDS UdpForward, FiniteSetTheorems, TLAPS

Routes == [fwd : 0..MaxForwarders, out : 0..MaxChannels]
Handles == [at : {"none", "run", "look", "repin", "ending"}, peer : Peers, pick : 0..MaxChannels]

(* The state's shape, with the contents of the queues: the server's pool,  *)
(* the network and the client's hub.                                       *)
PoolShape ==
  /\ workers \subseteq Channels /\ spawned \subseteq Channels /\ retiring \subseteq Channels
  /\ task \in [Channels -> {"none", "run", "ended"}]
  /\ queue \in [Channels -> Seq(Peers)] /\ \A c \in Channels : Len(queue[c]) <= QueueSize
  /\ routes \in [Peers -> 0..MaxChannels] /\ grown \in BOOLEAN /\ shut \in BOOLEAN
NetShape ==
  /\ asked \in 0..MaxAsked /\ made \in 0..MaxChannels /\ faults \in 0..MaxFaults
  /\ chan \in [Channels -> {"none", "offered", "up", "down"}]
HubShape ==
  /\ reader \in [Channels -> {"none", "read", "ended"} \cup Peers]
  /\ writer \in [Channels -> {"none", "open", "closed"}]
  /\ outq \in [Channels -> 0..QueueSize] /\ registered \subseteq Channels
  /\ hub \in [Peers -> Routes] /\ fwd \in [Forwarders -> Handles]
Shape == PoolShape /\ NetShape /\ HubShape

(* Channels are opened in order; one that waits for its worker is on no    *)
(* list, and a worker that runs has a channel that was taken.              *)
InOrderOfOpening ==
  /\ \A c \in Channels : c > made => chan[c] = "none"
  /\ \A c \in Channels : chan[c] \in {"none", "offered"} => c \notin spawned /\ c \notin retiring
  /\ \A c \in Channels : task[c] = "run" => chan[c] \in {"up", "down"}

(* A route names a worker in the map or a channel that failed, and never a *)
(* worker that was retired.                                                *)
RoutesHold ==
  /\ workers \cap retiring = {}
  /\ \A p \in Peers : routes[p] # 0 =>
       /\ routes[p] \notin retiring
       /\ routes[p] \in workers \/ chan[routes[p]] = "down"

UdpInv == Shape /\ OneForwarder /\ InOrderOfOpening /\ RoutesHold

-----------------------------------------------------------------------------
LEMMA AppendFacts ==
  ASSUME NEW S, NEW q \in Seq(S), NEW x \in S
  PROVE  Append(q, x) \in Seq(S) /\ Len(Append(q, x)) = Len(q) + 1
  OBVIOUS

LEMMA TailFacts ==
  ASSUME NEW S, NEW q \in Seq(S), q # <<>>
  PROVE  Head(q) \in S /\ Tail(q) \in Seq(S) /\ Len(Tail(q)) = Len(q) - 1
  OBVIOUS

(* The constants as numbers.                                               *)
LEMMA Numbers ==
  /\ MaxChannels \in Nat \ {0} /\ MaxForwarders \in Nat \ {0} /\ MaxAsked \in Nat \ {0}
  /\ QueueSize \in Nat \ {0} /\ MaxWorkers \in Nat \ {0} /\ MaxFaults \in Nat
  BY UdpConstants

LEMMA AsksFacts == ASSUME asked \in 0..MaxAsked PROVE Asks(1) \in 0..MaxAsked
  BY Numbers DEF Asks

LEMMA NoForwarderFacts == NoForwarder \in Handles /\ NoForwarder.at = "none"
<1>1. (CHOOSE p \in Peers : TRUE) \in Peers
  BY UdpConstants
<1>2. 0 \in 0..MaxChannels
  BY Numbers
<1>3. QED
  BY <1>1, <1>2 DEF NoForwarder, Handles

LEMMA ShapeIsType == Shape => UdpTypeOK
  BY DEF Shape, PoolShape, NetShape, HubShape, UdpTypeOK, Routes, Handles

LEMMA UdpInitial == UdpInit => UdpInv
<1> SUFFICES ASSUME UdpInit PROVE UdpInv
  OBVIOUS
<1>1. PoolShape
  <2>1. <<>> \in Seq(Peers) /\ Len(<<>>) <= QueueSize /\ 0 \in 0..MaxChannels
    BY Numbers
  <2>2. queue \in [Channels -> Seq(Peers)] /\ \A c \in Channels : Len(queue[c]) <= QueueSize
    BY <2>1 DEF UdpInit
  <2>3. QED
    BY <2>1, <2>2 DEF UdpInit, PoolShape
<1>2. NetShape
  BY Numbers DEF UdpInit, NetShape
<1>3. NoRoute \in Routes
  BY Numbers DEF NoRoute, Routes
<1>4. HubShape
  BY <1>3, Numbers, NoForwarderFacts DEF UdpInit, HubShape
<1>5. OneForwarder
  BY NoForwarderFacts DEF UdpInit, OneForwarder
<1>6. InOrderOfOpening /\ RoutesHold
  BY DEF UdpInit, InOrderOfOpening, RoutesHold
<1>7. QED
  BY <1>1, <1>2, <1>4, <1>5, <1>6 DEF UdpInv, Shape

-----------------------------------------------------------------------------
(* The pool's steps.  The hub keeps its part of the invariant.             *)

LEMMA HubUntouched ==
  ASSUME UdpInv, UNCHANGED cli, PoolShape', NetShape', InOrderOfOpening', RoutesHold'
  PROVE  UdpInv'
<1>1. HubShape' /\ OneForwarder'
  BY DEF UdpInv, Shape, HubShape, OneForwarder, cli
<1>2. QED
  BY <1>1 DEF UdpInv, Shape

LEMMA OpenChannelKeeps == ASSUME UdpInv, OpenChannel PROVE UdpInv'
<1> USE DEF UdpInv, Shape
<1>1. made + 1 \in Channels /\ made \in Nat
  BY Numbers DEF OpenChannel, Channels, NetShape
<1>2. UNCHANGED <<srv, cli>> /\ PoolShape'
  BY DEF OpenChannel, srv, PoolShape
<1>3. chan' = [chan EXCEPT ![made + 1] = "offered"] /\ made' = made + 1
  BY DEF OpenChannel
<1>4. NetShape'
  BY <1>1, Numbers DEF OpenChannel, NetShape, Channels
<1>5. /\ chan[made + 1] = "none" /\ task[made + 1] # "run"
      /\ made + 1 \notin spawned /\ made + 1 \notin retiring
  BY <1>1 DEF InOrderOfOpening
<1>6. InOrderOfOpening'
  BY <1>1, <1>2, <1>3, <1>5 DEF InOrderOfOpening, NetShape, srv, Channels
<1>7. \A p \in Peers : routes[p] # 0 => routes[p] \in Channels
  BY Numbers DEF PoolShape, Channels
<1>8. RoutesHold'
  BY <1>1, <1>2, <1>3, <1>5, <1>7 DEF RoutesHold, NetShape, srv
<1>9. QED
  BY <1>2, <1>4, <1>6, <1>8, HubUntouched

(* Requests that fail, channels that break, and steps that change neither  *)
(* the lists nor the routes.                                               *)
LEMMA NetKeeps ==
  ASSUME UdpInv, OpenFails \/ \E c \in Channels : ChannelBreaks(c)
  PROVE  UdpInv'
<1> USE DEF UdpInv, Shape
<1>1. UNCHANGED <<srv, cli, made>> /\ PoolShape'
  BY DEF OpenFails, ChannelBreaks, srv, PoolShape
<1>2. NetShape'
  BY Numbers DEF OpenFails, ChannelBreaks, NetShape
<1>3. \A c \in Channels : chan'[c] = chan[c] \/ (chan'[c] = "down" /\ chan[c] \in {"offered", "up"})
  BY DEF OpenFails, ChannelBreaks, NetShape
<1>4. InOrderOfOpening'
  BY <1>1, <1>3 DEF InOrderOfOpening, srv
<1>5. \A p \in Peers : routes[p] # 0 => routes[p] \in Channels
  BY Numbers DEF PoolShape, Channels
<1>6. RoutesHold'
  BY <1>1, <1>3, <1>5 DEF RoutesHold, srv
<1>7. QED
  BY <1>1, <1>2, <1>4, <1>6, HubUntouched

LEMMA IdlePoolKeeps ==
  ASSUME UdpInv, SecondPasses \/ PoolEnds \/ Sweep \/ \E c \in Channels : TakeBroken(c)
  PROVE  UdpInv'
<1> USE DEF UdpInv, Shape
<1>1. UNCHANGED <<workers, spawned, retiring, queue, net, cli>>
  BY DEF SecondPasses, PoolEnds, Sweep, TakeBroken
<1>2. \A p \in Peers : routes'[p] \in {0, routes[p]}
  BY DEF SecondPasses, PoolEnds, Sweep, TakeBroken, PoolShape
<1>3. routes' \in [Peers -> 0..MaxChannels]
  BY Numbers DEF SecondPasses, PoolEnds, Sweep, TakeBroken, PoolShape
<1>4. PoolShape'
  BY <1>1, <1>3 DEF SecondPasses, PoolEnds, Sweep, TakeBroken, PoolShape
<1>5. \A c \in Channels : task'[c] = "run" => task[c] = "run"
  BY DEF SecondPasses, PoolEnds, Sweep, TakeBroken, PoolShape
<1>6. NetShape' /\ InOrderOfOpening'
  BY <1>1, <1>5 DEF NetShape, InOrderOfOpening, net
<1>7. RoutesHold'
  BY <1>1, <1>2 DEF RoutesHold, net
<1>8. QED
  BY <1>1, <1>4, <1>6, <1>7, HubUntouched

(* A channel that gets its worker was on neither list.                     *)
LEMMA TakeChannelKeeps == ASSUME UdpInv, NEW c \in Channels, TakeChannel(c) PROVE UdpInv'
<1> USE DEF UdpInv, Shape
<1>1. /\ chan[c] = "offered" /\ chan' = [chan EXCEPT ![c] = "up"]
      /\ workers' = workers \cup {c} /\ spawned' = spawned \cup {c}
      /\ task' = [task EXCEPT ![c] = "run"]
      /\ UNCHANGED <<retiring, queue, routes, grown, shut, asked, made, faults, cli>>
  BY DEF TakeChannel, SpawnWorker
<1>2. PoolShape' /\ NetShape'
  BY <1>1 DEF PoolShape, NetShape
<1>3. InOrderOfOpening'
  BY <1>1 DEF InOrderOfOpening, NetShape, PoolShape
<1>4. \A p \in Peers : routes[p] # 0 => routes[p] \in Channels
  BY Numbers DEF PoolShape, Channels
<1>5. RoutesHold'
  BY <1>1, <1>4 DEF RoutesHold, NetShape, InOrderOfOpening
<1>6. QED
  BY <1>1, <1>2, <1>3, <1>5, HubUntouched

(* A route is made to a worker in the map.                                 *)
LEMMA ReceiveKeeps == ASSUME UdpInv, NEW p \in Peers, Receive(p) PROVE UdpInv'
<1> USE DEF UdpInv, Shape
<1>1. PICK w \in Targets(p) :
        /\ routes' = IF w = 0 THEN routes ELSE [routes EXCEPT ![p] = w]
        /\ queue' = IF Enqueues(w) THEN [queue EXCEPT ![w] = Append(@, p)] ELSE queue
        /\ grown' = (grown \/ Presses(w))
        /\ asked' = IF Presses(w) THEN Asks(1) ELSE asked
  BY DEF Receive
<1>2. UNCHANGED <<workers, spawned, retiring, task, shut, made, faults, chan, cli>>
  BY DEF Receive
<1>3. w = 0 \/ (w \in workers /\ w \in Channels /\ w \in 0..MaxChannels)
  BY DEF Targets, PoolShape, Channels
<1>4. routes' \in [Peers -> 0..MaxChannels] /\ \A q \in Peers : routes'[q] = routes[q] \/ routes'[q] \in workers
  BY <1>1, <1>3 DEF PoolShape
<1>5. queue' \in [Channels -> Seq(Peers)] /\ \A c \in Channels : Len(queue'[c]) <= QueueSize
  <2>1. CASE Enqueues(w)
    <3>1. w \in Channels /\ Len(queue[w]) < QueueSize /\ queue[w] \in Seq(Peers)
      BY <1>3, <2>1 DEF Enqueues, PoolShape
    <3>2. Append(queue[w], p) \in Seq(Peers) /\ Len(Append(queue[w], p)) <= QueueSize
      BY <3>1, AppendFacts, Numbers
    <3>3. queue' = [queue EXCEPT ![w] = Append(queue[w], p)]
      BY <1>1, <2>1
    <3>4. QED
      BY <3>1, <3>2, <3>3 DEF PoolShape
  <2>2. CASE ~Enqueues(w)
    BY <1>1, <2>2 DEF PoolShape
  <2>3. QED
    BY <2>1, <2>2
<1>6. grown' \in BOOLEAN
  BY <1>1
<1>7. PoolShape' /\ NetShape'
  BY <1>1, <1>2, <1>4, <1>5, <1>6, AsksFacts DEF PoolShape, NetShape
<1>8. InOrderOfOpening' /\ RoutesHold'
  BY <1>2, <1>4 DEF InOrderOfOpening, RoutesHold
<1>9. QED
  BY <1>2, <1>7, <1>8, HubUntouched

(* Only a worker that no visitor is pinned to retires.                     *)
LEMMA RetireKeeps == ASSUME UdpInv, RetireTick PROVE UdpInv'
<1> USE DEF UdpInv, Shape
<1>1. PICK gone \in {{}} \cup {{w} : w \in Idle} :
        workers' = workers \ gone /\ spawned' = spawned \ gone /\ retiring' = retiring \cup gone
  BY DEF RetireTick
<1>2. UNCHANGED <<task, queue, routes, grown, shut, made, faults, chan, cli>>
  BY DEF RetireTick
<1>3. gone \subseteq spawned /\ \A p \in Peers : routes[p] \notin gone
  BY <1>1 DEF Idle, Pinned
<1>4. PoolShape' /\ NetShape'
  BY <1>1, <1>2, <1>3, AsksFacts DEF PoolShape, NetShape, RetireTick
<1>5. InOrderOfOpening' /\ RoutesHold'
  BY <1>1, <1>2, <1>3 DEF InOrderOfOpening, RoutesHold
<1>6. QED
  BY <1>2, <1>4, <1>5, HubUntouched

LEMMA WorkerEndsKeeps == ASSUME UdpInv, NEW c \in Channels, WorkerEnds(c) PROVE UdpInv'
<1> USE DEF UdpInv, Shape
<1>1. /\ task' = [task EXCEPT ![c] = "ended"] /\ workers' = workers \ {c}
      /\ retiring' \in {retiring, retiring \ {c}}
      /\ asked' \in {asked, Asks(1)}
      /\ queue' = [queue EXCEPT ![c] = <<>>] /\ chan' = [chan EXCEPT ![c] = "down"]
      /\ UNCHANGED <<spawned, routes, grown, shut, made, faults, cli>>
  BY DEF WorkerEnds
<1>2. task[c] = "run"
  BY DEF WorkerEnds
<1>3. Len(<<>>) <= QueueSize /\ <<>> \in Seq(Peers)
  BY Numbers
<1>4. PoolShape' /\ NetShape'
  BY <1>1, <1>3, AsksFacts DEF PoolShape, NetShape
<1>5. RoutesHold'
  BY <1>1 DEF RoutesHold, NetShape
<1>6. InOrderOfOpening'
  BY <1>1, <1>2 DEF InOrderOfOpening, NetShape, PoolShape
<1>7. QED
  BY <1>1, <1>4, <1>5, <1>6, HubUntouched

-----------------------------------------------------------------------------
(* The hub's steps.  The server keeps its part of the invariant.           *)

LEMMA PoolUntouched ==
  ASSUME UdpInv, UNCHANGED <<srv, net>>, HubShape', OneForwarder'
  PROVE  UdpInv'
<1>1. PoolShape' /\ NetShape' /\ InOrderOfOpening' /\ RoutesHold'
  BY DEF UdpInv, Shape, PoolShape, NetShape, InOrderOfOpening, RoutesHold, srv, net
<1>2. QED
  BY <1>1 DEF UdpInv, Shape

LEMMA RouteFields ==
  ASSUME NEW r \in Routes, NEW c \in 0..MaxChannels
  PROVE  [r EXCEPT !.out = c] \in Routes /\ [r EXCEPT !.out = c].fwd = r.fwd
  BY DEF Routes

LEMMA HandleFields ==
  ASSUME NEW h \in Handles, NEW a \in {"none", "run", "look", "repin", "ending"},
         NEW c \in 0..MaxChannels
  PROVE  /\ [h EXCEPT !.at = a] \in Handles /\ [h EXCEPT !.at = a].peer = h.peer
         /\ [h EXCEPT !.at = a, !.pick = c] \in Handles
         /\ [h EXCEPT !.at = a, !.pick = c].peer = h.peer
  BY DEF Handles

(* What a step leaves of the table and of the forwarders: a forwarder      *)
(* works for the visitor it worked for and was running before, and a       *)
(* visitor's route keeps its forwarder.                                    *)
NoneStarts ==
  \A f \in Forwarders :
    /\ fwd'[f].peer = fwd[f].peer
    /\ fwd'[f].at # "none" => fwd[f].at # "none"
ForwardersStay == \A p \in Peers : hub'[p].fwd = hub[p].fwd

LEMMA OneForwarderStays ==
  ASSUME OneForwarder, fwd \in [Forwarders -> Handles], NoneStarts, ForwardersStay
  PROVE  OneForwarder'
<1> SUFFICES ASSUME NEW f \in Forwarders, fwd'[f].at \in {"run", "look", "repin", "ending"}
             PROVE  hub'[fwd'[f].peer].fwd = f
  BY DEF OneForwarder
<1>1. fwd[f] \in Handles
  OBVIOUS
<1>2. fwd[f].peer \in Peers /\ fwd[f].at \in {"none", "run", "look", "repin", "ending"}
  BY <1>1 DEF Handles
<1>3. fwd'[f].peer = fwd[f].peer /\ fwd[f].at # "none"
  BY DEF NoneStarts
<1>4. hub[fwd[f].peer].fwd = f
  BY <1>2, <1>3 DEF OneForwarder
<1>5. hub'[fwd[f].peer].fwd = hub[fwd[f].peer].fwd
  BY <1>2 DEF ForwardersStay
<1>6. QED
  BY <1>3, <1>4, <1>5

(* Steps of a channel's reader and writer.                                 *)
LEMMA ChannelKeeps ==
  ASSUME UdpInv, NEW c \in Channels,
         ChannelStarts(c) \/ ReaderEnds(c) \/ WriterEnds(c) \/ WriterWrites(c) \/ ConnectFails(c)
  PROVE  UdpInv'
<1> USE DEF UdpInv, Shape
<1>1. UNCHANGED <<hub, fwd>> /\ UNCHANGED <<srv, net>>
  BY DEF ChannelStarts, ReaderEnds, WriterEnds, WriterWrites, ConnectFails
<1>2. outq' \in [Channels -> 0..QueueSize]
  BY Numbers DEF ChannelStarts, ReaderEnds, WriterEnds, WriterWrites, ConnectFails, HubShape
<1>3. HubShape'
  BY <1>1, <1>2 DEF ChannelStarts, ReaderEnds, WriterEnds, WriterWrites, ConnectFails, HubShape
<1>4. OneForwarder'
  BY <1>1 DEF OneForwarder
<1>5. QED
  BY <1>1, <1>3, <1>4, PoolUntouched

(* A datagram that comes in by another channel turns the replies there.    *)
LEMMA RedirectFacts ==
  ASSUME UdpInv, NEW p \in Peers, NEW c \in Channels, Redirect(p, c)
  PROVE  hub' \in [Peers -> Routes] /\ UNCHANGED fwd /\ OneForwarder'
<1> USE DEF UdpInv, Shape
<1>1. hub' = [hub EXCEPT ![p] = [hub[p] EXCEPT !.out = c]] /\ UNCHANGED fwd
  BY DEF Redirect
<1>2. hub[p] \in Routes /\ c \in 0..MaxChannels
  BY Numbers DEF HubShape, Channels
<1>3. DEFINE r == [hub[p] EXCEPT !.out = c]
<1>4. r \in Routes /\ r.fwd = hub[p].fwd
  BY <1>2, RouteFields
<1>5. hub' = [hub EXCEPT ![p] = r]
  BY <1>1
<1> HIDE DEF r
<1>6. hub' \in [Peers -> Routes] /\ ForwardersStay
  BY <1>4, <1>5 DEF HubShape, ForwardersStay
<1>7. NoneStarts
  BY <1>1 DEF NoneStarts
<1>8. QED
  BY <1>1, <1>6, <1>7, OneForwarderStays DEF HubShape

LEMMA DeliverKeeps == ASSUME UdpInv, NEW c \in Channels, Deliver(c) PROVE UdpInv'
<1> USE DEF UdpInv, Shape
<1> DEFINE p == Head(queue[c])
<1>1. p \in Peers /\ Tail(queue[c]) \in Seq(Peers) /\ Len(Tail(queue[c])) <= QueueSize
  <2>1. queue[c] \in Seq(Peers) /\ queue[c] # <<>> /\ Len(queue[c]) <= QueueSize
    BY DEF Deliver, PoolShape
  <2>2. QED
    BY <2>1, TailFacts, Numbers
<1>2. /\ queue' = [queue EXCEPT ![c] = Tail(queue[c])]
      /\ UNCHANGED <<workers, spawned, retiring, task, routes, grown, shut, net, writer, outq, registered>>
  BY DEF Deliver
<1>3. PoolShape' /\ NetShape' /\ InOrderOfOpening' /\ RoutesHold'
  BY <1>1, <1>2 DEF PoolShape, NetShape, InOrderOfOpening, RoutesHold, net
<1>4. \/ Redirect(p, c) /\ UNCHANGED reader
      \/ reader' = [reader EXCEPT ![c] = p] /\ UNCHANGED <<hub, fwd>>
  BY DEF Deliver
<1> HIDE DEF p
<1>5. HubShape' /\ OneForwarder'
  <2>1. CASE Redirect(p, c) /\ UNCHANGED reader
    BY <1>1, <1>2, <2>1, RedirectFacts DEF HubShape
  <2>2. CASE reader' = [reader EXCEPT ![c] = p] /\ UNCHANGED <<hub, fwd>>
    BY <1>1, <1>2, <2>2 DEF HubShape, OneForwarder
  <2>3. QED
    BY <1>4, <2>1, <2>2
<1>6. QED
  BY <1>3, <1>5

(* A visitor without a route has no forwarder: a new one is the only one.  *)
LEMMA SpawnFacts ==
  ASSUME UdpInv, NEW p \in Peers, NEW c \in Channels, NEW f \in Forwarders,
         hub[p] = NoRoute, Spawn(p, c, f)
  PROVE  hub' \in [Peers -> Routes] /\ fwd' \in [Forwarders -> Handles] /\ OneForwarder'
<1> USE DEF UdpInv, Shape
<1> DEFINE r == [fwd |-> f, out |-> c]
           h == [at |-> "run", peer |-> p, pick |-> 0]
<1>1. hub' = [hub EXCEPT ![p] = r] /\ fwd' = [fwd EXCEPT ![f] = h]
  BY DEF Spawn
<1>2. r \in Routes /\ r.fwd = f /\ h \in Handles /\ h.peer = p
  BY Numbers DEF Routes, Handles, Channels, Forwarders
<1> HIDE DEF r, h
<1>3. hub' \in [Peers -> Routes] /\ fwd' \in [Forwarders -> Handles]
  BY <1>1, <1>2 DEF HubShape
<1>4. ASSUME NEW g \in Forwarders, fwd[g].at \in {"run", "look", "repin", "ending"}
      PROVE  fwd[g].peer # p
  <2>1. hub[fwd[g].peer].fwd = g /\ hub[p].fwd = 0 /\ g # 0
    BY <1>4, Numbers DEF OneForwarder, NoRoute, Forwarders
  <2>2. QED
    BY <2>1
<1>5. OneForwarder'
  BY <1>1, <1>2, <1>4 DEF OneForwarder, HubShape, Handles
<1>6. QED
  BY <1>3, <1>5

LEMMA DeliverConnectedKeeps == ASSUME UdpInv, NEW c \in Channels, DeliverConnected(c) PROVE UdpInv'
<1> USE DEF UdpInv, Shape
<1> DEFINE p == reader[c]
<1>1. /\ p \in Peers /\ Connected(p, c) /\ reader' = [reader EXCEPT ![c] = "read"]
      /\ UNCHANGED <<srv, net, writer, outq, registered>>
  BY DEF DeliverConnected
<1> HIDE DEF p
<1>2. hub' \in [Peers -> Routes] /\ fwd' \in [Forwarders -> Handles] /\ OneForwarder'
  <2>1. CASE hub[p] # NoRoute
    BY <1>1, <2>1, RedirectFacts DEF Connected, HubShape
  <2>2. CASE hub[p] = NoRoute
    BY <1>1, <2>2, SpawnFacts DEF Connected
  <2>3. QED
    BY <2>1, <2>2
<1>3. HubShape'
  BY <1>1, <1>2 DEF HubShape
<1>4. QED
  BY <1>1, <1>2, <1>3, PoolUntouched

(* What a forwarder does with itself: it breaks, asks for another channel, *)
(* finds one, or goes on without.                                          *)
LEMMA HandleKeeps ==
  ASSUME UdpInv, NEW f \in Forwarders, NEW h \in Handles, h.peer = fwd[f].peer,
         fwd[f].at # "none", fwd' = [fwd EXCEPT ![f] = h], ForwardersStay
  PROVE  fwd' \in [Forwarders -> Handles] /\ OneForwarder'
<1> USE DEF UdpInv, Shape
<1>1. fwd' \in [Forwarders -> Handles] /\ NoneStarts
  BY DEF HubShape, NoneStarts
<1>2. QED
  BY <1>1, OneForwarderStays DEF HubShape

(* A reply is queued while there is room.                                  *)
LEMMA QueuesReply ==
  ASSUME HubShape, NEW c, NEW b \in BOOLEAN,
         outq' = [outq EXCEPT ![c] = IF @ < QueueSize /\ b THEN @ + 1 ELSE @]
  PROVE  outq' \in [Channels -> 0..QueueSize]
<1>1. outq \in [Channels -> 0..QueueSize] /\ QueueSize \in Nat
  BY Numbers DEF HubShape
<1>2. ASSUME NEW d \in Channels PROVE outq'[d] \in 0..QueueSize
  <2>1. outq[d] \in 0..QueueSize /\ outq'[d] \in {outq[d], outq[d] + 1}
        /\ (outq'[d] = outq[d] + 1 /\ outq'[d] # outq[d] => outq[d] < QueueSize)
    BY <1>1
  <2>2. QED
    BY <1>1, <2>1
<1>3. DOMAIN outq' = Channels /\ outq' = [d \in Channels |-> outq'[d]]
  BY <1>1
<1>4. QED
  BY <1>2, <1>3

LEMMA ForwarderBreaksKeeps == ASSUME UdpInv, NEW f \in Forwarders, ForwarderBreaks(f) PROVE UdpInv'
<1> USE DEF UdpInv, Shape
<1>1. /\ fwd' = [fwd EXCEPT ![f] = [fwd[f] EXCEPT !.at = "ending"]] /\ fwd[f].at # "none"
      /\ UNCHANGED <<srv, net, reader, writer, outq, registered, hub>>
  BY DEF ForwarderBreaks
<1>2. fwd[f] \in Handles /\ 0 \in 0..MaxChannels
  BY Numbers DEF HubShape
<1> DEFINE h == [fwd[f] EXCEPT !.at = "ending"]
<1>3. h \in Handles /\ h.peer = fwd[f].peer
  BY <1>2, HandleFields
<1>4. fwd' = [fwd EXCEPT ![f] = h] /\ ForwardersStay
  BY <1>1 DEF ForwardersStay
<1> HIDE DEF h
<1>5. fwd' \in [Forwarders -> Handles] /\ OneForwarder'
  BY <1>1, <1>3, <1>4, HandleKeeps
<1>6. HubShape'
  BY <1>1, <1>5 DEF HubShape
<1>7. QED
  BY <1>1, <1>5, <1>6, PoolUntouched

(* A forwarder that ends gives up its own route, and no other forwarder's. *)
LEMMA ForwarderEndsKeeps == ASSUME UdpInv, NEW f \in Forwarders, ForwarderEnds(f) PROVE UdpInv'
<1> USE DEF UdpInv, Shape
<1>1. /\ fwd' = [fwd EXCEPT ![f] = NoForwarder] /\ hub' = Forget(f)
      /\ UNCHANGED <<srv, net, reader, writer, outq, registered>>
  BY DEF ForwarderEnds
<1>2. NoRoute \in Routes
  BY Numbers DEF NoRoute, Routes
<1>3. fwd' \in [Forwarders -> Handles] /\ hub' \in [Peers -> Routes]
  BY <1>1, <1>2, NoForwarderFacts DEF HubShape, Forget
<1>4. ASSUME NEW g \in Forwarders, fwd'[g].at \in {"run", "look", "repin", "ending"}
      PROVE  hub'[fwd'[g].peer].fwd = g
  <2>1. g # f /\ fwd'[g] = fwd[g]
    BY <1>1, <1>4, NoForwarderFacts DEF HubShape
  <2>2. hub[fwd[g].peer].fwd = g /\ fwd[g].peer \in Peers
    BY <1>4, <2>1 DEF OneForwarder, HubShape, Handles
  <2>3. hub'[fwd[g].peer] = hub[fwd[g].peer]
    BY <1>1, <2>1, <2>2 DEF Forget, HubShape
  <2>4. QED
    BY <2>1, <2>2, <2>3
<1>5. OneForwarder' /\ HubShape'
  BY <1>1, <1>3, <1>4 DEF OneForwarder, HubShape
<1>6. QED
  BY <1>1, <1>5, PoolUntouched

LEMMA ForwarderRepliesKeeps == ASSUME UdpInv, NEW f \in Forwarders, ForwarderReplies(f) PROVE UdpInv'
<1> USE DEF UdpInv, Shape
<1>1. fwd[f].at # "none" /\ UNCHANGED <<srv, net, reader, writer, registered, hub>>
  BY DEF ForwarderReplies
<1>2. outq' \in [Channels -> 0..QueueSize] /\ fwd' \in [Forwarders -> Handles] /\ OneForwarder'
  <2>1. CASE Lost(f)
    <3> DEFINE h == [fwd[f] EXCEPT !.at = "look"]
    <3>1. fwd' = [fwd EXCEPT ![f] = h] /\ UNCHANGED outq
      BY <2>1 DEF ForwarderReplies
    <3>2. fwd[f] \in Handles /\ 0 \in 0..MaxChannels
      BY Numbers DEF HubShape
    <3>3. h \in Handles /\ h.peer = fwd[f].peer
      BY <3>2, HandleFields
    <3> HIDE DEF h
    <3>4. fwd' \in [Forwarders -> Handles] /\ OneForwarder'
      BY <1>1, <3>1, <3>3, HandleKeeps DEF ForwardersStay
    <3>5. QED
      BY <3>1, <3>4 DEF HubShape
  <2>2. CASE ~Lost(f)
    <3>1. outq' = [outq EXCEPT ![Out(f)] =
                     IF @ < QueueSize /\ writer[Out(f)] = "open" THEN @ + 1 ELSE @] /\ UNCHANGED fwd
      BY <2>2 DEF ForwarderReplies
    <3>2. outq' \in [Channels -> 0..QueueSize]
      BY <3>1, QueuesReply
    <3>3. QED
      BY <1>1, <3>1, <3>2 DEF HubShape, OneForwarder
  <2>3. QED
    BY <2>1, <2>2
<1>3. HubShape'
  BY <1>1, <1>2 DEF HubShape
<1>4. QED
  BY <1>1, <1>2, <1>3, PoolUntouched

LEMMA ForwarderPicksKeeps == ASSUME UdpInv, NEW f \in Forwarders, ForwarderPicks(f) PROVE UdpInv'
<1> USE DEF UdpInv, Shape
<1>1. fwd[f].at # "none" /\ UNCHANGED <<srv, net, reader, writer, outq, registered, hub>>
  BY DEF ForwarderPicks
<1>2. registered \subseteq 0..MaxChannels
  BY Numbers DEF HubShape, Channels
<1>3. \/ fwd' = [fwd EXCEPT ![f] = [fwd[f] EXCEPT !.at = "run"]]
      \/ \E c \in registered : fwd' = [fwd EXCEPT ![f] = [fwd[f] EXCEPT !.at = "repin", !.pick = c]]
  <2>1. CASE registered = {}
    BY <2>1 DEF ForwarderPicks
  <2>2. CASE registered # {}
    <3>1. PICK c \in registered : fwd' = [fwd EXCEPT ![f].at = "repin", ![f].pick = c]
      BY <2>2 DEF ForwarderPicks
    <3>2. fwd' = [fwd EXCEPT ![f] = [fwd[f] EXCEPT !.at = "repin", !.pick = c]]
      BY <3>1 DEF HubShape
    <3>3. QED
      BY <3>2
  <2>3. QED
    BY <2>1, <2>2
<1>4. fwd' \in [Forwarders -> Handles] /\ OneForwarder'
  <2>1. PICK h : h \in Handles /\ h.peer = fwd[f].peer /\ fwd' = [fwd EXCEPT ![f] = h]
    <3>1. fwd[f] \in Handles /\ 0 \in 0..MaxChannels
      BY Numbers DEF HubShape
    <3>2. CASE fwd' = [fwd EXCEPT ![f] = [fwd[f] EXCEPT !.at = "run"]]
      <4>1. [fwd[f] EXCEPT !.at = "run"] \in Handles /\ [fwd[f] EXCEPT !.at = "run"].peer = fwd[f].peer
        BY <3>1, HandleFields
      <4>2. QED
        BY <3>2, <4>1
    <3>3. ASSUME NEW c \in registered,
                 fwd' = [fwd EXCEPT ![f] = [fwd[f] EXCEPT !.at = "repin", !.pick = c]]
          PROVE  \E h : h \in Handles /\ h.peer = fwd[f].peer /\ fwd' = [fwd EXCEPT ![f] = h]
      <4>1. c \in 0..MaxChannels
        BY <1>2
      <4> DEFINE k == [fwd[f] EXCEPT !.at = "repin", !.pick = c]
      <4>2. k \in Handles /\ k.peer = fwd[f].peer
        BY <3>1, <4>1, HandleFields
      <4>3. QED
        BY <3>3, <4>2
    <3>4. QED
      BY <1>3, <3>2, <3>3
  <2>2. QED
    BY <1>1, <2>1, HandleKeeps DEF ForwardersStay
<1>5. HubShape'
  BY <1>1, <1>4 DEF HubShape
<1>6. QED
  BY <1>1, <1>4, <1>5, PoolUntouched

LEMMA ForwarderRepinsKeeps == ASSUME UdpInv, NEW f \in Forwarders, ForwarderRepins(f) PROVE UdpInv'
<1> USE DEF UdpInv, Shape
<1> DEFINE p == fwd[f].peer
           c == fwd[f].pick
<1>1. /\ fwd[f].at # "none"
      /\ hub' = IF hub[p] = NoRoute THEN hub ELSE [hub EXCEPT ![p] = [hub[p] EXCEPT !.out = c]]
      /\ outq' = [outq EXCEPT ![c] = IF @ < QueueSize /\ writer[c] = "open" THEN @ + 1 ELSE @]
      /\ UNCHANGED <<srv, net, reader, writer, registered>>
  BY DEF ForwarderRepins
<1> DEFINE h == [fwd[f] EXCEPT !.at = "run", !.pick = 0]
<1>2. fwd' = [fwd EXCEPT ![f] = h]
  BY DEF ForwarderRepins, HubShape
<1>3. fwd[f] \in Handles
  BY DEF HubShape
<1>4. p \in Peers /\ c \in 0..MaxChannels /\ 0 \in 0..MaxChannels
  BY <1>3, Numbers DEF Handles
<1>5. h \in Handles /\ h.peer = fwd[f].peer
  BY <1>3, <1>4, HandleFields
<1> HIDE DEF p, c, h
<1>6. hub' \in [Peers -> Routes] /\ ForwardersStay
  <2>1. CASE hub[p] = NoRoute
    BY <1>1, <2>1 DEF HubShape, ForwardersStay
  <2>2. CASE hub[p] # NoRoute
    <3> DEFINE r == [hub[p] EXCEPT !.out = c]
    <3>1. r \in Routes /\ r.fwd = hub[p].fwd
      BY <1>4, RouteFields DEF HubShape
    <3>2. hub' = [hub EXCEPT ![p] = r]
      BY <1>1, <2>2
    <3> HIDE DEF r
    <3>3. QED
      BY <3>1, <3>2 DEF HubShape, ForwardersStay
  <2>3. QED
    BY <2>1, <2>2
<1>7. fwd' \in [Forwarders -> Handles] /\ OneForwarder'
  BY <1>1, <1>2, <1>6, <1>5, HandleKeeps
<1>8. outq' \in [Channels -> 0..QueueSize]
  BY <1>1, QueuesReply
<1>9. HubShape'
  BY <1>1, <1>6, <1>7, <1>8 DEF HubShape
<1>10. QED
  BY <1>1, <1>7, <1>9, PoolUntouched

-----------------------------------------------------------------------------
LEMMA UdpStep == ASSUME UdpInv, [UdpNext]_udpVars PROVE UdpInv'
<1>1. CASE UNCHANGED udpVars
  BY <1>1 DEF udpVars, srv, net, cli, UdpInv, Shape, PoolShape, NetShape, HubShape,
              OneForwarder, InOrderOfOpening, RoutesHold
<1>2. CASE PoolNext
  BY <1>2, OpenChannelKeeps, NetKeeps, IdlePoolKeeps, TakeChannelKeeps, ReceiveKeeps,
     RetireKeeps, WorkerEndsKeeps DEF PoolNext
<1>3. CASE HubNext
  BY <1>3, ChannelKeeps, DeliverKeeps, DeliverConnectedKeeps, ForwarderBreaksKeeps,
     ForwarderEndsKeeps, ForwarderRepliesKeeps, ForwarderPicksKeeps, ForwarderRepinsKeeps DEF HubNext
<1>4. QED
  BY <1>1, <1>2, <1>3 DEF UdpNext

LEMMA UdpInvariant == UdpSpec => []UdpInv
  BY UdpInitial, UdpStep, PTL DEF UdpSpec

(* UdpHub::deliver and run_udp_forwarder: whichever channels connect at    *)
(* once and however forwarders expire in between, a forwarder that runs is *)
(* the one the table names for its visitor.                                *)
THEOREM UdpIsSafe == UdpSpec => []UdpSafe
<1>1. UdpInv => UdpSafe
  BY ShapeIsType DEF UdpInv, UdpSafe
<1>2. QED
  BY <1>1, UdpInvariant, PTL

-----------------------------------------------------------------------------
(* The worker set.  Which steps move a route, empty the map or end a       *)
(* worker.                                                                 *)
Sticks ==
  \A p \in Peers :
    routes[p] # 0 /\ routes'[p] \notin {0, routes[p]}
      => chan[routes[p]] = "down" /\ routes[p] \notin retiring
EmptiesByFailure ==
  workers # {} /\ workers' = {} => shut \/ \E c \in workers : chan[c] = "down"
NotMadeGood ==
  \A c \in Channels :
    task[c] = "run" /\ task'[c] = "ended" /\ c \in retiring => asked' = asked

(* A route moves when a datagram finds its worker gone from the map.       *)
LEMMA RoutesMove == ASSUME UdpInv, [UdpNext]_udpVars PROVE Sticks
<1>1. ASSUME NEW p \in Peers, Receive(p) PROVE Sticks
  <2>1. PICK w \in Targets(p) : routes' = IF w = 0 THEN routes ELSE [routes EXCEPT ![p] = w]
    BY <1>1 DEF Receive
  <2>2. routes[p] \in workers => routes'[p] = routes[p]
    BY <2>1 DEF Targets, UdpInv, Shape, PoolShape
  <2>3. \A q \in Peers : q # p => routes'[q] = routes[q]
    BY <2>1 DEF UdpInv, Shape, PoolShape
  <2>4. QED
    BY <2>2, <2>3 DEF Sticks, UdpInv, RoutesHold
<1>2. ASSUME UNCHANGED routes PROVE Sticks
  BY <1>2 DEF Sticks
<1>3. CASE Sweep
  BY <1>3 DEF Sweep, Sticks
<1>4. CASE HubNext
  <2>1. UNCHANGED routes
    BY <1>4 DEF HubNext, ChannelStarts, ReaderEnds, WriterEnds, WriterWrites, Deliver, ConnectFails,
       DeliverConnected, ForwarderBreaks, ForwarderEnds, ForwarderReplies, ForwarderPicks,
       ForwarderRepins, srv
  <2>2. QED
    BY <2>1, <1>2
<1>5. CASE PoolNext /\ ~Sweep /\ ~\E p \in Peers : Receive(p)
  <2>1. UNCHANGED routes
    BY <1>5 DEF PoolNext, OpenChannel, OpenFails, SecondPasses, RetireTick, PoolEnds, ChannelBreaks,
       TakeChannel, TakeBroken, WorkerEnds, srv
  <2>2. QED
    BY <2>1, <1>2
<1>6. CASE UNCHANGED udpVars
  BY <1>2, <1>6 DEF udpVars, srv
<1>7. QED
  BY <1>1, <1>3, <1>4, <1>5, <1>6 DEF UdpNext

(* Retirement takes one worker of at least two.                            *)
LEMMA RetirementLeavesOne == ASSUME UdpInv, RetireTick, workers # {} PROVE workers' # {}
<1>1. PICK gone \in {{}} \cup {{w} : w \in Idle} : workers' = workers \ gone
  BY DEF RetireTick
<1>2. CASE gone = {}
  BY <1>1, <1>2
<1>3. ASSUME NEW w \in Idle, gone = {w} PROVE workers' # {}
  <2>1. ~(Cardinality(workers) <= 1)
    BY <1>3 DEF Idle
  <2>2. workers' = {} => workers = {w}
    BY <1>1, <1>3
  <2>3. Cardinality({w}) = 1
    BY FS_Singleton
  <2>4. QED
    BY <2>1, <2>2, <2>3
<1>4. QED
  BY <1>1, <1>2, <1>3

LEMMA MapEmpties == ASSUME UdpInv, [UdpNext]_udpVars PROVE EmptiesByFailure
<1>1. CASE RetireTick
  BY <1>1, RetirementLeavesOne DEF EmptiesByFailure
<1>2. ASSUME NEW c \in Channels, WorkerEnds(c) PROVE EmptiesByFailure
  <2>1. workers' = workers \ {c} /\ MayEnd(c)
    BY <1>2 DEF WorkerEnds
  <2>2. QED
    BY <2>1 DEF EmptiesByFailure, MayEnd
<1>3. ASSUME workers \subseteq workers' PROVE EmptiesByFailure
  BY <1>3 DEF EmptiesByFailure
<1>4. CASE HubNext
  <2>1. UNCHANGED workers
    BY <1>4 DEF HubNext, ChannelStarts, ReaderEnds, WriterEnds, WriterWrites, Deliver, ConnectFails,
       DeliverConnected, ForwarderBreaks, ForwarderEnds, ForwarderReplies, ForwarderPicks,
       ForwarderRepins, srv
  <2>2. QED
    BY <2>1, <1>3
<1>5. CASE PoolNext /\ ~RetireTick /\ ~\E c \in Channels : WorkerEnds(c)
  <2>1. workers \subseteq workers'
    BY <1>5 DEF PoolNext, OpenChannel, OpenFails, SecondPasses, PoolEnds, Sweep, Receive,
       ChannelBreaks, TakeChannel, SpawnWorker, TakeBroken, srv
  <2>2. QED
    BY <2>1, <1>3
<1>6. CASE UNCHANGED udpVars
  BY <1>3, <1>6 DEF udpVars, srv
<1>7. QED
  BY <1>1, <1>2, <1>4, <1>5, <1>6 DEF UdpNext

LEMMA RetiredEnds == ASSUME UdpInv, [UdpNext]_udpVars PROVE NotMadeGood
<1>1. ASSUME NEW c \in Channels, WorkerEnds(c) PROVE NotMadeGood
  <2>1. /\ task' = [task EXCEPT ![c] = "ended"]
        /\ asked' = IF Replaced(c) THEN Asks(1) ELSE asked
    BY <1>1 DEF WorkerEnds
  <2>2. QED
    BY <2>1 DEF NotMadeGood, Replaced, UdpInv, Shape, PoolShape
<1>2. ASSUME NEW c \in Channels, TakeBroken(c) PROVE NotMadeGood
  BY <1>2 DEF TakeBroken, NotMadeGood, UdpInv, Shape, PoolShape
<1>3. ASSUME NEW c \in Channels, TakeChannel(c) PROVE NotMadeGood
  BY <1>3 DEF TakeChannel, SpawnWorker, NotMadeGood, UdpInv, Shape, PoolShape
<1>4. ASSUME UNCHANGED task PROVE NotMadeGood
  BY <1>4 DEF NotMadeGood
<1>5. CASE HubNext
  <2>1. UNCHANGED task
    BY <1>5 DEF HubNext, ChannelStarts, ReaderEnds, WriterEnds, WriterWrites, Deliver, ConnectFails,
       DeliverConnected, ForwarderBreaks, ForwarderEnds, ForwarderReplies, ForwarderPicks,
       ForwarderRepins, srv
  <2>2. QED
    BY <2>1, <1>4
<1>6. CASE PoolNext /\ ~\E c \in Channels : WorkerEnds(c) \/ TakeBroken(c) \/ TakeChannel(c)
  <2>1. UNCHANGED task
    BY <1>6 DEF PoolNext, OpenChannel, OpenFails, SecondPasses, PoolEnds, Sweep, Receive,
       RetireTick, ChannelBreaks, srv
  <2>2. QED
    BY <2>1, <1>4
<1>7. CASE UNCHANGED udpVars
  BY <1>4, <1>7 DEF udpVars, srv
<1>8. QED
  BY <1>1, <1>2, <1>3, <1>5, <1>6, <1>7 DEF UdpNext

(* route_udp_datagram, retire_idle_udp_worker and UdpWorkerGuard: a        *)
(* visitor leaves a worker only when its channel failed, retirement never  *)
(* empties the pool, and a retired worker is not replaced.                 *)
THEOREM WorkersAreKept == UdpSpec => WorkersKept
<1>1. UdpInv /\ [UdpNext]_udpVars => [Sticks]_udpVars /\ [EmptiesByFailure]_udpVars /\ [NotMadeGood]_udpVars
  BY RoutesMove, MapEmpties, RetiredEnds
<1>2. UdpSpec => [][Sticks]_udpVars /\ [][EmptiesByFailure]_udpVars /\ [][NotMadeGood]_udpVars
  BY <1>1, UdpInvariant, PTL DEF UdpSpec
<1>3. QED
  BY <1>2, PTL DEF WorkersKept, StickyVisitor, OnlyFailureEmpties, RetiredIsNotReplaced,
     Sticks, EmptiesByFailure, NotMadeGood
=============================================================================
