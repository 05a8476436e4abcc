--------------------------- MODULE VisitorPairing ---------------------------
(***************************************************************************)
(* How a visitor of a public endpoint gets its data channels: the server   *)
(* asks for one channel per stripe over the control session, the client    *)
(* opens streams of its tunnels, the server's per-tunnel dispatch hands    *)
(* every stream to the queue of the service it names, the visitor labels   *)
(* the channels it takes with its group and an index, and the client parks *)
(* them until the group is complete (core/server.rs, core/client.rs,       *)
(* stripe.rs).                                                             *)
(*                                                                         *)
(* A channel is a slot of the client's pool; it has two ends, which are    *)
(* dropped independently.  A service that is reloaded gets a new pool, a   *)
(* new queue and, on the client, a new registry; its generation tells      *)
(* them from the old ones, which live until their last task has gone.      *)
(***************************************************************************)
EXTENDS Naturals, Sequences, FiniteSets

CONSTANTS
  Services,
  Visitors,
  Of,         \* the service a visitor comes for
  Channels,   \* slots of the client's pool: tunnels times their ceiling
  Tunnels,
  MaxWidth,   \* MAX_STRIPES
  Attempts,   \* PAIR_ATTEMPTS
  QueueCap,   \* depth of a service's data-channel queue (CHAN_SIZE * 2)
  Slots,      \* MAX_CONCURRENT_VISITORS
  MaxFaults   \* bound: reloads of a service and tunnels that break

Nobody == 0          \* holds a gather lock that is free

ASSUME PairingAssumption ==
  /\ IsFiniteSet(Services) /\ IsFiniteSet(Visitors) /\ Of \in [Visitors -> Services]
  /\ Nobody \notin Visitors
  /\ Channels \subseteq Nat \ {0} /\ IsFiniteSet(Channels)
  /\ Tunnels \subseteq Nat \ {0} /\ IsFiniteSet(Tunnels)
  /\ MaxWidth \in Nat \ {0} /\ Attempts \in Nat \ {0} /\ QueueCap \in Nat \ {0}
  /\ Slots \in Nat \ {0} /\ MaxFaults \in Nat

Pools == Services \X (0..MaxFaults)       \* a service's pool, by generation

VARIABLES
  groups,  \* GROUP_IDS
  vis,     \* per visitor: where serve_tcp_visitor is
  lock,    \* per pool: stripe_gather
  queue,   \* per pool: data_ch_rx
  gen,     \* per service: the generation it has on the server
  handle,  \* services with a handle in the session's map
  active,  \* services that are ServiceState::Active on the client
  ctl,     \* commands on their way to the client
  ch,      \* the data channels
  tun,     \* per tunnel: "up", "undispatched" (its dispatch task ended), "down"
  bridge,  \* per tunnel: streams the dispatch has not routed yet
  routed,  \* per tunnel: the stream being handed over and the pool it goes to
  stones,  \* RegistryState::released
  faults   \* what is left of MaxFaults

visitorVars == <<groups, vis, lock>>
serverVars == <<queue, gen, handle>>
tunnelVars == <<tun, bridge, routed>>
pairVars == <<groups, vis, lock, queue, gen, handle, active, ctl, ch, tun,
          bridge, routed, stones, faults>>

NoCmd == [group |-> 0, index |-> 0, count |-> 0]
Away == [pc |-> "away", width |-> 0, gen |-> 0, group |-> 0, got |-> <<>>, tries |-> 0]

(* A slot nobody uses; a channel both ends have dropped is one again.      *)
Blank == [svc |-> "none", old |-> FALSE, tun |-> 0, cut |-> FALSE,
          server |-> "none", client |-> "none", cmd |-> NoCmd]
Settled(c) == IF c.server \in {"none", "closed"} /\ c.client \in {"none", "closed"}
              THEN Blank ELSE c

(* The ends in S are dropped.                                              *)
CloseServer(S, chs) ==
  [c \in Channels |-> IF c \in S THEN Settled([chs[c] EXCEPT !.server = "closed"]) ELSE chs[c]]
CloseClient(S, chs) ==
  [c \in Channels |-> IF c \in S THEN Settled([chs[c] EXCEPT !.client = "closed"]) ELSE chs[c]]

RangeOf(s) == {s[i] : i \in DOMAIN s}
PoolOf(v) == <<Of[v], vis[v].gen>>
Stopped(p) == p[2] # gen[p[1]] \/ p[1] \notin handle
Pairing(p) == {v \in Visitors : vis[v].pc \in {"lock", "ask", "gather"} /\ PoolOf(v) = p}

PairInit ==
  /\ groups = 0
  /\ vis = [v \in Visitors |-> Away]
  /\ lock = [p \in Pools |-> Nobody] /\ queue = [p \in Pools |-> <<>>]
  /\ gen = [s \in Services |-> 0] /\ handle = Services /\ active = Services
  /\ ctl = <<>> /\ ch = [c \in Channels |-> Blank]
  /\ tun = [t \in Tunnels |-> "up"] /\ bridge = [t \in Tunnels |-> <<>>]
  /\ routed = [t \in Tunnels |-> <<>>] /\ stones = {}
  /\ faults = MaxFaults

-----------------------------------------------------------------------------
(* A visitor on the server (run_tcp_connection_pool, serve_tcp_visitor,    *)
(* pair_striped_group).                                                    *)

At(v, where) == vis[v].pc = where

(* Accepted while the pool serves and has a pairing slot.  The plan gives  *)
(* it any width it may have grown to, and a visitor wider than one stripe  *)
(* waits for the gather lock.                                              *)
VisitorArrives(v) ==
  LET p == <<Of[v], gen[Of[v]]>>
  IN  /\ At(v, "away") /\ ~Stopped(p) /\ Cardinality(Pairing(p)) < Slots
      /\ \E w \in 1..MaxWidth :
           vis' = [vis EXCEPT ![v] = [Away EXCEPT !.pc = IF w > 1 THEN "lock" ELSE "ask",
                                                  !.width = w, !.gen = gen[Of[v]]]]
      /\ UNCHANGED <<groups, lock, serverVars, active, ctl, ch, tunnelVars,
                     stones, faults>>

TakeLock(v) ==
  /\ At(v, "lock") /\ lock[PoolOf(v)] = Nobody
  /\ lock' = [lock EXCEPT ![PoolOf(v)] = v]
  /\ vis' = [vis EXCEPT ![v].pc = "ask"]
  /\ UNCHANGED <<groups, serverVars, active, ctl, ch, tunnelVars, stones, faults>>

(* The gather lock is a guard that lives as long as the pairing.           *)
UnlockOnSuccess(v) ==
  IF vis'[v].pc = "forward" /\ lock[PoolOf(v)] = v
  THEN [lock EXCEPT ![PoolOf(v)] = Nobody] ELSE lock
Unlock(v) == IF lock[PoolOf(v)] = v THEN [lock EXCEPT ![PoolOf(v)] = Nobody] ELSE lock

(* A request names its group too, for the placement; here any tunnel will  *)
(* do.                                                                     *)
Requests(v, n) == [i \in 1..n |-> [op |-> "stripe", svc |-> Of[v], group |-> 0]]
ReleaseOf(v) == [op |-> "release", svc |-> Of[v], group |-> vis[v].group]

(* The visitor is dropped and with it the channels it gathered.            *)
Shed(v) ==
  /\ vis' = [vis EXCEPT ![v] = [Away EXCEPT !.pc = "shed"]]
  /\ ch' = CloseServer(RangeOf(vis[v].got), ch)
  /\ lock' = Unlock(v)

(* One attempt: a fresh group, one request per stripe before the first     *)
(* wait; the requests have nowhere to go once the service has stopped.     *)
NextGroupReused(v) == IF vis[v].group = 0 THEN groups + 1 ELSE vis[v].group
NextGroup(v) == groups + 1

Ask(v) ==
  LET g == NextGroup(v)
  IN  /\ At(v, "ask")
      /\ \/ /\ Stopped(PoolOf(v)) /\ Shed(v) /\ UNCHANGED <<groups, ctl>>
         \/ /\ ~Stopped(PoolOf(v))
            /\ groups' = groups + 1
            /\ ctl' = ctl \o Requests(v, vis[v].width)
            /\ vis' = [vis EXCEPT ![v].pc = "gather", ![v].group = g,
                                  ![v].got = <<>>, ![v].tries = 0]
            /\ UNCHANGED <<lock, ch>>
      /\ UNCHANGED <<serverVars, active, tunnelVars, stones, faults>>

(* A channel from the queue is labelled with the group and the next index; *)
(* the last one starts the forwarding.  A write to a channel whose tunnel  *)
(* broke may still be buffered.                                            *)
Label(v, c) ==
  LET n == Len(vis[v].got)
  IN  /\ ch' = [ch EXCEPT ![c].server = "held",
                          ![c].cmd = [group |-> vis[v].group, index |-> n,
                                      count |-> vis[v].width]]
      /\ vis' = [vis EXCEPT ![v] =
           IF n + 1 = vis[v].width
           THEN [Away EXCEPT !.pc = "forward", !.group = vis[v].group,
                             !.got = Append(vis[v].got, c)]
           ELSE [vis[v] EXCEPT !.got = Append(vis[v].got, c)]]
      /\ lock' = IF n + 1 = vis[v].width THEN Unlock(v) ELSE lock
      /\ UNCHANGED ctl

(* It broke: the attempt is released and gathered anew.                    *)
Regather(v, c) ==
  /\ ch[c].cut
  /\ ch' = CloseServer({c} \cup RangeOf(vis[v].got), ch)
  /\ vis' = [vis EXCEPT ![v].got = <<>>, ![v].pc = "ask"]
  /\ ctl' = Append(ctl, ReleaseOf(v))
  /\ UNCHANGED lock

TakeChannel(v) ==
  LET p == PoolOf(v)
  IN  /\ At(v, "gather") /\ queue[p] # <<>>
      /\ queue' = [queue EXCEPT ![p] = Tail(@)]
      /\ Label(v, Head(queue[p])) \/ Regather(v, Head(queue[p]))
      /\ UNCHANGED <<groups, gen, handle, active, tunnelVars, stones, faults>>

(* PAIR_WAIT_BUDGET passed: what is missing is asked for again, and after  *)
(* PAIR_ATTEMPTS of them the visitor is dropped and its group released.    *)
LastTryLate(v) == vis[v].tries > Attempts
LastTry(v) == vis[v].tries + 1 >= Attempts

Timeout(v) ==
  /\ At(v, "gather")
  /\ \/ /\ LastTry(v) /\ Shed(v)
        /\ ctl' = IF Stopped(PoolOf(v)) THEN ctl ELSE Append(ctl, ReleaseOf(v))
     \/ /\ ~LastTry(v) /\ ~Stopped(PoolOf(v))
        /\ ctl' = ctl \o Requests(v, vis[v].width - Len(vis[v].got))
        /\ vis' = [vis EXCEPT ![v].tries = @ + 1] /\ UNCHANGED <<lock, ch>>
  /\ UNCHANGED <<groups, serverVars, active, tunnelVars, stones, faults>>

(* The service's shutdown, or its control channel's end, cuts the wait.    *)
PoolGone(v) ==
  /\ At(v, "gather") /\ Stopped(PoolOf(v)) /\ Shed(v)
  /\ UNCHANGED <<groups, serverVars, active, ctl, tunnelVars, stones, faults>>

(* The group ends, on either side's account.                               *)
Leave(v) ==
  /\ At(v, "forward")
  /\ vis' = [vis EXCEPT ![v].pc = "gone"]
  /\ ch' = CloseServer(RangeOf(vis[v].got), ch)
  /\ UNCHANGED <<groups, lock, serverVars, active, ctl, tunnelVars, stones, faults>>

-----------------------------------------------------------------------------
(* The client.                                                             *)

Free == {c \in Channels : ch[c] = Blank}
LeastOf(S) == CHOOSE c \in S : \A d \in S : c <= d
Parked(s) == {c \in Channels : ch[c].client = "parked" /\ ch[c].svc = s}
OfGroup(g) == {c \in Channels : ch[c].client = "parked" /\ ch[c].cmd.group = g}

(* open_stripe_channel and run_mux_data_channel: a stream is opened on a   *)
(* tunnel and names its service, and its task waits for the server's       *)
(* command.  Streams carry no label yet, so one that takes its time is as  *)
(* good as one whose request does.                                         *)
Opens(c, t) ==
  /\ tun[t] = "up"
  /\ bridge' = [bridge EXCEPT ![t] = Append(@, c)]
  /\ ch' = [ch EXCEPT ![c] = [Blank EXCEPT !.svc = Head(ctl).svc, !.tun = t,
                                          !.client = "waiting", !.server = "bridge"]]
  /\ UNCHANGED tun

(* The driver of a tunnel without a dispatch task cannot hand the stream   *)
(* over and ends, and every stream of the tunnel with it.                  *)
Sever(t, chs) ==
  [c \in Channels |-> IF chs[c].tun = t THEN [chs[c] EXCEPT !.cut = TRUE] ELSE chs[c]]
Collapses(t) ==
  /\ tun[t] = "undispatched" /\ tun' = [tun EXCEPT ![t] = "down"]
  /\ ch' = Sever(t, ch) /\ UNCHANGED bridge

(* Nothing is opened, and nothing answered, for a service that is not      *)
(* active, by a pool at its capacity or without a tunnel.                  *)
Unanswered == Head(ctl).svc \notin active \/ Free = {} \/ \A t \in Tunnels : tun[t] = "down"

TakeRequest ==
  /\ ctl # <<>> /\ Head(ctl).op = "stripe" /\ ctl' = Tail(ctl)
  /\ IF Unanswered THEN UNCHANGED <<ch, tun, bridge>>
     ELSE \E t \in Tunnels : Opens(LeastOf(Free), t) \/ Collapses(t)
  /\ UNCHANGED <<visitorVars, serverVars, active, routed, stones, faults>>

(* release_stripe_group: the parked stripes are dropped, the group's id    *)
(* is remembered for those still on their way, and a tombstone nothing is  *)
(* on its way to has passed its TTL.                                       *)
OnTheWay(g) == \/ \E c \in Channels : ch'[c].client = "waiting" /\ ch'[c].cmd.group = g
               \/ \E v \in Visitors : vis'[v].group = g /\ vis'[v].pc = "gather"
(* Mutant: a released group leaves no tombstone.                           *)
BuryNothing(g) == stones
Bury(g) == stones \cup {g}

TakeRelease ==
  /\ ctl # <<>> /\ Head(ctl).op = "release" /\ ctl' = Tail(ctl)
  /\ UNCHANGED visitorVars
  /\ IF Head(ctl).svc \in active
     THEN /\ ch' = CloseClient({c \in OfGroup(Head(ctl).group) : ~ch[c].old}, ch)
          /\ stones' = {g \in Bury(Head(ctl).group) : OnTheWay(g)}
     ELSE UNCHANGED <<stones, ch>>
  /\ UNCHANGED <<serverVars, active, tunnelVars, faults>>

(* StripeGroups::register.  Groups the server no longer gathers may have   *)
(* passed their TTL.                                                       *)
Gathered(g) == \E v \in Visitors : vis[v].group = g /\ vis[v].pc \in {"gather", "forward"}
Stale == {c \in Channels : ch[c].client = "parked" /\ ~Gathered(ch[c].cmd.group)}

Register(c, chs) ==
  LET m == ch[c].cmd
      mates == {d \in Channels : chs[d].client = "parked" /\ chs[d].cmd.group = m.group
                                   /\ chs[d].old = chs[c].old}
  IN  \/ /\ \/ m.group \in stones /\ ~chs[c].old
            \/ \E d \in mates : chs[d].cmd.index = m.index \/ chs[d].cmd.count # m.count
         /\ ch' = CloseClient({c}, chs)
      \/ /\ m.group \notin stones \/ chs[c].old
         /\ \A d \in mates : chs[d].cmd.index # m.index /\ chs[d].cmd.count = m.count
         /\ IF Cardinality(mates) + 1 = m.count
            THEN \/ ch' = [d \in Channels |-> IF d \in mates \cup {c}
                                              THEN [chs[d] EXCEPT !.client = "forward"]
                                              ELSE chs[d]]
                 \/ ch' = CloseClient(mates \cup {c}, chs)     \* the local dial fails
            ELSE ch' = [chs EXCEPT ![c].client = "parked"]

ReadCommand(c) ==
  /\ ch[c].client = "waiting" /\ ch[c].cmd # NoCmd
  /\ \E late \in {{}, {d \in Stale : ch[d].svc = ch[c].svc /\ ch[d].old = ch[c].old}} :
       Register(c, CloseClient(late, ch))
  /\ UNCHANGED visitorVars /\ stones' = {g \in stones : OnTheWay(g)}
  /\ UNCHANGED <<serverVars, active, ctl, tunnelVars, faults>>

(* The stream ends before a command comes, or its end overtakes it.        *)
ReadEof(c) ==
  /\ ch[c].client = "waiting" /\ (ch[c].cut \/ ch[c].server = "closed")
  /\ ch' = CloseClient({c}, ch)
  /\ UNCHANGED <<visitorVars, serverVars, active, ctl, tunnelVars, stones, faults>>

(* The forwarding notices that the other side is gone.                     *)
ForwardEnds(c) ==
  /\ ch[c].client = "forward" /\ (ch[c].cut \/ ch[c].server = "closed")
  /\ ch' = CloseClient({d \in Channels : ch[d].client = "forward"
                                           /\ ch[d].cmd.group = ch[c].cmd.group}, ch)
  /\ UNCHANGED <<visitorVars, serverVars, active, ctl, tunnelVars, stones, faults>>

(* The registry of a previous activation goes with the last task that      *)
(* holds its arguments, and what is parked in it with the registry.        *)
DropRegistry(s) ==
  LET old == {c \in Parked(s) : ch[c].old}
  IN  /\ old # {}
      /\ \A c \in Channels : ch[c].svc = s /\ ch[c].old => ch[c].client # "waiting"
      /\ ch' = CloseClient(old, ch)
      /\ UNCHANGED <<visitorVars, serverVars, active, ctl, tunnelVars, stones, faults>>

-----------------------------------------------------------------------------
(* Tunnels and their dispatch tasks (upgrade_to_tunnel).                   *)

(* route_tunnel_stream: the queue of the service the stream names, or the  *)
(* stream is dropped.                                                      *)
Route(t) ==
  LET c == Head(bridge[t])
      s == ch[c].svc
  IN  /\ tun[t] = "up" /\ routed[t] = <<>> /\ bridge[t] # <<>>
      /\ bridge' = [bridge EXCEPT ![t] = Tail(@)]
      /\ \/ s \in handle /\ routed' = [routed EXCEPT ![t] = <<c, <<s, gen[s]>>>>] /\ UNCHANGED ch
         \/ s \notin handle /\ ch' = CloseServer({c}, ch) /\ UNCHANGED routed
  /\ UNCHANGED <<visitorVars, serverVars, active, ctl, tun, stones, faults>>

QueueClosed(p) == Stopped(p) /\ Pairing(p) = {}

Enqueue(t) ==
  LET c == routed[t][1]
      p == routed[t][2]
  IN  /\ tun[t] = "up" /\ routed[t] # <<>>
      /\ ~QueueClosed(p) /\ Len(queue[p]) < QueueCap
      /\ queue' = [queue EXCEPT ![p] = Append(@, c)]
      /\ ch' = [ch EXCEPT ![c].server = "queue"]
      /\ routed' = [routed EXCEPT ![t] = <<>>]
  /\ UNCHANGED <<visitorVars, gen, handle, active, ctl, tun, bridge, stones, faults>>

(* The queue was closed in between: the dispatch task ends, for every      *)
(* service of the tunnel.                                                  *)
EndDispatch(t) ==
  /\ tun[t] = "up" /\ routed[t] # <<>> /\ QueueClosed(routed[t][2])
  /\ tun' = [tun EXCEPT ![t] = "undispatched"]
  /\ ch' = CloseServer({routed[t][1]} \cup RangeOf(bridge[t]), ch)
  /\ bridge' = [bridge EXCEPT ![t] = <<>>] /\ routed' = [routed EXCEPT ![t] = <<>>]
  /\ UNCHANGED <<visitorVars, serverVars, active, ctl, stones, faults>>

CutTunnel(t) ==
  /\ faults > 0 /\ faults' = faults - 1
  /\ tun[t] # "down" /\ tun' = [tun EXCEPT ![t] = "down"]
  /\ ch' = CloseServer(RangeOf(bridge[t]) \cup (IF routed[t] = <<>> THEN {} ELSE {routed[t][1]}),
                       Sever(t, ch))
  /\ bridge' = [bridge EXCEPT ![t] = <<>>] /\ routed' = [routed EXCEPT ![t] = <<>>]
  /\ UNCHANGED <<visitorVars, serverVars, active, ctl, stones>>

Redial(t) ==
  /\ tun[t] = "down" /\ tun' = [tun EXCEPT ![t] = "up"]
  /\ UNCHANGED <<visitorVars, serverVars, active, ctl, ch, bridge, routed, stones, faults>>

-----------------------------------------------------------------------------
(* A reload (ControlSession): the client forgets the active service, the   *)
(* server stops its pool, and both start anew.                             *)

BeginReload(s) ==
  /\ s \in active /\ faults > 0 /\ faults' = faults - 1
  /\ active' = active \ {s}
  /\ ch' = [c \in Channels |-> IF ch[c].svc = s THEN [ch[c] EXCEPT !.old = TRUE] ELSE ch[c]]
  /\ UNCHANGED <<visitorVars, serverVars, ctl, tunnelVars, stones>>

StopPool(s) ==
  /\ s \notin active /\ s \in handle /\ handle' = handle \ {s}
  /\ UNCHANGED <<visitorVars, queue, gen, active, ctl, ch, tunnelVars, stones, faults>>

StartPool(s) ==
  /\ s \notin active /\ s \notin handle
  /\ handle' = handle \cup {s} /\ active' = active \cup {s}
  /\ gen' = [gen EXCEPT ![s] = @ + 1]
  /\ UNCHANGED <<visitorVars, queue, ctl, ch, tunnelVars, stones, faults>>

(* The queue of a pool goes with the last task that reads it.              *)
DropQueue(p) ==
  /\ queue[p] # <<>> /\ QueueClosed(p)
  /\ queue' = [queue EXCEPT ![p] = <<>>]
  /\ ch' = CloseServer(RangeOf(queue[p]), ch)
  /\ UNCHANGED <<visitorVars, gen, handle, active, ctl, tunnelVars, stones, faults>>

-----------------------------------------------------------------------------
Visitor(v) == TakeLock(v) \/ Ask(v) \/ TakeChannel(v) \/ Timeout(v) \/ PoolGone(v)
Client == TakeRequest \/ TakeRelease
Channel(c) == ReadCommand(c) \/ ReadEof(c) \/ ForwardEnds(c)
Dispatch(t) == Route(t) \/ Enqueue(t) \/ EndDispatch(t)
Restart(s) == StopPool(s) \/ StartPool(s)

PairNext ==
  \/ \E v \in Visitors : Visitor(v) \/ VisitorArrives(v) \/ Leave(v)
  \/ Client
  \/ \E c \in Channels : Channel(c)
  \/ \E t \in Tunnels : Dispatch(t) \/ Redial(t) \/ CutTunnel(t)
  \/ \E s \in Services : Restart(s) \/ BeginReload(s) \/ DropRegistry(s)
  \/ \E p \in Pools : DropQueue(p)

PairSpec == PairInit /\ [][PairNext]_pairVars

(* Every task is scheduled and every timer fires.  Nothing is assumed of   *)
(* visitors arriving or leaving, of reloads and of tunnels breaking.       *)
PairTask ==
  \/ Client \/ (\E v \in Visitors : Visitor(v)) \/ (\E c \in Channels : Channel(c))
  \/ \E t \in Tunnels : Dispatch(t) \/ Redial(t)
  \/ \E s \in Services : Restart(s) \/ DropRegistry(s)
  \/ \E p \in Pools : DropQueue(p)
PairLive == PairSpec /\ WF_pairVars(PairTask)

-----------------------------------------------------------------------------
Commands == [op : {"stripe", "release"}, svc : Services, group : Nat]
ChannelTypes ==
  [svc : Services \cup {"none"}, old : BOOLEAN, tun : Tunnels \cup {0}, cut : BOOLEAN,
   server : {"none", "bridge", "queue", "held", "closed"},
   client : {"none", "waiting", "parked", "forward", "closed"},
   cmd : [group : Nat, index : 0..(MaxWidth - 1), count : 0..MaxWidth]]

(* The variables hold what the code's types allow; in particular an index  *)
(* is below its group's count, and a visitor has tries left.               *)
PairingTypeOK ==
  /\ groups \in Nat /\ stones \subseteq Nat
  /\ vis \in [Visitors -> [pc : {"away", "lock", "ask", "gather", "forward", "shed", "gone"},
                           width : 0..MaxWidth, gen : 0..MaxFaults, group : Nat,
                           got : Seq(Channels), tries : 0..(Attempts - 1)]]
  /\ lock \in [Pools -> Visitors \cup {Nobody}]
  /\ queue \in [Pools -> Seq(Channels)] /\ gen \in [Services -> 0..MaxFaults]
  /\ handle \subseteq Services /\ active \subseteq Services
  /\ ctl \in Seq(Commands) /\ ch \in [Channels -> ChannelTypes]
  /\ tun \in [Tunnels -> {"up", "undispatched", "down"}]
  /\ bridge \in [Tunnels -> Seq(Channels)]
  /\ \A t \in Tunnels : routed[t] = <<>> \/ routed[t] \in Channels \X Pools
  /\ faults \in 0..MaxFaults

(* Both sides of a group agree: the client connects a group to its local   *)
(* service only for a visitor of that service that was paired with exactly *)
(* those channels, each under the index both sides number it by, whatever  *)
(* was gathered, broken, released and asked for again before.              *)
GroupsAgree ==
  \A c \in Channels :
    ch[c].client = "forward" =>
      \E v \in Visitors :
        /\ vis[v].pc \in {"forward", "gone"} /\ vis[v].group = ch[c].cmd.group
        /\ Of[v] = ch[c].svc /\ vis[v].got[ch[c].cmd.index + 1] = c

(* One visitor's pairing costs that visitor and nothing else: every        *)
(* accepted visitor is forwarded or dropped, although requests may go      *)
(* unanswered, channels break and other visitors hold the gather lock.     *)
VisitorSettles ==
  []<>(\A v \in Visitors : vis[v].pc \notin {"lock", "ask", "gather"})

(* A stripe left parked for the registry's TTL: its group was forwarded on *)
(* the server and a command of it never reached the client, or the service *)
(* was reloaded during the gather, which ends an attempt without a release *)
(* (and the old registry stays as long as one of its channels waits in the *)
(* new pool's queue).                                                      *)
Stranded(c) ==
  /\ ch[c].client = "parked"
  /\ \/ ch[c].old
     \/ \E v \in Visitors : vis[v].group = ch[c].cmd.group /\ vis[v].pc \in {"forward", "gone"}

(* A channel the server has dropped is a free slot of the client's pool    *)
(* again: an attempt that ends without forwarding releases its group, and  *)
(* what is still on its way when the release comes does not park again.    *)
SlotReturns ==
  []<>(\A c \in Channels :
         ch[c].server # "closed" \/ Stranded(c))

(* The safety of the pairing: types, and both sides mean the same channels *)
(* by the same group.                                                      *)
PairingSafe == PairingTypeOK /\ GroupsAgree

(* Every visitor is forwarded or dropped, and its channels come back.      *)
VisitorsServed == VisitorSettles /\ SlotReturns
=============================================================================
