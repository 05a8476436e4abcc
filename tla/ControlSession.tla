--------------------------- MODULE ControlSession ---------------------------
(***************************************************************************)
(* One control session: a client session task (core/client.rs,             *)
(* ClientSession) that connects, registers the services of its endpoint    *)
(* one verdict at a time, re-registers what the server drops and           *)
(* reconnects for ever; and the server's session handlers (core/server.rs, *)
(* do_session_handshake, SessionCtx), one per connection, each busy with   *)
(* one command at a time, binding public endpoints and owning the pools    *)
(* that serve them.  A pool ends asynchronously: a handle is shut down at  *)
(* one moment and its listener is released at a later one.                 *)
(*                                                                         *)
(* Data channels, lanes and heartbeats are left out of the messages; what  *)
(* is kept is everything that decides which endpoints are held and what    *)
(* the client believes about them.                                         *)
(***************************************************************************)
EXTENDS Naturals, Sequences, FiniteSets

CONSTANTS
  Names,        \* the services a configuration may name
  Ids,          \* the session's service ids, never reused (next_id)
  NameOf,       \* the service an id was given to
  Transparent,  \* services that claim an address instead of binding a port
  Refused,      \* services the server's policy refuses (allow_ports, ...)
  Faults,       \* the kinds of fault that may happen
  MaxEdits,     \* bound: changes of the configuration
  MaxFaults     \* bound: faults, of any kind

FaultKinds == {"cut", "silence", "death", "activation", "stop"}

ASSUME SessionAssumption ==
  /\ Ids \subseteq Nat \ {0} /\ IsFiniteSet(Ids)
  /\ NameOf \in [Ids -> Names] /\ \A s \in Names : \E id \in Ids : NameOf[id] = s
  /\ Transparent \subseteq Names /\ Refused \subseteq Names
  /\ Faults \subseteq FaultKinds
  /\ MaxEdits \in Nat /\ MaxFaults \in Nat

(* Enough connections for every fault, so that the bound never keeps the   *)
(* client from a reconnect it would make.                                  *)
Conns == 1..(MaxFaults + 1)

VARIABLES
  loc,        \* Client::services: the id of every configured service, 0 if none
  fresh,      \* ids not given out yet (SessionEntry::next_id)
  requests,   \* the session's request channel (req_rx)
  shutdown,   \* the session was told to stop (shutdown_tx)
  cpc,        \* where the session task is
  entry,      \* ClientSession::services: the state of every id
  todo,       \* ids the reconnect sweep still has to register
  drops,      \* ClientSession::pending_drops
  cur,        \* the id whose verdict is awaited
  conn,       \* the connection in use, 0 before the first
  link,       \* per connection: up, closed, or silent (half-open)
  toServer,   \* per connection: SessionCmds not read yet
  toClient,   \* per connection: the writer's queue and what is on the wire
  spc,        \* per connection: where its handler is
  reg,        \* per connection: the registration being served
  registered, \* connections with an entry in Registry::sessions
  handles,    \* per connection: SessionHandle::services
  port,       \* per service: who holds its public endpoint
  edits,      \* what is left of MaxEdits
  faults      \* what is left of MaxFaults

clientVars == <<cpc, entry, todo, drops, cur, conn>>
configVars == <<loc, fresh, requests, shutdown>>
serverVars == <<spc, reg, registered, handles, port>>
vars == <<loc, fresh, requests, shutdown, cpc, entry, todo, drops, cur, conn,
          link, toServer, toClient, spc, reg, registered, handles, port,
          edits, faults>>

Edit == edits > 0 /\ edits' = edits - 1 /\ UNCHANGED faults
Fault(k) == k \in Faults /\ faults > 0 /\ faults' = faults - 1 /\ UNCHANGED edits

Free == [conn |-> 0, id |-> 0, stopping |-> FALSE]
Holder(n, id) == [conn |-> n, id |-> id, stopping |-> FALSE]
Req(op, id) == [op |-> op, id |-> id]
Least(S) == CHOOSE i \in S : \A j \in S : i <= j

(* The client starts every configured service: its first ids are handed    *)
(* out and their registrations are queued before the session connects.     *)
FirstIds == {id \in Ids : \A j \in Ids : NameOf[j] = NameOf[id] => id <= j}

Init ==
  /\ loc = [s \in Names |-> Least({id \in Ids : NameOf[id] = s})]
  /\ fresh = Ids \ FirstIds
  /\ requests \in {q \in [1..Cardinality(FirstIds) -> {Req("register", id) : id \in FirstIds}] :
                     \A i, j \in DOMAIN q : i < j => q[i].id < q[j].id}
  /\ shutdown = FALSE
  /\ cpc = "connect"
  /\ entry = [id \in Ids |-> "absent"]
  /\ todo = {} /\ drops = <<>> /\ cur = 0 /\ conn = 0
  /\ link = [n \in Conns |-> "none"]
  /\ toServer = [n \in Conns |-> <<>>] /\ toClient = [n \in Conns |-> <<>>]
  /\ spc = [n \in Conns |-> "none"]
  /\ reg = [n \in Conns |-> 0]
  /\ registered = {}
  /\ handles = [n \in Conns |-> {}]
  /\ port = [s \in Names |-> Free]
  /\ edits = MaxEdits /\ faults = MaxFaults

-----------------------------------------------------------------------------
(* The client: configuration changes.                                      *)

(* A service was added, or its block changed: a service that runs keeps    *)
(* its id, another one gets a fresh id.                                    *)
AddService(s) ==
  /\ ~shutdown /\ Edit
  /\ \E id \in IF loc[s] # 0 THEN {loc[s]} ELSE {i \in fresh : NameOf[i] = s} :
       /\ loc' = [loc EXCEPT ![s] = id]
       /\ fresh' = fresh \ {id}
       /\ requests' = Append(requests, Req("register", id))
  /\ UNCHANGED <<shutdown, link, toServer, toClient>>
  /\ UNCHANGED clientVars /\ UNCHANGED serverVars

(* A service was removed; a session no service dials any more is stopped.  *)
DeleteService(s) ==
  /\ loc[s] # 0 /\ Edit
  /\ requests' = Append(requests, Req("deregister", loc[s]))
  /\ loc' = [loc EXCEPT ![s] = 0]
  /\ shutdown' = \A t \in Names : loc'[t] = 0
  /\ UNCHANGED <<fresh, link, toServer, toClient>>
  /\ UNCHANGED clientVars /\ UNCHANGED serverVars

-----------------------------------------------------------------------------
(* The client: the session task.                                           *)

(* A write on a connection that is gone is lost.                           *)
Send(m) ==
  toServer' = [toServer EXCEPT ![conn] = IF link[conn] = "up" THEN Append(@, m) ELSE @]

(* The connection is up and the session authenticated: the handler has     *)
(* published the session before it reads a command.                        *)
Connect ==
  /\ cpc = "connect" /\ conn + 1 \in Conns
  /\ conn' = conn + 1
  /\ link' = [link EXCEPT ![conn + 1] = "up"]
  /\ spc' = [spc EXCEPT ![conn + 1] = "serve"]
  /\ registered' = registered \cup {conn + 1}
  /\ cpc' = "resume"
  /\ UNCHANGED <<entry, todo, drops, cur, toServer, toClient, reg, handles, port, edits, faults>>
  /\ UNCHANGED configVars

(* The connection ended before the hello was answered: every read error    *)
(* there is taken for an older server, which ends the session for good.    *)
HelloUnanswered ==
  /\ cpc = "connect" /\ Fault("cut")
  /\ cpc' = "dead"
  /\ UNCHANGED <<entry, todo, drops, cur, conn, link, toServer, toClient>>
  /\ UNCHANGED configVars /\ UNCHANGED serverVars

(* What the requests queued while the session was away leave of `e`.       *)
Applied(e) ==
  [id \in Ids |->
     LET mine == {i \in DOMAIN requests : requests[i].id = id}
     IN  IF mine = {} THEN e[id]
         ELSE LET last == CHOOSE i \in mine : \A j \in mine : j <= i
              IN  IF requests[last].op = "register" THEN "registering" ELSE "absent"]

(* Faulty variant: a service that was active is not registered again.      *)
ReregisteringNothing(e) == e

(* apply_pending_requests, then services_to_reregister: every service the  *)
(* server has not refused goes back to Registering.                        *)
Reregistering(e) == [id \in Ids |-> IF e[id] = "active" THEN "registering" ELSE e[id]]

Resume ==
  /\ cpc = "resume"
  /\ entry' = Reregistering(Applied(entry))
  /\ todo' = {id \in Ids : entry'[id] = "registering"}
  /\ requests' = <<>>
  /\ cpc' = IF todo' = {} THEN "loop" ELSE "sweep"
  /\ UNCHANGED <<loc, fresh, shutdown, drops, cur, conn, link, toServer, toClient, edits, faults>>
  /\ UNCHANGED serverVars

(* One `register`: the command goes out and the verdict is waited for.     *)
Register(id) ==
  /\ Send(Req("register", id))
  /\ cur' = id
  /\ cpc' = "await"

Sweep ==
  /\ cpc = "sweep"
  /\ Register(Least(todo))
  /\ todo' = todo \ {Least(todo)}
  /\ UNCHANGED <<entry, drops, conn, link, toClient, edits, faults>>
  /\ UNCHANGED configVars /\ UNCHANGED serverVars

(* After a registration: the drops put aside meanwhile, the rest of the    *)
(* sweep, the session loop.  (The faulty variant forgets the sweep.)       *)
OnwardToLoop(d) == IF d # <<>> THEN "drain" ELSE "loop"
Onward(d) == IF d # <<>> THEN "drain" ELSE IF todo # {} THEN "sweep" ELSE "loop"

(* The next message of the connection, read by the session task.           *)
Reading(states) ==
  /\ cpc \in states /\ link[conn] \in {"up", "closed"} /\ toClient[conn] # <<>>
  /\ toClient' = [toClient EXCEPT ![conn] = Tail(@)]
NextMessage == Head(toClient[conn])

(* Faulty variant: the dropped service is registered from inside the wait. *)
AwaitNested ==
  /\ Reading({"await"}) /\ NextMessage.op = "dropped"
  /\ Register(NextMessage.id)
  /\ UNCHANGED <<entry, todo, drops, conn, link, edits, faults>>
  /\ UNCHANGED configVars /\ UNCHANGED serverVars

(* await_verdict: a ServiceDropped is put aside.                           *)
AwaitDropped ==
  /\ Reading({"await"}) /\ NextMessage.op = "dropped"
  /\ drops' = Append(drops, NextMessage.id)
  /\ UNCHANGED <<cpc, entry, todo, cur, conn, link, toServer, edits, faults>>
  /\ UNCHANGED configVars /\ UNCHANGED serverVars

VerdictOk ==
  /\ Reading({"await"}) /\ NextMessage.op = "ok"
  /\ cpc' = "activate"
  /\ UNCHANGED <<entry, todo, drops, cur, conn, link, toServer, edits, faults>>
  /\ UNCHANGED configVars /\ UNCHANGED serverVars

VerdictRejected ==
  /\ Reading({"await"}) /\ NextMessage.op = "rejected"
  /\ entry' = [entry EXCEPT ![cur] = "rejected"]
  /\ cpc' = Onward(drops) /\ cur' = 0
  /\ UNCHANGED <<todo, drops, conn, link, toServer, edits, faults>>
  /\ UNCHANGED configVars /\ UNCHANGED serverVars

(* activate: the data endpoint is resolved and the tunnel pool joined.     *)
Activate ==
  /\ cpc = "activate"
  /\ entry' = [entry EXCEPT ![cur] = "active"]
  /\ cpc' = Onward(drops) /\ cur' = 0
  /\ UNCHANGED <<todo, drops, conn, link, toServer, toClient, edits, faults>>
  /\ UNCHANGED configVars /\ UNCHANGED serverVars

(* `run` returns and lets go of the connection and of what it read from it *)
(* ahead of time; the requests, the entries and the drops put aside stay.  *)
RunEnds ==
  /\ link' = [link EXCEPT ![conn] = IF @ = "up" THEN "closed" ELSE @]
  /\ toClient' = [toClient EXCEPT ![conn] = <<>>]
  /\ cur' = 0 /\ todo' = {}

(* drive: an error of `run` ends the session when it was told to stop,     *)
(* and starts the next connection otherwise.                               *)
RunFails == RunEnds /\ cpc' = IF shutdown THEN "over" ELSE "connect"

(* A data endpoint that does not resolve, or a tunnel pool that cannot be  *)
(* established, is an error of the whole run; the entry was taken out of   *)
(* the map before.                                                         *)
ActivateFails ==
  /\ cpc = "activate" /\ Fault("activation")
  /\ entry' = [entry EXCEPT ![cur] = "absent"]
  /\ RunFails
  /\ UNCHANGED <<drops, conn, toServer>>
  /\ UNCHANGED configVars /\ UNCHANGED serverVars

(* drain_dropped: the last id put aside is registered again.               *)
LastDrop == drops[Len(drops)]
PopDrop == drops' = SubSeq(drops, 1, Len(drops) - 1)

DrainRegister ==
  /\ cpc = "drain" /\ entry[LastDrop] \notin {"absent", "rejected"}
  /\ PopDrop
  /\ entry' = [entry EXCEPT ![LastDrop] = "registering"]
  /\ Register(LastDrop)
  /\ UNCHANGED <<todo, conn, link, toClient, edits, faults>>
  /\ UNCHANGED configVars /\ UNCHANGED serverVars

DrainSkip ==
  /\ cpc = "drain" /\ entry[LastDrop] \in {"absent", "rejected"}
  /\ PopDrop
  /\ cpc' = Onward(drops')
  /\ UNCHANGED <<entry, todo, cur, conn, link, toServer, toClient, edits, faults>>
  /\ UNCHANGED configVars /\ UNCHANGED serverVars

(* The session loop.                                                       *)
LoopDropped ==
  /\ Reading({"loop"}) /\ NextMessage.op = "dropped"
  /\ drops' = Append(drops, NextMessage.id)
  /\ cpc' = "drain"
  /\ UNCHANGED <<entry, todo, cur, conn, link, toServer, edits, faults>>
  /\ UNCHANGED configVars /\ UNCHANGED serverVars

TakeRegister ==
  /\ cpc = "loop" /\ requests # <<>> /\ Head(requests).op = "register"
  /\ requests' = Tail(requests)
  /\ entry' = [entry EXCEPT ![Head(requests).id] = "registering"]
  /\ Register(Head(requests).id)
  /\ UNCHANGED <<loc, fresh, shutdown, todo, drops, conn, link, toClient, edits, faults>>
  /\ UNCHANGED serverVars

(* Faulty variant: the entry goes, the server is not told.                 *)
TakeDeregisterQuietly ==
  /\ cpc = "loop" /\ requests # <<>> /\ Head(requests).op = "deregister"
  /\ requests' = Tail(requests)
  /\ entry' = [entry EXCEPT ![Head(requests).id] = "absent"]
  /\ UNCHANGED <<loc, fresh, shutdown, cpc, todo, drops, cur, conn, link, toServer,
                 toClient, edits, faults>>
  /\ UNCHANGED serverVars

TakeDeregister ==
  /\ cpc = "loop" /\ requests # <<>> /\ Head(requests).op = "deregister"
  /\ requests' = Tail(requests)
  /\ entry' = [entry EXCEPT ![Head(requests).id] = "absent"]
  /\ IF entry[Head(requests).id] # "absent" THEN Send(Head(requests))
     ELSE UNCHANGED toServer
  /\ UNCHANGED <<loc, fresh, shutdown, cpc, todo, drops, cur, conn, link, toClient, edits, faults>>
  /\ UNCHANGED serverVars

TakeShutdown ==
  /\ cpc = "loop" /\ shutdown
  /\ cpc' = "over" /\ RunEnds
  /\ UNCHANGED <<entry, drops, conn, toServer, edits, faults>>
  /\ UNCHANGED configVars /\ UNCHANGED serverVars

(* A read or a write fails, the heartbeat or the TCP keepalive expires.    *)
LosesConnection ==
  /\ cpc \in {"loop", "await"} /\ link[conn] # "up"
  /\ RunFails
  /\ UNCHANGED <<entry, drops, conn, toServer, edits, faults>>
  /\ UNCHANGED configVars /\ UNCHANGED serverVars

-----------------------------------------------------------------------------
(* The network.                                                            *)

(* The connection is reset: both ends will see it at once.                 *)
Cut ==
  /\ conn # 0 /\ link[conn] = "up" /\ Fault("cut")
  /\ link' = [link EXCEPT ![conn] = "closed"]
  /\ UNCHANGED <<toServer, toClient>>
  /\ UNCHANGED clientVars /\ UNCHANGED configVars /\ UNCHANGED serverVars

(* The path goes quiet: nothing arrives any more, nobody is told.          *)
FallSilent ==
  /\ conn # 0 /\ link[conn] = "up" /\ Fault("silence")
  /\ link' = [link EXCEPT ![conn] = "silent"]
  /\ UNCHANGED <<toServer, toClient>>
  /\ UNCHANGED clientVars /\ UNCHANGED configVars /\ UNCHANGED serverVars

-----------------------------------------------------------------------------
(* The server: one session handler per connection.                         *)

(* A handle that is shut down: its pool releases the endpoint later.       *)
Stopping(n, S) ==
  [s \in Names |-> IF port[s].conn = n /\ port[s].id \in S
                   THEN [port[s] EXCEPT !.stopping = TRUE] ELSE port[s]]

ServerReads(n) ==
  /\ spc[n] = "serve" /\ link[n] \in {"up", "closed"} /\ toServer[n] # <<>>
  /\ toServer' = [toServer EXCEPT ![n] = Tail(@)]

(* The takeover: a handle the session already has under this id is shut    *)
(* down before the endpoint is bound again.                                *)
Takeover(n, id) ==
  /\ handles' = [handles EXCEPT ![n] = @ \ {id}]
  /\ port' = Stopping(n, handles[n] \cap {id})

ServeRegister(n) ==
  /\ ServerReads(n) /\ Head(toServer[n]).op = "register"
  /\ Takeover(n, Head(toServer[n]).id)
  /\ reg' = [reg EXCEPT ![n] = Head(toServer[n]).id]
  /\ spc' = [spc EXCEPT ![n] = "bind"]
  /\ UNCHANGED <<registered, link, toClient, edits, faults>>
  /\ UNCHANGED clientVars /\ UNCHANGED configVars

ServeDeregister(n) ==
  /\ ServerReads(n) /\ Head(toServer[n]).op = "deregister"
  /\ Takeover(n, Head(toServer[n]).id)
  /\ UNCHANGED <<spc, reg, registered, link, toClient, edits, faults>>
  /\ UNCHANGED clientVars /\ UNCHANGED configVars

Tell(n, m) ==
  toClient' = [toClient EXCEPT ![n] = IF link[n] = "up" THEN Append(@, m) ELSE @]

(* send_ack: an error when the session has left the registry.              *)
Ack(n, op, then) ==
  IF n \in registered
  THEN /\ Tell(n, Req(op, reg[n]))
       /\ spc' = [spc EXCEPT ![n] = then]
  ELSE /\ spc' = [spc EXCEPT ![n] = "failed"]
       /\ UNCHANGED toClient

(* bind_with_retry gives the previous teardown five seconds.  They pass    *)
(* only on an endpoint nobody is about to release: its holder is neither   *)
(* stopping, nor owned by a handler that has its end to read and is not    *)
(* itself waiting in a bind.                                               *)
HolderStays(h) ==
  /\ h # Free /\ ~h.stopping
  /\ h.conn \in registered
  /\ link[h.conn] = "closed" => spc[h.conn] = "bind"

(* register_service refuses: the policy, a claim that is still held, or a  *)
(* bind that ran out of patience.                                          *)
BindRefused(n) ==
  /\ spc[n] = "bind"
  /\ LET s == NameOf[reg[n]]
     IN  \/ s \in Refused
         \/ s \in Transparent /\ port[s] # Free
         \/ s \notin Transparent /\ HolderStays(port[s])
  /\ Ack(n, "rejected", "serve")
  /\ reg' = [reg EXCEPT ![n] = 0]
  /\ UNCHANGED <<registered, handles, port, link, toServer, edits, faults>>
  /\ UNCHANGED clientVars /\ UNCHANGED configVars

(* The endpoint is bound and the verdict goes out first.  When the session *)
(* is gone the verdict fails and the fresh listener is dropped with it.    *)
Bound(n) ==
  /\ spc[n] = "bind"
  /\ NameOf[reg[n]] \notin Refused /\ port[NameOf[reg[n]]] = Free
  /\ Ack(n, "ok", "publish")
  /\ port' = IF n \in registered
             THEN [port EXCEPT ![NameOf[reg[n]]] = Holder(n, reg[n])] ELSE port
  /\ UNCHANGED <<reg, registered, handles, link, toServer, edits, faults>>
  /\ UNCHANGED clientVars /\ UNCHANGED configVars

(* Faulty variants: the registration is forgotten before it is filed; the  *)
(* handle is filed without looking for the session.                        *)
PublishNobody(n) ==
  /\ spc[n] = "publish"
  /\ handles' = [handles EXCEPT ![n] = @ \cup {0}]
  /\ spc' = [spc EXCEPT ![n] = "serve"]
  /\ reg' = [reg EXCEPT ![n] = 0]
  /\ UNCHANGED <<registered, port, link, toServer, toClient, edits, faults>>
  /\ UNCHANGED clientVars /\ UNCHANGED configVars

PublishUnchecked(n) ==
  /\ spc[n] = "publish"
  /\ handles' = [handles EXCEPT ![n] = @ \cup {reg[n]}]
  /\ spc' = [spc EXCEPT ![n] = "serve"]
  /\ reg' = [reg EXCEPT ![n] = 0]
  /\ UNCHANGED <<registered, port, link, toServer, toClient, edits, faults>>
  /\ UNCHANGED clientVars /\ UNCHANGED configVars

(* The pool is spawned and its handle filed; without a session to file it  *)
(* under, it is dropped, which stops the pool.                             *)
Publish(n) ==
  /\ spc[n] = "publish"
  /\ IF n \in registered
     THEN handles' = [handles EXCEPT ![n] = @ \cup {reg[n]}] /\ UNCHANGED port
     ELSE port' = Stopping(n, {reg[n]}) /\ UNCHANGED handles
  /\ spc' = [spc EXCEPT ![n] = "serve"]
  /\ reg' = [reg EXCEPT ![n] = 0]
  /\ UNCHANGED <<registered, link, toServer, toClient, edits, faults>>
  /\ UNCHANGED clientVars /\ UNCHANGED configVars

(* The session handler ends: end of file, a failed read or write, a failed *)
(* verdict, or the session taken out of the registry.                      *)
SessionEnds(n) ==
  /\ spc[n] = "failed" \/ (spc[n] = "serve" /\ (link[n] # "up" \/ n \notin registered))
  /\ spc' = [spc EXCEPT ![n] = "ended"]
  /\ registered' = registered \ {n}
  /\ port' = Stopping(n, handles[n])
  /\ handles' = [handles EXCEPT ![n] = {}]
  /\ link' = [link EXCEPT ![n] = IF @ = "up" THEN "closed" ELSE @]
  /\ toServer' = [toServer EXCEPT ![n] = <<>>]
  /\ reg' = [reg EXCEPT ![n] = 0]
  /\ UNCHANGED <<toClient, edits, faults>>
  /\ UNCHANGED clientVars /\ UNCHANGED configVars

(* A pool that was told to stop releases its endpoint.                     *)
PoolStops(s) ==
  /\ port[s].stopping
  /\ port' = [port EXCEPT ![s] = Free]
  /\ UNCHANGED <<spc, reg, registered, handles, link, toServer, toClient, edits, faults>>
  /\ UNCHANGED clientVars /\ UNCHANGED configVars

(* A pool that can serve its endpoint no more: the endpoint is released,   *)
(* the client is told, and the handle stays where it is.                   *)
PoolDies(s) ==
  /\ port[s] # Free /\ ~port[s].stopping /\ port[s].id \in handles[port[s].conn]
  /\ Fault("death")
  /\ Tell(port[s].conn, Req("dropped", port[s].id))
  /\ port' = [port EXCEPT ![s] = Free]
  /\ UNCHANGED <<spc, reg, registered, handles, link, toServer>>
  /\ UNCHANGED clientVars /\ UNCHANGED configVars

(* The server shuts down in good order: every session leaves the registry  *)
(* and every handle is dropped.  Its successor listens at once.            *)
ServerStops ==
  /\ registered # {} /\ Fault("stop")
  /\ registered' = {}
  /\ port' = [s \in Names |-> IF port[s] # Free /\ port[s].id \in handles[port[s].conn]
                              THEN [port[s] EXCEPT !.stopping = TRUE] ELSE port[s]]
  /\ handles' = [n \in Conns |-> {}]
  /\ UNCHANGED <<spc, reg, link, toServer, toClient>>
  /\ UNCHANGED clientVars /\ UNCHANGED configVars

-----------------------------------------------------------------------------
ClientStep ==
  \/ Connect \/ Resume \/ Sweep
  \/ AwaitDropped \/ VerdictOk \/ VerdictRejected \/ Activate
  \/ DrainRegister \/ DrainSkip
  \/ LoopDropped \/ TakeRegister \/ TakeDeregister

HandlerStep(n) ==
  \/ ServeRegister(n) \/ ServeDeregister(n)
  \/ BindRefused(n) \/ Bound(n) \/ Publish(n)

Disturbance ==
  \/ \E s \in Names : AddService(s) \/ DeleteService(s) \/ PoolDies(s)
  \/ HelloUnanswered \/ ActivateFails \/ Cut \/ FallSilent \/ ServerStops

Next ==
  \/ ClientStep \/ TakeShutdown \/ LosesConnection
  \/ \E n \in Conns : HandlerStep(n) \/ SessionEnds(n)
  \/ \E s \in Names : PoolStops(s)
  \/ Disturbance

Spec == Init /\ [][Next]_vars

(* Tasks are scheduled, a connection that is gone is noticed (a heartbeat  *)
(* in the loop, TCP keepalive otherwise), a stopped pool releases its      *)
(* listener; nothing is assumed of the disturbances.                       *)
Fairness ==
  /\ WF_vars(ClientStep) /\ WF_vars(TakeShutdown) /\ WF_vars(LosesConnection)
  /\ \A n \in Conns : WF_vars(HandlerStep(n)) /\ WF_vars(SessionEnds(n))
  /\ \A s \in Names : WF_vars(PoolStops(s))

LiveSpec == Spec /\ Fairness

-----------------------------------------------------------------------------
Message(ops) == [op : ops, id : Ids]

ConfigTypes ==
  /\ loc \in [Names -> Ids \cup {0}] /\ fresh \subseteq Ids
  /\ requests \in Seq(Message({"register", "deregister"})) /\ shutdown \in BOOLEAN

ClientTypes ==
  /\ cpc \in {"connect", "resume", "sweep", "await", "activate", "drain", "loop",
              "over", "dead"}
  /\ entry \in [Ids -> {"absent", "registering", "active", "rejected"}]
  /\ todo \subseteq Ids /\ drops \in Seq(Ids) /\ cur \in Ids \cup {0}
  /\ conn \in Conns \cup {0}

WireTypes ==
  /\ link \in [Conns -> {"none", "up", "closed", "silent"}]
  /\ toServer \in [Conns -> Seq(Message({"register", "deregister"}))]
  /\ toClient \in [Conns -> Seq(Message({"ok", "rejected", "dropped"}))]

ServerTypes ==
  /\ spc \in [Conns -> {"none", "serve", "bind", "publish", "failed", "ended"}]
  /\ reg \in [Conns -> Ids \cup {0}]
  /\ registered \subseteq Conns
  /\ handles \in [Conns -> SUBSET Ids]
  /\ port \in [Names -> [conn : Conns, id : Ids, stopping : BOOLEAN] \cup {Free}]

BoundTypes == edits \in 0..MaxEdits /\ faults \in 0..MaxFaults

(* The variables hold what the code's types allow; the id 0 and the        *)
(* connection 0 stand for none.                                            *)
SessionTypeOK ==
  ConfigTypes /\ ClientTypes /\ WireTypes /\ ServerTypes /\ BoundTypes

(* No endpoint leaks on the server: every endpoint that is held and has    *)
(* not been told to go is owned by a handle of a registered session, or    *)
(* by the registration that is about to file it - across takeovers,        *)
(* sessions that end in the middle of a registration, and a shutdown.      *)
EndpointsOwned ==
  \A s \in Names :
    LET h == port[s]
    IN  h # Free /\ ~h.stopping =>
          \/ h.conn \in registered /\ h.id \in handles[h.conn]
          \/ spc[h.conn] = "publish" /\ reg[h.conn] = h.id

Verdicts(n) ==
  {i \in DOMAIN toClient[n] : toClient[n][i].op \in {"ok", "rejected"}}
Registers(n) == {i \in DOMAIN toServer[n] : toServer[n][i].op = "register"}
InService(n) == IF spc[n] = "bind" THEN {n} ELSE {}

(* A verdict names no service, so the client must have one registration in *)
(* flight at most: on the connection in use there is at most one           *)
(* registration or verdict under way, none unless the client waits for it, *)
(* and a verdict is about the service the client will apply it to.         *)
VerdictsMatch ==
  conn # 0 =>
    /\ Cardinality(Verdicts(conn)) + Cardinality(Registers(conn))
         + Cardinality(InService(conn)) <= (IF cpc = "await" THEN 1 ELSE 0)
         \/ cpc \in {"connect", "over", "dead"}
    /\ cpc = "await" => \A i \in Verdicts(conn) : toClient[conn][i].id = cur

(* The client's picture is the server's: while the connection works, a     *)
(* service the client calls active is held by this session, or the notice  *)
(* that it is not is on its way or waiting to be acted on.  (The sweep may *)
(* register a second time what a drop left from the connection before has  *)
(* already brought back; that one is skipped while its verdict is out.)    *)
ActiveIsBacked ==
  \A id \in Ids :
    conn # 0 /\ entry[id] = "active" /\ link[conn] = "up" /\ conn \in registered
      /\ cpc # "resume" /\ cur # id =>
        \/ port[NameOf[id]] = Holder(conn, id)
        \/ \E i \in DOMAIN toClient[conn] : toClient[conn][i] = Req("dropped", id)
        \/ \E i \in DOMAIN drops : drops[i] = id

Served(s) == /\ port[s] = Holder(conn, loc[s]) /\ link[conn] = "up"
             /\ entry[loc[s]] = "active" /\ cpc = "loop"
Told(s) == entry[loc[s]] = "rejected" \/ cpc = "dead"

(* Once the disturbances end, every configured service is served or was    *)
(* given up with a reason: refused by the server, or the whole session     *)
(* stopped by a fatal error.                                               *)
ServedOrTold == <>[](\A s \in Names : loc[s] # 0 => Served(s) \/ Told(s))

Forgotten(s) == "activation" \in Faults /\ faults < MaxFaults /\ entry[loc[s]] = "absent"
                  /\ cpc = "loop"

(* The same of every service but one: the session has no entry any more    *)
(* for a service whose activation failed after the server had accepted it. *)
ServedUnlessForgotten ==
  <>[](\A s \in Names : loc[s] # 0 => Served(s) \/ Told(s) \/ Forgotten(s))

(* Once the disturbances end, nothing is left bound for a service that is  *)
(* no longer configured.                                                   *)
Released == <>[](\A s \in Names : loc[s] = 0 => port[s] = Free)

(* Once the disturbances end, what is configured is served or given up with*)
(* a reason, and what is not is released.                                  *)
SessionSettles == ServedUnlessForgotten /\ Released
=============================================================================
