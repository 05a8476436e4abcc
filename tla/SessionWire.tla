----------------------------- MODULE SessionWire -----------------------------
(***************************************************************************)
(* The control connection as bytes and time: the handshake, the framing of *)
(* session commands, heartbeats and their timeout, the client's decision   *)
(* to retry or to give up, and a server that shuts down and comes back     *)
(* (core/client.rs, core/server.rs, protocol.rs).  ControlSession models   *)
(* what the commands do; here a command is its two pieces, the length and  *)
(* the body, which write_session_cmd writes one after the other.           *)
(*                                                                         *)
(* Time is counted in seconds; a piece on a live connection arrives within *)
(* MaxDelay, and a heartbeat that is due fires before the clock goes on.   *)
(***************************************************************************)
EXTENDS Integers, Sequences, FiniteSets

CONSTANTS
    MaxConns,   \* bound: connections the client dials
    MaxCmds,    \* bound: commands after the first registration
    MaxBreaks,  \* bound: connections that break or go silent
    MaxShuts,   \* bound: server shutdowns
    Beat,       \* the server's heartbeat_interval, 0 for none
    Configured, \* default_heartbeat_timeout: its value in a set, empty where unset
    MaxDelay    \* seconds a piece may be on its way

ASSUME WireConstants ==
    /\ {MaxConns, MaxCmds, MaxBreaks, MaxShuts, Beat, MaxDelay} \subseteq Nat
    /\ Configured \subseteq Nat /\ MaxConns > 0 /\ MaxDelay < 4

Conns == 1..MaxConns

VARIABLES
    cs,       \* the client: "dial", "hello", "ack", "verdict", "run", "fatal"
    cn,       \* the connection the client is on, 0 before the first
    quiet,    \* ticks since the client's loop last turned
    srv,      \* conn -> "none", "hello", "auth", "publish", "serve", "ended"
    half,     \* conn -> what read_session_cmd holds: "none", "len", "junk"
    idle,     \* conn -> ticks since the server's loop last turned
    up, down, \* conn -> pieces on their way, oldest first, with their age
    net,      \* conn -> "ok", "closed", "silent"
    gen,      \* conn -> the server instance that accepted it
    now,      \* the server instance, running or last
    serverUp,
    sessions, \* the registries: connections whose session is published
    token,    \* the client's token is the server's
    cmds, breaks

wireVars == <<cs, cn, quiet, srv, half, idle, up, down, net, gen, now, serverUp, sessions, token, cmds, breaks>>

\* Mutant: one silent interval is already too long.
FloorOfOne == Beat
\* derived_heartbeat_floor, 0 where the server declares no heartbeat.
Floor == IF Beat = 0 THEN 0 ELSE IF 2 * Beat + 5 < 10 THEN 10 ELSE 2 * Beat + 5
\* Mutant: no setting, no timeout.
TimeoutUnset == IF Configured = {} THEN 0 ELSE Floor
\* resolve_heartbeat_timeout: 0 for no timeout, -1 for one that is refused.
Timeout == CASE Configured = {} -> Floor
             [] 0 \in Configured -> 0
             [] OTHER -> LET t == CHOOSE t \in Configured : TRUE IN IF t < Floor THEN -1 ELSE t

WireInit ==
    /\ cs = "dial" /\ cn = 0 /\ quiet = 0
    /\ srv = [n \in Conns |-> "none"] /\ half = [n \in Conns |-> "none"] /\ idle = [n \in Conns |-> 0]
    /\ up = [n \in Conns |-> <<>>] /\ down = [n \in Conns |-> <<>>]
    /\ net = [n \in Conns |-> "ok"] /\ gen = [n \in Conns |-> 0]
    /\ now = 1 /\ serverUp = TRUE /\ sessions = {}
    /\ token \in BOOLEAN /\ cmds = 0 /\ breaks = 0

Piece(p) == [what |-> p, age |-> 0]
Send(q, n, ps) == [q EXCEPT ![n] = IF net[n] = "ok" THEN @ \o [i \in DOMAIN ps |-> Piece(ps[i])] ELSE @]
Arrives(q, n, p) == q[n] # <<>> /\ Head(q[n]).what = p
Unread(q, n) == [q EXCEPT ![n] = Tail(@)]
Close(n) == net' = [net EXCEPT ![n] = IF @ = "silent" THEN @ ELSE "closed"]
Command(register) == IF register THEN <<"len", "register">> ELSE <<"len", "other">>

-----------------------------------------------------------------------------
(* The client. *)

Dial ==
    /\ cs = "dial" /\ serverUp /\ cn < MaxConns
    /\ cn' = cn + 1 /\ cs' = "hello"
    /\ up' = Send(up, cn', <<"hello">>)
    /\ srv' = [srv EXCEPT ![cn'] = "hello"] /\ gen' = [gen EXCEPT ![cn'] = now]
    /\ UNCHANGED <<quiet, half, idle, down, net, now, serverUp, sessions, token, cmds, breaks>>

ClientHello ==
    /\ cs = "hello" /\ Arrives(down, cn, "hello")
    /\ down' = Unread(down, cn) /\ up' = Send(up, cn, <<"auth">>)
    /\ cs' = "ack"
    /\ UNCHANGED <<cn, quiet, srv, half, idle, net, gen, now, serverUp, sessions, token, cmds, breaks>>

\* The answer to the authentication; then every service is registered, one
\* at a time, each waiting for its verdict.
ClientAck(p) ==
    /\ cs = "ack" /\ Arrives(down, cn, p)
    /\ down' = Unread(down, cn)
    /\ IF p = "ok" /\ Timeout # -1
       THEN cs' = "verdict" /\ up' = Send(up, cn, Command(TRUE)) /\ UNCHANGED net
       ELSE cs' = "fatal" /\ Close(cn) /\ UNCHANGED up
    /\ UNCHANGED <<cn, quiet, srv, half, idle, gen, now, serverUp, sessions, token, cmds, breaks>>

\* await_verdict: commands that come first are handled, and nothing but the
\* answer or the end of the connection ends the wait.
ClientVerdict ==
    /\ cs = "verdict" /\ Arrives(down, cn, "verdict")
    /\ down' = Unread(down, cn)
    /\ cs' = "run" /\ quiet' = 0
    /\ UNCHANGED <<cn, srv, half, idle, up, net, gen, now, serverUp, sessions, token, cmds, breaks>>

ClientBeat ==
    /\ cs \in {"run", "verdict"} /\ Arrives(down, cn, "beat")
    /\ down' = Unread(down, cn) /\ quiet' = 0
    /\ UNCHANGED <<cs, cn, srv, half, idle, up, net, gen, now, serverUp, sessions, token, cmds, breaks>>

\* A request of the client's own is an event of its loop too.
ClientRequests(register) ==
    /\ cs = "run" /\ cmds < MaxCmds
    /\ cmds' = cmds + 1
    /\ up' = Send(up, cn, Command(register))
    /\ cs' = IF register THEN "verdict" ELSE "run"
    /\ quiet' = 0
    /\ UNCHANGED <<cn, srv, half, idle, down, net, gen, now, serverUp, sessions, token, breaks>>

\* Mutant: a second late.
OverdueLate == Timeout > 0 /\ quiet > Timeout
Overdue == Timeout > 0 /\ quiet >= Timeout
ClientTimesOut ==
    /\ cs = "run" /\ Overdue
    /\ cs' = "dial" /\ quiet' = 0 /\ Close(cn)
    /\ UNCHANGED <<cn, srv, half, idle, up, down, gen, now, serverUp, sessions, token, cmds, breaks>>

\* The connection ends under the client.  Before the server's hello that is
\* taken for a server of another version; after it, an end of stream is taken
\* for a refusal and any other error is retried.
AfterClose == CASE cs = "hello" -> {"fatal"}
                [] cs = "ack" -> {"fatal", "dial"}
                [] OTHER -> {"dial"}
SeesCloseIn(states) ==
    /\ cs \in states
    /\ net[cn] = "closed" /\ down[cn] = <<>>
    /\ cs' \in AfterClose /\ quiet' = 0
    /\ UNCHANGED <<cn, srv, half, idle, up, down, net, gen, now, serverUp, sessions, token, cmds, breaks>>
\* Mutant: await_verdict takes an end of stream for nothing to read yet.
VerdictIgnoresClose == SeesCloseIn({"hello", "ack", "run"})
ClientSeesClose == SeesCloseIn({"hello", "ack", "verdict", "run"})

-----------------------------------------------------------------------------
(* The server: do_session_handshake, one task per connection. *)

ServerHello(n) ==
    /\ srv[n] = "hello" /\ Arrives(up, n, "hello")
    /\ up' = Unread(up, n) /\ down' = Send(down, n, <<"hello">>)
    /\ srv' = [srv EXCEPT ![n] = "auth"]
    /\ UNCHANGED <<cs, cn, quiet, half, idle, net, gen, now, serverUp, sessions, token, cmds, breaks>>

ServerAuth(n) ==
    /\ srv[n] = "auth" /\ Arrives(up, n, "auth")
    /\ up' = Unread(up, n) /\ down' = Send(down, n, <<IF token THEN "ok" ELSE "fail">>)
    /\ srv' = [srv EXCEPT ![n] = IF token THEN "publish" ELSE "ended"]
    /\ IF token THEN UNCHANGED net ELSE Close(n)
    /\ UNCHANGED <<cs, cn, quiet, half, idle, gen, now, serverUp, sessions, token, cmds, breaks>>

Publish(n) ==
    /\ srv[n] = "publish"
    /\ sessions' = sessions \cup {n}
    /\ srv' = [srv EXCEPT ![n] = "serve"] /\ idle' = [idle EXCEPT ![n] = 0]
    /\ UNCHANGED <<cs, cn, quiet, half, up, down, net, gen, now, serverUp, token, cmds, breaks>>

\* Mutant: the entry outlives its task.
EntryKept(n) == sessions

\* The end of a session's task: its entry is removed with it.
Removed(n) == sessions \ {n}
TaskEnds(n) == /\ srv' = [srv EXCEPT ![n] = "ended"]
           /\ sessions' = Removed(n)
           /\ Close(n)

\* read_session_cmd: the length, then the body.  A body where a length was
\* expected is read as one: too large, which ends the session, or a number
\* of bytes to wait for.
ReadLength(n) ==
    /\ srv[n] = "serve" /\ half[n] = "none" /\ Arrives(up, n, "len")
    /\ up' = Unread(up, n) /\ half' = [half EXCEPT ![n] = "len"]
    /\ UNCHANGED <<cs, cn, quiet, srv, idle, down, net, gen, now, serverUp, sessions, token, cmds, breaks>>

ReadBody(n, p) ==
    /\ srv[n] = "serve" /\ half[n] = "len" /\ Arrives(up, n, p)
    /\ up' = Unread(up, n) /\ half' = [half EXCEPT ![n] = "none"] /\ idle' = [idle EXCEPT ![n] = 0]
    /\ down' = IF p = "register" THEN Send(down, n, <<"verdict">>) ELSE down
    /\ UNCHANGED <<cs, cn, quiet, srv, net, gen, now, serverUp, sessions, token, cmds, breaks>>

ReadAstray(n, p) ==
    /\ srv[n] = "serve" /\ Arrives(up, n, p)
    /\ half[n] = "junk" \/ (half[n] = "none" /\ p # "len")
    /\ up' = Unread(up, n)
    /\ \/ TaskEnds(n) /\ UNCHANGED half
       \/ half' = [half EXCEPT ![n] = "junk"] /\ UNCHANGED <<srv, sessions, net>>
    /\ UNCHANGED <<cs, cn, quiet, idle, down, gen, now, serverUp, token, cmds, breaks>>

\* The heartbeat wins the select: the read is dropped, and with it whatever
\* it had taken off the connection.
Dropped(n) == IF half[n] = "len" THEN "none" ELSE half[n]
Heartbeat(n) ==
    /\ srv[n] = "serve" /\ Beat > 0 /\ idle[n] = Beat
    /\ down' = Send(down, n, <<"beat">>)
    /\ idle' = [idle EXCEPT ![n] = 0]
    /\ half' = [half EXCEPT ![n] = Dropped(n)]
    /\ UNCHANGED <<cs, cn, quiet, srv, up, net, gen, now, serverUp, sessions, token, cmds, breaks>>

ServerSeesClose(n) ==
    /\ srv[n] \in {"hello", "auth", "serve"}
    /\ net[n] = "closed" /\ up[n] = <<>>
    /\ TaskEnds(n)
    /\ UNCHANGED <<cs, cn, quiet, half, idle, up, down, gen, now, serverUp, token, cmds, breaks>>

\* The handle left the registry: its broadcast is closed.
SessionShut(n) ==
    /\ srv[n] = "serve" /\ n \notin sessions
    /\ TaskEnds(n)
    /\ UNCHANGED <<cs, cn, quiet, half, idle, up, down, gen, now, serverUp, token, cmds, breaks>>

\* Server::run after its shutdown signal, and a new instance.
Cleared == {n \in sessions : gen[n] # now}
ServerShutsDown ==
    /\ serverUp /\ now <= MaxShuts
    /\ serverUp' = FALSE
    /\ sessions' = Cleared
    /\ UNCHANGED <<cs, cn, quiet, srv, half, idle, up, down, net, gen, now, token, cmds, breaks>>
ServerReturns ==
    /\ ~serverUp
    /\ serverUp' = TRUE /\ now' = now + 1
    /\ UNCHANGED <<cs, cn, quiet, srv, half, idle, up, down, net, gen, sessions, token, cmds, breaks>>

-----------------------------------------------------------------------------
(* The network and the clock. *)

\* A connection is reset, or carries nothing from here on; what was on its
\* way is lost either way.
Breaks(n, how) ==
    /\ srv[n] # "none" /\ net[n] = "ok" /\ breaks < MaxBreaks
    /\ breaks' = breaks + 1
    /\ net' = [net EXCEPT ![n] = how]
    /\ up' = [up EXCEPT ![n] = <<>>] /\ down' = [down EXCEPT ![n] = <<>>]
    /\ UNCHANGED <<cs, cn, quiet, srv, half, idle, gen, now, serverUp, sessions, token, cmds>>

\* TCP's keepalive, if it ever does.
KernelGivesUp(n) ==
    /\ net[n] = "silent"
    /\ net' = [net EXCEPT ![n] = "closed"]
    /\ UNCHANGED <<cs, cn, quiet, srv, half, idle, up, down, gen, now, serverUp, sessions, token, cmds, breaks>>

\* A heartbeat that is due and a piece that must arrive come first.
Older(q) == [n \in Conns |-> [i \in DOMAIN q[n] |-> [q[n][i] EXCEPT !.age = IF @ < MaxDelay THEN @ + 1 ELSE @]]]
Due(n) ==
    /\ srv[n] = "serve"
    /\ \/ Beat > 0 /\ idle[n] = Beat
       \/ \E q \in {up[n], down[n]} : net[n] = "ok" /\ q # <<>> /\ Head(q).age = MaxDelay
Tick ==
    /\ cs \in {"run", "verdict"} /\ ~(cs = "run" /\ Overdue) /\ ~\E n \in Conns : Due(n)
    /\ quiet' = IF Timeout > 0 /\ cs = "run" THEN quiet + 1 ELSE 0
    /\ idle' = [n \in Conns |-> IF srv[n] = "serve" /\ Beat > 0 THEN idle[n] + 1 ELSE 0]
    /\ up' = Older(up) /\ down' = Older(down)
    /\ UNCHANGED <<cs, cn, srv, half, net, gen, now, serverUp, sessions, token, cmds, breaks>>

-----------------------------------------------------------------------------
ClientStep ==
    \/ Dial \/ ClientHello \/ ClientVerdict \/ ClientBeat \/ ClientTimesOut \/ ClientSeesClose
    \/ \E p \in {"ok", "fail"} : ClientAck(p)
ServerStep(n) ==
    \/ ServerHello(n) \/ ServerAuth(n) \/ Publish(n) \/ ReadLength(n) \/ Heartbeat(n)
    \/ ServerSeesClose(n) \/ SessionShut(n)
    \/ \E p \in {"register", "other"} : ReadBody(n, p)
    \/ \E p \in {"len", "register", "other"} : ReadAstray(n, p)
WireNext ==
    \/ ClientStep \/ ServerReturns \/ ServerShutsDown \/ Tick
    \/ \E register \in BOOLEAN : ClientRequests(register)
    \/ \E n \in Conns : ServerStep(n) \/ KernelGivesUp(n)
                        \/ \E how \in {"silent", "closed"} : Breaks(n, how)

\* Every task that can go on does; nothing obliges a connection to break, the
\* kernel to notice, the user to ask or the server to stop.
WireTasks == {<<"client">>, <<"return">>, <<"clock">>} \cup {<<"server", n>> : n \in Conns}
WireTask(k) ==
    \/ k[1] = "client" /\ ClientStep
    \/ k[1] = "return" /\ ServerReturns
    \/ k[1] = "clock" /\ Tick
    \/ k[1] = "server" /\ ServerStep(k[2])
WireSpec == WireInit /\ [][WireNext]_wireVars /\ \A k \in WireTasks : WF_wireVars(WireTask(k))

-----------------------------------------------------------------------------
\* Type invariant: task states, half-read commands and the two ends' clocks.
WireTypeOK ==
    /\ cs \in {"dial", "hello", "ack", "verdict", "run", "fatal"} /\ cn \in 0..MaxConns
    /\ srv \in [Conns -> {"none", "hello", "auth", "publish", "serve", "ended"}]
    /\ half \in [Conns -> {"none", "len", "junk"}] /\ idle \in [Conns -> 0..Beat]
    /\ net \in [Conns -> {"ok", "closed", "silent"}] /\ gen \in [Conns -> 0..MaxShuts + 1]
    /\ sessions \subseteq Conns /\ token \in BOOLEAN
    /\ quiet \in 0..Timeout \cup {0}

\* A session is in the registry only while its task serves it, and a task that
\* serves one not in the registry was cleared by a shutdown (server.rs 1178,
\* 1213): nothing else can take a session's entry away from under it.
RegistryMatches ==
    \A n \in Conns :
        /\ n \in sessions => srv[n] = "serve"
        /\ srv[n] = "serve" /\ n \notin sessions => gen[n] < now \/ ~serverUp

\* The timeout derived from the server's interval never fires on a connection
\* that still carries bytes, whatever requests and late heartbeats do to the
\* two clocks that both ends restart at every event (client.rs 3802, server.rs
\* 1198).
HealthyStaysUp == cs = "run" /\ Overdue => net[cn] # "ok"

\* A connection that stops carrying anything is noticed by the client's own
\* timeout, the kernel's help or not (client.rs 3802).
VanishNoticed ==
    \A n \in Conns : []<>(cs = "run" /\ cn = n => net[n] = "ok")

\* The known ways for a client to wait for ever: an unanswered handshake or
\* verdict on a connection gone silent, which has no timeout of its own, and a
\* verdict from a server that lost its place in the command stream.  (The last
\* connection of the bound is the model's own.)
KnownWait ==
    \/ cs \in {"hello", "ack", "verdict"} /\ net[cn] = "silent"
    \/ cs = "verdict" /\ half[cn] = "junk"
    \/ cs = "dial" /\ cn = MaxConns

\* Whatever breaks, restarts and shutdowns happen, a client that dialed is in
\* the end running, given up for good, or in one of the known waits (drive,
\* client.rs 3605).
Resumes == <>[](cn > 0 => cs \in {"run", "fatal"} \/ KnownWait)

\* The safety of the connection: types, a registry that matches the tasks, and
\* no timeout of a connection that carries bytes.
WireSafe == WireTypeOK /\ RegistryMatches /\ HealthyStaysUp

\* A dead connection is noticed, and a client that dialed comes to run again.
SessionRecovers == VanishNoticed /\ Resumes
=============================================================================
