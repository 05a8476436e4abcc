---------------------------- MODULE ConfigReload ----------------------------
(***************************************************************************)
(* A process and its configuration file: the watcher that turns edits into *)
(* events (config/watcher.rs), the loop that restarts the instance or      *)
(* forwards a service change (lib.rs, run), and the client's table of      *)
(* services and sessions that the changes land in (core/client.rs).        *)
(*                                                                         *)
(* A document is what the file says: the blocks it has, and of a client's  *)
(* services only what the loader refuses or fills in, where the service    *)
(* dials (`to`) and whether it can be started on this host (`starts`).     *)
(* -1 is a number the file does not give, Unset an address it does not.    *)
(***************************************************************************)
EXTENDS Integers, Sequences, FiniteSets, SequencesExt, FiniteSetsExt

CONSTANTS
    Docs,      \* the files the operator may write
    Text,      \* file -> the document in it
    Names,     \* service names
    SessKeys,  \* session keys: endpoint and Noise keys
    Flags,     \* run-mode flags of the command line: Unset or a mode
    MaxEdits   \* bound: edits of the file

Unset == "unset"
Blocks == {"server", "client", "transparent"}
WorkersCap == 2
DefaultWorkers == 1
DefaultLanes == 2

Endpoint == SessKeys \cup {Unset}
Service == [kind : {"tcp", "udp", "transparent"}, to : Endpoint, workers : Int, lanes : Nat, starts : BOOLEAN]
IsDocument(t) ==
    /\ DOMAIN t = {"ok", "has", "server", "client", "transparent"} /\ t.ok \in BOOLEAN /\ t.has \subseteq Blocks
    /\ DOMAIN t.client = {"rest", "def", "services"} /\ t.client.def \in Endpoint
    /\ DOMAIN t.client.services \subseteq Names /\ t.client.services \in [DOMAIN t.client.services -> Service]
    /\ t.transparent \in [rest : STRING, def : Endpoint, claims : SUBSET Names, tunnels : Int, starts : BOOLEAN]

\* A block that runs services must name the endpoint they dial by default
\* (parsing.rs 1314): a file that does not is not ok.
ASSUME ReloadConstants ==
    /\ IsFiniteSet(Docs) /\ IsFiniteSet(Names) /\ MaxEdits \in Nat /\ Flags \subseteq Blocks \cup {Unset}
    /\ Unset \notin SessKeys /\ \A d \in Docs : IsDocument(Text[d])
    /\ \A d \in Docs : Text[d].ok =>
          /\ "client" \in Text[d].has => Text[d].client.def # Unset
          /\ "transparent" \in Text[d].has => Text[d].transparent.def # Unset

VARIABLES
    file,      \* the document on disk, Torn while it is being written
    upcoming,  \* the document being written, or Torn
    edits,
    missed,    \* the file changed while nobody watched
    watch,     \* "off", "on", or "gone" when the watcher ended
    notes,     \* file events not rescanned yet
    old,       \* the watcher's configuration
    events,    \* ConfigChange on its way to `run`
    main,      \* "boot", "wait", "restart", "ended"
    flag,
    todo,      \* the configuration to restart with
    live,      \* instances whose task has not ended
    started,   \* instances started
    serving,   \* the mode and configuration of the instance
    stop,      \* the shutdown broadcast reached the instance
    updates,   \* service changes on their way to the instance
    ends,      \* InstanceEnd values not received
    bound,     \* an accept loop owns the server's port
    loc,       \* Client.services: name -> session key and id
    sess       \* Client.sessions: key -> next id and what was registered

fileVars == <<file, upcoming, edits, missed>>
watchVars == <<watch, notes, old>>
instVars == <<live, started, serving, stop, updates, ends, bound>>
table == <<loc, sess>>
reloadVars == <<fileVars, watchVars, events, main, flag, todo, instVars, table>>

NoClient == [rest |-> Unset, def |-> Unset, services |-> [n \in {} |-> n]]
NoClaims == [rest |-> Unset, def |-> Unset, claims |-> {}, tunnels |-> -1, starts |-> TRUE]
Empty == [ok |-> FALSE, has |-> {}, server |-> Unset, client |-> NoClient, transparent |-> NoClaims]
Torn == "torn"
NoLoc == [key |-> Unset, id |-> 0]
NoSession == [on |-> FALSE, next |-> 0, slots |-> {}]
NoInstance == [mode |-> "idle", conf |-> Torn]

-----------------------------------------------------------------------------
(* Loading: what is refused, and what is filled in (config/parsing.rs).    *)

ServiceOK(s, kinds) ==
    /\ s.kind \in kinds
    /\ s.kind = "tcp" => s.workers = -1
    /\ s.kind = "udp" => s.workers # 0
Filled(s) == [s EXCEPT !.workers = IF s.kind # "udp" THEN @
                                   ELSE IF @ = -1 THEN DefaultWorkers
                                   ELSE Min({@, WorkersCap})]

\* A `[transparent]` block: claims, each a service once lowered, sharing the
\* written budget of lanes or two lanes each.
ClaimsOKAnyBudget(t) == t.tunnels # 0
ClaimsOK(t) == t.tunnels = -1 \/ t.tunnels >= Cardinality(t.claims)
LaneBudget(t) == IF t.tunnels = -1 THEN Max({1, Cardinality(t.claims)}) * DefaultLanes ELSE t.tunnels
ClaimLanes(t) == Max({1, LaneBudget(t) \div Max({1, Cardinality(t.claims)})})
Lower(t) == [rest |-> t.rest, def |-> t.def,
             services |-> [n \in t.claims |-> [kind |-> "transparent", to |-> Unset, workers |-> -1,
                                               lanes |-> ClaimLanes(t), starts |-> t.starts]]]

Valid(t) ==
    /\ t.ok /\ t.has # {}
    /\ \A n \in DOMAIN t.client.services : ServiceOK(t.client.services[n], {"tcp", "udp"})
    /\ "transparent" \in t.has => ClaimsOK(t.transparent)
Loadable == {d \in Docs : Valid(Text[d])}
Loads(d) == d \in Loadable
Config == [d \in Docs |-> [Text[d] EXCEPT !.client.services = [n \in DOMAIN @ |-> Filled(@[n])]]]
Lowered == [d \in Docs |-> Lower(Config[d].transparent)]

\* determine_run_mode, and the client configuration the mode runs on.
Mode(d) == LET has == Config[d].has IN
           IF flag # Unset THEN flag
           ELSE IF Cardinality(has) = 1 THEN CHOOSE m \in has : TRUE ELSE Unset
ClientModes == {"client", "transparent"}
ClientConf(d) == IF Mode(d) = "client" THEN Config[d].client ELSE Lowered[d]

-----------------------------------------------------------------------------
(* The client's table of services and sessions: c is [loc, sess].          *)

KeyOf(conf, s) == IF s.to = Unset THEN conf.def ELSE s.to
Deregister(ss, at) == [ss EXCEPT ![at.key].slots = {x \in @ : x.id # at.id}]

\* reap_idle_sessions: a session no service is on any more is shut down.
Reaped(c) == [c EXCEPT !.sess = [k \in SessKeys |-> IF \E n \in Names : c.loc[n].key = k
                                                    THEN c.sess[k] ELSE NoSession]]

\* add_service: a service that moved leaves the session it was on, one that
\* did not keeps its id, so that its registration replaces the earlier one.
LeavesNever(at, key) == FALSE
Leaves(at, key) == at # NoLoc /\ at.key # key
Stays(at, key) == at # NoLoc /\ at.key = key
AddService(c, conf, name, s) ==
    LET key == KeyOf(conf, s)
        at == c.loc[name]
        left == IF Leaves(at, key) THEN Deregister(c.sess, at) ELSE c.sess
        id == IF Stays(at, key) THEN at.id ELSE left[key].next
        slot == [id |-> id, name |-> name, service |-> s]
    IN Reaped([loc |-> [c.loc EXCEPT ![name] = [key |-> key, id |-> id]],
               sess |-> [left EXCEPT ![key] =
                   [on |-> TRUE, slots |-> {x \in @.slots : x.id # id} \cup {slot},
                    next |-> IF Stays(at, key) THEN @.next ELSE @.next + 1]]])
DeleteService(c, name) ==
    Reaped([loc |-> [c.loc EXCEPT ![name] = NoLoc],
            sess |-> IF c.loc[name] = NoLoc THEN c.sess ELSE Deregister(c.sess, c.loc[name])])

NoTable == [loc |-> [n \in Names |-> NoLoc], sess |-> [k \in SessKeys |-> NoSession]]
\* Client::run: the services are added one by one, in the order of the walk.
StartTable(conf, order) ==
    LET after[i \in 0..Len(order)] == IF i = 0 THEN NoTable
                                      ELSE AddService(after[i - 1], conf, order[i], conf.services[order[i]])
    IN after[Len(order)]
SetTable(c) == loc' = c.loc /\ sess' = c.sess
Table == [loc |-> loc, sess |-> sess]

-----------------------------------------------------------------------------
(* The file and its watcher. *)

ReloadInit ==
    /\ file \in Loadable /\ upcoming = Torn /\ edits = 0 /\ missed = FALSE
    /\ watch = "off" /\ notes = 0 /\ old = Torn /\ events = <<>>
    /\ main = "boot" /\ flag \in Flags /\ todo = Torn
    /\ live = {} /\ started = 0 /\ serving = NoInstance /\ stop = FALSE
    /\ updates = <<>> /\ ends = <<>> /\ bound = FALSE
    /\ loc = NoTable.loc /\ sess = NoTable.sess

\* An editor truncates the file and writes it again; each is a Modify event
\* once the directory is watched.
Noted == /\ notes' = IF watch = "on" THEN notes + 1 ELSE notes
         /\ missed' = (missed \/ (watch # "on" /\ main # "boot"))
EditBegins(d) ==
    /\ main # "ended" /\ edits < MaxEdits /\ upcoming = Torn /\ d # file
    /\ file' = Torn /\ upcoming' = d /\ edits' = edits + 1
    /\ Noted
    /\ UNCHANGED <<watch, old, events, main, flag, todo, instVars, table>>
EditEnds ==
    /\ upcoming # Torn
    /\ file' = upcoming /\ upcoming' = Torn
    /\ Noted
    /\ UNCHANGED <<edits, watch, old, events, main, flag, todo, instVars, table>>

General(d) == [kind |-> "general", conf |-> d, name |-> Unset]
Change(kind, n, d) == [kind |-> kind, conf |-> d, name |-> n]

\* calculate_events, in every order the two maps may be walked.
SameBesides(a, b) == [a EXCEPT !.services = {}] = [b EXCEPT !.services = {}]
Deleted(a, b) == {n \in DOMAIN a.services : n \notin DOMAIN b.services}
\* Mutant: a service whose content changed is not an addition.
AddedNew(a, b) == {n \in DOMAIN b.services : n \notin DOMAIN a.services}
Added(a, b) == {n \in DOMAIN b.services : n \notin DOMAIN a.services \/ a.services[n] # b.services[n]}
Restarts(a, b) == a.has # b.has \/ ~SameBesides(a.client, b.client) \/ a.transparent # b.transparent
Orders == [S \in SUBSET Names |-> SetToSeqs(S)]
Walk(w, d) == [i \in DOMAIN w[1] |-> Change("delete", w[1][i], d)] \o [i \in DOMAIN w[2] |-> Change("add", w[2][i], d)]
Walks(a, b, d) ==
    {Walk(w, d) : w \in Orders[Deleted(a.client, b.client)] \X Orders[Added(a.client, b.client)]}
Calculated == [o \in Loadable |-> [d \in Loadable |->
    IF Config[o] = Config[d] THEN {<<>>}
    ELSE IF Restarts(Config[o], Config[d]) THEN {<<General(d)>>}
    ELSE Walks(Config[o], Config[d], d)]]

\* ConfigWatcherHandle::new
Boot ==
    /\ main = "boot"
    /\ IF Loads(file)
       THEN old' = file /\ events' = <<General(file)>> /\ main' = "wait"
       ELSE main' = "ended" /\ UNCHANGED <<old, events>>
    /\ UNCHANGED <<fileVars, watch, notes, flag, todo, instVars, table>>

WatchStarts ==
    /\ main \in {"wait", "restart"} /\ watch = "off"
    /\ watch' = "on"
    /\ UNCHANGED <<fileVars, notes, old, events, main, flag, todo, instVars, table>>

\* The directory cannot be watched, or the process was told to stop.
WatcherExits ==
    /\ main \in {"wait", "restart"} /\ watch # "gone"
    /\ watch' = "gone"
    /\ UNCHANGED <<fileVars, notes, old, events, main, flag, todo, instVars, table>>

Rescan ==
    /\ main # "ended" /\ watch = "on" /\ notes > 0
    /\ notes' = notes - 1
    /\ IF Loads(file)
       THEN /\ \E es \in Calculated[old][file] : events' = events \o es
            /\ old' = file /\ missed' = FALSE
       ELSE UNCHANGED <<events, old, missed>>
    /\ UNCHANGED <<file, upcoming, edits, watch, main, flag, todo, instVars, table>>

-----------------------------------------------------------------------------
(* The loop of `run`. *)

Starts(d) ==
    /\ started' = started + 1 /\ live' = live \cup {started'}
    /\ serving' = [mode |-> "starting", conf |-> d]
    /\ stop' = FALSE /\ updates' = <<>>

\* Mutant: the next instance does not wait for the last one.
WaitsNever == FALSE
WaitsForEnd == started > 0
TakeGeneral ==
    /\ main = "wait" /\ events # <<>> /\ Head(events).kind = "general"
    /\ events' = Tail(events)
    /\ IF ~WaitsForEnd THEN Starts(Head(events).conf) /\ UNCHANGED <<main, todo>>
       ELSE /\ UNCHANGED <<live, started, serving, updates>>
            /\ IF live = {} THEN main' = "ended" /\ UNCHANGED <<todo, stop>>
               ELSE main' = "restart" /\ todo' = Head(events).conf /\ stop' = TRUE
    /\ UNCHANGED <<fileVars, watchVars, flag, ends, bound, table>>

TakeChange ==
    /\ main = "wait" /\ events # <<>> /\ Head(events).kind # "general"
    /\ events' = Tail(events)
    /\ updates' = IF live = {} THEN updates ELSE Append(updates, Head(events))
    /\ UNCHANGED <<fileVars, watchVars, main, flag, todo, live, started, serving, stop, ends, bound, table>>

\* Mutant: an end is heard only while a restart waits for it.
ListensOnRestart == main = "restart"
Listens == main \in {"wait", "restart"}
TakeEnd ==
    /\ ends # <<>> /\ Listens
    /\ ends' = Tail(ends)
    /\ IF main = "restart" /\ Head(ends) = "ok"
       THEN Starts(todo) /\ main' = "wait"
       ELSE main' = "ended" /\ UNCHANGED <<live, started, serving, stop, updates>>
    /\ UNCHANGED <<fileVars, watchVars, events, flag, todo, bound, table>>

NoMoreEvents ==
    /\ main = "wait" /\ watch = "gone" /\ events = <<>>
    /\ main' = "ended" /\ stop' = TRUE
    /\ UNCHANGED <<fileVars, watchVars, events, flag, todo, live, started, serving, updates, ends, bound, table>>

-----------------------------------------------------------------------------
(* The instance.  When `run` returns the process exits, and its tasks     *)
(* with it.                                                                *)

InstanceEndTwice(how) ==
    /\ live' = live \ {started} /\ ends' = ends \o <<how, how>>
    /\ serving' = NoInstance /\ SetTable(NoTable)
InstanceEnd(how) ==
    /\ live' = live \ {started} /\ ends' = Append(ends, how)
    /\ serving' = NoInstance /\ SetTable(NoTable)

\* run_instance up to the instance's loop: a client adds its services, in
\* the order its map is walked; a server binds its port.
CanStart(d) ==
    CASE Mode(d) \in ClientModes -> /\ Mode(d) \in Config[d].has
                                    /\ \A n \in DOMAIN ClientConf(d).services : ClientConf(d).services[n].starts
      [] Mode(d) = "server" -> "server" \in Config[d].has /\ ~bound
      [] OTHER -> FALSE
InstanceStarts ==
    /\ main # "ended" /\ serving.mode = "starting"
    /\ LET d == serving.conf
           conf == ClientConf(d) IN
       IF ~CanStart(d) THEN InstanceEnd("error") /\ UNCHANGED bound
       ELSE /\ serving' = [serving EXCEPT !.mode = Mode(d)]
            /\ bound' = (bound \/ Mode(d) = "server")
            /\ IF Mode(d) = "server" THEN UNCHANGED table
               ELSE \E order \in Orders[DOMAIN conf.services] : SetTable(StartTable(conf, order))
            /\ UNCHANGED <<live, ends>>
    /\ UNCHANGED <<fileVars, watchVars, events, main, flag, todo, started, stop, updates>>

\* handle_hot_reload; a server ignores the change.
InstanceUpdates ==
    /\ main # "ended" /\ serving.mode \in ClientModes \cup {"server"} /\ updates # <<>>
    /\ updates' = Tail(updates)
    /\ LET u == Head(updates)
           conf == ClientConf(serving.conf)
           s == Config[u.conf].client.services[u.name] IN
       CASE serving.mode = "server" -> UNCHANGED table
         [] u.kind = "delete" -> SetTable(DeleteService(Table, u.name))
         [] OTHER -> IF s.starts THEN SetTable(AddService(Table, conf, u.name, s)) ELSE UNCHANGED table
    /\ UNCHANGED <<fileVars, watchVars, events, main, flag, todo, live, started, serving, stop, ends, bound>>

InstanceStops ==
    /\ main # "ended" /\ serving.mode \in ClientModes \cup {"server"} /\ stop
    /\ InstanceEnd("ok")
    /\ UNCHANGED <<fileVars, watchVars, events, main, flag, todo, started, stop, updates, bound>>

\* The accept loops of a server that ended see the broadcast in their own time.
AcceptLoopEnds ==
    /\ main # "ended" /\ bound /\ serving.mode # "server"
    /\ bound' = FALSE
    /\ UNCHANGED <<fileVars, watchVars, events, main, flag, todo, live, started, serving, stop, updates, ends, table>>

TaskStep ==
    \/ EditEnds \/ WatchStarts \/ Rescan
    \/ Boot \/ TakeChange \/ TakeEnd \/ NoMoreEvents \/ TakeGeneral
    \/ InstanceStops \/ AcceptLoopEnds \/ InstanceUpdates \/ InstanceStarts
ReloadNext ==
    \/ \E d \in Docs : EditBegins(d)
    \/ WatcherExits
    \/ TaskStep

\* While some task can run, one does, and an editor finishes its write.
ReloadSpec == ReloadInit /\ [][ReloadNext]_reloadVars /\ WF_reloadVars(TaskStep)

-----------------------------------------------------------------------------
(* Properties. *)

\* The shape of the state; an end is reported only by an instance that ran.
ReloadTypeOK ==
    /\ file \in Docs \cup {Torn} /\ watch \in {"off", "on", "gone"}
    /\ main \in {"boot", "wait", "restart", "ended"} /\ flag \in Flags
    /\ live \subseteq 1..started /\ Len(ends) <= started
    /\ serving.mode \in ClientModes \cup {"server", "starting", "idle"}
    /\ DOMAIN loc = Names /\ DOMAIN sess = SessKeys
    /\ notes <= 2 * MaxEdits

\* A restart waits for the instance it replaces: two instances never run
\* side by side.
OneInstance == Cardinality(live) <= 1

\* What the sessions were told to serve is what the table lists, whatever
\* sequence of additions, moves and deletions led there: every service's
\* registration is at its session under its id, no session serves a
\* registration no service points to, and no session outlives its services.
TableAgrees ==
    /\ \A n \in Names : loc[n] # NoLoc => \E x \in sess[loc[n].key].slots : x.id = loc[n].id /\ x.name = n
    /\ \A k \in SessKeys : \A x \in sess[k].slots : loc[x.name] = [key |-> k, id |-> x.id]
    /\ \A k \in SessKeys : sess[k].on = (\E n \in Names : loc[n].key = k)

\* The lanes a transparent client's claims start with stay within the budget
\* its file writes, and every claim has one.
BudgetShared ==
    serving.mode = "transparent" =>
        LET t == Config[serving.conf].transparent
            slots == UNION {sess[k].slots : k \in SessKeys} IN
        /\ \A x \in slots : x.service.lanes >= 1
        /\ MapThenSumSet(LAMBDA x : x.service.lanes, slots) <= LaneBudget(t)

Excused == main = "ended" \/ ~Loads(file) \/ missed
Served == UNION {{[name |-> x.name, service |-> x.service] : x \in sess[k].slots} : k \in SessKeys}
FollowsFile ==
    LET want == ClientConf(file).services IN
    /\ \A n \in DOMAIN want : want[n].starts => [name |-> n, service |-> want[n]] \in Served
    /\ \A x \in Served : x.name \in DOMAIN want

\* Once the operator stops editing, a client serves the file: every service
\* the file has and the host can start, as the file describes it, and none
\* that the file dropped - unless the process ended, the file does not load,
\* or it was edited while the watcher was not watching.
Converges == <>[](main = "boot" \/ Excused \/ (Mode(file) \in ClientModes => FollowsFile))

\* No process lives on with nothing to run: an instance that stopped is
\* replaced or the process ends with it.
NoEmptyProcess == []<>(started = 0 \/ main = "ended" \/ live # {})

\* The safety of a reload: types, one instance at a time, and a table of
\* services that agrees with the sessions.
ReloadSafe == ReloadTypeOK /\ OneInstance /\ TableAgrees

\* What is served is what the file says: in the end its services, or the
\* process is over, and at all times no more lanes than it allows.
FileFollowed == []BudgetShared /\ Converges /\ NoEmptyProcess
=============================================================================
