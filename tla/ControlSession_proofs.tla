----------------------- MODULE ControlSession_proofs -----------------------
(***************************************************************************)
(* The control session, for every set of services and ids, every bound and *)
(* every combination of faults: its types; that the server never loses     *)
(* track of an endpoint it holds; that a verdict is about the service the  *)
(* client applies it to; and that what the client calls active is held for *)
(* it, or the news that it is not is under way.                            *)
(***************************************************************************)
EXTENDS ControlSession, FiniteSetTheorems, WellFoundedInduction, TLAPS

(* What keeps the types: the sweep and the drain have something to do, a   *)
(* session task that got past its first connection has one, and a handler  *)
(* that serves a registration has its id; a connection not made yet has no *)
(* handler.                                                                *)
Busy ==
  /\ cpc = "sweep" => todo # {}
  /\ cpc = "drain" => drops # <<>>
  /\ cpc \notin {"connect", "dead"} => conn # 0
  /\ \A n \in Conns : spc[n] \in {"bind", "publish"} => reg[n] # 0
  /\ \A n \in Conns : n > conn => spc[n] = "none"

SessionInv == SessionTypeOK /\ Busy

-----------------------------------------------------------------------------
(* A non-empty set of ids has a least one.                                 *)
LEMMA LeastIsMember ==
  ASSUME NEW S, S \subseteq Ids, S # {}
  PROVE  Least(S) \in S /\ \A j \in S : Least(S) <= j
<1> DEFINE R == {ss \in Nat \X Nat : ss[1] < ss[2]}
<1>1. S \subseteq Nat
  BY SessionAssumption
<1>2. IsWellFoundedOn(R, Nat)
  BY NatLessThanWellFounded, Zenon DEF OpToRel
<1>3. \E i \in S : \A j \in S : ~(<<j, i>> \in R)
  <2> HIDE DEF R
  <2> QED
    BY <1>1, <1>2, WFMin
<1>4. PICK i \in S : \A j \in S : ~(<<j, i>> \in R)
  BY <1>3
<1>5. \A j \in S : i <= j
  <2> SUFFICES ASSUME NEW j \in S PROVE i <= j
    OBVIOUS
  <2>1. ~(<<j, i>> \in R)
    BY <1>4
  <2> QED
    BY <1>1, <2>1
<1> QED
  BY <1>5 DEF Least

(* A sequence without its last element, and that element.                  *)
LEMMA FrontFacts ==
  ASSUME NEW S, NEW q \in Seq(S), q # <<>>
  PROVE  q[Len(q)] \in S /\ SubSeq(q, 1, Len(q) - 1) \in Seq(S)
  OBVIOUS

(* Adding to a queue and taking from one.                                  *)
LEMMA QueueFacts ==
  ASSUME NEW S, NEW q \in Seq(S)
  PROVE  /\ \A x \in S : Append(q, x) \in Seq(S) /\ Append(q, x) # <<>>
         /\ q # <<>> => Head(q) \in S /\ Tail(q) \in Seq(S)
<1>1. ASSUME NEW x \in S PROVE Append(q, x) \in Seq(S) /\ Append(q, x) # <<>>
  <2>1. Len(Append(q, x)) = Len(q) + 1 /\ Len(q) \in Nat /\ Append(q, x) \in Seq(S)
    OBVIOUS
  <2>2. Len(<<>>) = 0
    OBVIOUS
  <2> QED
    BY <2>1, <2>2
<1>2. q # <<>> => Head(q) \in S /\ Tail(q) \in Seq(S)
  OBVIOUS
<1> QED
  BY <1>1, <1>2

(* The initial state is well typed: there are finitely many first ids, so  *)
(* their registrations form a sequence.                                    *)
LEMMA SessionInit == Init => SessionInv
<1> SUFFICES ASSUME Init PROVE SessionInv
  OBVIOUS
<1>1. Cardinality(FirstIds) \in Nat
  BY SessionAssumption, FS_Subset, FS_CardinalityType DEF FirstIds
<1>2. requests \in Seq(Message({"register", "deregister"}))
  <2> DEFINE k == Cardinality(FirstIds)
  <2>1. requests \in [1..k -> {Req("register", id) : id \in FirstIds}]
    BY DEF Init
  <2>2. {Req("register", id) : id \in FirstIds} \subseteq Message({"register", "deregister"})
    BY DEF Req, Message, FirstIds
  <2> HIDE DEF k
  <2>3. requests \in [1..k -> Message({"register", "deregister"})]
    BY <2>1, <2>2
  <2> QED
    BY <1>1, <2>3 DEF k
<1>3. loc \in [Names -> Ids \cup {0}]
  <2>1. ASSUME NEW s \in Names PROVE Least({id \in Ids : NameOf[id] = s}) \in Ids
    <3> DEFINE S == {id \in Ids : NameOf[id] = s}
    <3>1. S \subseteq Ids /\ S # {}
      BY SessionAssumption
    <3> HIDE DEF S
    <3>2. Least(S) \in S
      BY <3>1, LeastIsMember
    <3> QED
      BY <3>1, <3>2 DEF S
  <2> QED
    BY <2>1 DEF Init
<1>4. BoundTypes
  BY SessionAssumption DEF Init, BoundTypes
<1>5. ConfigTypes /\ ClientTypes
  <2>1. fresh \subseteq Ids /\ shutdown = FALSE
    BY DEF Init
  <2>2. ConfigTypes
    BY <1>2, <1>3, <2>1 DEF ConfigTypes
  <2>3. ClientTypes
    BY DEF Init, ClientTypes
  <2> QED
    BY <2>2, <2>3
<1>6. WireTypes
  BY DEF Init, WireTypes
<1>7. ServerTypes
  BY DEF Init, ServerTypes
<1>8. Busy
  BY DEF Init, Busy
<1> QED
  BY <1>4, <1>5, <1>6, <1>7, <1>8 DEF SessionInv, SessionTypeOK

-----------------------------------------------------------------------------
(* A message for the other end, taken up or lost.                          *)
LEMMA SendTypes ==
  ASSUME WireTypes, NEW m \in Message({"register", "deregister"}), Send(m),
         UNCHANGED <<link, toClient>>
  PROVE  WireTypes'
  BY QueueFacts DEF WireTypes, Send

LEMMA TellTypes ==
  ASSUME WireTypes, NEW n, NEW m \in Message({"ok", "rejected", "dropped"}), Tell(n, m),
         UNCHANGED <<link, toServer>>
  PROVE  WireTypes'
  BY QueueFacts DEF WireTypes, Tell

(* Marking pools as stopping keeps the endpoints' type.                    *)
LEMMA StoppingTypes ==
  ASSUME ServerTypes, NEW n \in Conns, NEW S
  PROVE  Stopping(n, S) \in
           [Names -> [conn : Conns, id : Ids, stopping : BOOLEAN] \cup {Free}]
<1> DEFINE T == [conn : Conns, id : Ids, stopping : BOOLEAN] \cup {Free}
           q(s) == IF port[s].conn = n /\ port[s].id \in S
                   THEN [port[s] EXCEPT !.stopping = TRUE] ELSE port[s]
<1>1. ASSUME NEW s \in Names PROVE q(s) \in T
  <2>1. CASE port[s] = Free
    <3>1. 0 \notin Ids
      BY SessionAssumption
    <3>2. 0 \notin Conns
      BY DEF Conns
    <3> QED
      BY <2>1, <3>1, <3>2, SessionAssumption DEF Free
  <2>2. CASE port[s] \in [conn : Conns, id : Ids, stopping : BOOLEAN]
    BY <2>2
  <2> QED
    BY <2>1, <2>2 DEF ServerTypes
<1> QED
  BY <1>1 DEF Stopping

(* The bounds are counted down to zero.                                    *)
LEMMA EditTypes == ASSUME BoundTypes, Edit PROVE BoundTypes'
  BY SessionAssumption DEF BoundTypes, Edit

LEMMA FaultTypes == ASSUME BoundTypes, NEW k, Fault(k) PROVE BoundTypes'
  BY SessionAssumption DEF BoundTypes, Fault

(* Changes of the configuration keep the types.                            *)
LEMMA ConfigStep ==
  ASSUME SessionInv, NEW s \in Names, AddService(s) \/ DeleteService(s)
  PROVE  SessionInv'
<1> USE DEF SessionInv, SessionTypeOK
<1>1. ConfigTypes'
  <2>1. ASSUME NEW id \in Ids, NEW op \in {"register", "deregister"}
        PROVE  Append(requests, Req(op, id)) \in Seq(Message({"register", "deregister"}))
    <3>1. Req(op, id) \in Message({"register", "deregister"})
      BY DEF Req, Message
    <3> QED
      BY <3>1, QueueFacts DEF ConfigTypes
  <2>2. CASE AddService(s)
    BY <2>1, <2>2 DEF AddService, ConfigTypes
  <2>3. CASE DeleteService(s)
    BY <2>1, <2>3 DEF DeleteService, ConfigTypes
  <2> QED
    BY <2>2, <2>3
<1>2. BoundTypes'
  <2>1. Edit
    BY DEF AddService, DeleteService
  <2> QED
    BY <2>1, EditTypes
<1>3. ClientTypes' /\ WireTypes' /\ ServerTypes' /\ Busy'
  BY DEF AddService, DeleteService, clientVars, serverVars, ClientTypes, WireTypes,
         ServerTypes, Busy
<1> QED
  BY <1>1, <1>2, <1>3

(* A registration goes out: the command and the wait for its verdict.      *)
LEMMA RegisterTypes ==
  ASSUME WireTypes, conn \in Conns \cup {0}, NEW id \in Ids, Register(id),
         UNCHANGED <<link, toClient>>
  PROVE  WireTypes' /\ cur' \in Ids /\ cpc' = "await"
<1>1. Req("register", id) \in Message({"register", "deregister"})
  BY DEF Req, Message
<1> QED
  BY <1>1, SendTypes DEF Register

(* A message is read: what is left of the queue, and the message itself.   *)
LEMMA ReadingTypes ==
  ASSUME SessionInv, NEW S, S \subseteq {"await", "loop"}, Reading(S),
         UNCHANGED <<link, toServer>>
  PROVE  WireTypes' /\ NextMessage.id \in Ids /\ conn # 0
<1> USE DEF SessionInv, SessionTypeOK
<1>1. conn \in Conns /\ conn # 0
  BY SessionAssumption DEF Reading, Busy, ClientTypes, Conns
<1>2. /\ NextMessage \in Message({"ok", "rejected", "dropped"})
      /\ Tail(toClient[conn]) \in Seq(Message({"ok", "rejected", "dropped"}))
  BY <1>1, QueueFacts DEF Reading, NextMessage, WireTypes
<1>3. WireTypes'
  BY <1>1, <1>2 DEF Reading, WireTypes
<1> QED
  BY <1>1, <1>2, <1>3 DEF Message

(* The run of a connection ends: what stays is well typed.                 *)
LEMMA RunEndsTypes ==
  ASSUME SessionInv, RunEnds, cpc' \in {"connect", "over"},
         cpc \notin {"connect", "dead"}, UNCHANGED <<drops, conn, toServer>>,
         entry' \in [Ids -> {"absent", "registering", "active", "rejected"}]
  PROVE  ClientTypes' /\ WireTypes' /\ conn' # 0
<1> USE DEF SessionInv, SessionTypeOK
<1>1. ClientTypes' /\ conn' # 0
  BY DEF RunEnds, ClientTypes, Busy
<1>2. WireTypes'
  <2>1. <<>> \in Seq(Message({"ok", "rejected", "dropped"}))
    OBVIOUS
  <2> QED
    BY <2>1 DEF RunEnds, WireTypes
<1> QED
  BY <1>1, <1>2

(* After a registration the session task goes where there is work.         *)
LEMMA OnwardBusy ==
  ASSUME NEW d
  PROVE  /\ Onward(d) \in {"drain", "sweep", "loop"}
         /\ Onward(d) = "drain" => d # <<>>
         /\ Onward(d) = "sweep" => todo # {}
  BY DEF Onward

(* The steps of the client's session task keep the types.                  *)
LEMMA ClientKeepsTypes ==
  ASSUME SessionInv,
         ClientStep \/ HelloUnanswered \/ ActivateFails \/ TakeShutdown \/ LosesConnection
  PROVE  SessionInv'
<1> USE DEF SessionInv, SessionTypeOK
<1> DEFINE States == {"absent", "registering", "active", "rejected"}
<1>0. conn \in Conns \cup {0} /\ 0 \notin Ids /\ entry \in [Ids -> States]
  BY SessionAssumption DEF ClientTypes
<1>1. CASE Connect
  <2>1. ClientTypes' /\ WireTypes' /\ ServerTypes' /\ ConfigTypes' /\ BoundTypes'
    BY <1>1 DEF Connect, ClientTypes, WireTypes, ServerTypes, ConfigTypes, configVars, BoundTypes
  <2>2. conn' = conn + 1 /\ conn \in Nat /\ conn' # 0 /\ cpc' = "resume"
    BY <1>0, <1>1, SessionAssumption DEF Connect, Conns
  <2>3. \A n \in Conns : n # conn + 1 => spc'[n] = spc[n] /\ reg'[n] = reg[n]
    BY <1>1 DEF Connect, ServerTypes
  <2>4. spc'[conn + 1] = "serve"
    BY <1>1 DEF Connect, ServerTypes
  <2>5. \A n \in Conns : spc'[n] \in {"bind", "publish"} => reg'[n] # 0
    BY <2>3, <2>4 DEF Busy
  <2>6. \A n \in Conns : n > conn' => spc'[n] = "none"
    BY <2>2, <2>3 DEF Busy, Conns
  <2>7. Busy'
    BY <2>2, <2>5, <2>6 DEF Busy
  <2> QED
    BY <2>1, <2>7
<1>2. CASE HelloUnanswered
  <2>1. BoundTypes'
    BY <1>2, FaultTypes DEF HelloUnanswered
  <2> QED
    BY <1>2, <2>1 DEF HelloUnanswered, ClientTypes, WireTypes, ServerTypes, ConfigTypes,
                      configVars, serverVars, Busy
<1>3. CASE Resume
  <2>1. Applied(entry) \in [Ids -> States]
    BY <1>0 DEF Applied
  <2>2. entry' \in [Ids -> States] /\ todo' \subseteq Ids
    BY <1>3, <2>1 DEF Resume, Reregistering
  <2>3. ClientTypes' /\ (cpc' = "sweep" => todo' # {}) /\ cpc' # "drain" /\ conn' # 0
    BY <1>3, <2>2 DEF Resume, ClientTypes, Busy
  <2>4. ConfigTypes' /\ WireTypes' /\ ServerTypes' /\ BoundTypes'
    BY <1>3 DEF Resume, ConfigTypes, WireTypes, ServerTypes, serverVars, BoundTypes
  <2> QED
    BY <1>3, <2>3, <2>4 DEF Resume, Busy, serverVars
<1>4. CASE Sweep
  <2>1. Least(todo) \in todo /\ todo \subseteq Ids
    BY <1>4, LeastIsMember DEF Sweep, Busy, ClientTypes
  <2>2. Least(todo) \in Ids
    BY <2>1
  <2>3. WireTypes' /\ cur' \in Ids /\ cpc' = "await"
    BY <1>0, <1>4, <2>2, RegisterTypes DEF Sweep
  <2> QED
    BY <1>4, <2>3 DEF Sweep, ClientTypes, ServerTypes, ConfigTypes, configVars, serverVars,
                      BoundTypes, Busy
<1>5. CASE AwaitDropped
  <2>1. WireTypes' /\ NextMessage.id \in Ids /\ conn # 0
    BY <1>5, ReadingTypes DEF AwaitDropped
  <2>2. drops' \in Seq(Ids)
    BY <1>5, <2>1, QueueFacts DEF AwaitDropped, ClientTypes
  <2> QED
    BY <1>5, <2>1, <2>2 DEF AwaitDropped, Reading, ClientTypes, ServerTypes, ConfigTypes,
                            configVars, serverVars, BoundTypes, Busy
<1>6. CASE VerdictOk
  <2>1. WireTypes' /\ conn # 0
    BY <1>6, ReadingTypes DEF VerdictOk
  <2> QED
    BY <1>6, <2>1 DEF VerdictOk, ClientTypes, ServerTypes, ConfigTypes,
                      configVars, serverVars, BoundTypes, Busy
<1>7. CASE VerdictRejected
  <2>1. WireTypes' /\ conn # 0
    BY <1>7, ReadingTypes DEF VerdictRejected
  <2>2. entry' \in [Ids -> States]
    BY <1>0, <1>7 DEF VerdictRejected
  <2> QED
    BY <1>7, <2>1, <2>2, OnwardBusy DEF VerdictRejected, ClientTypes, ServerTypes, ConfigTypes,
                      configVars, serverVars, BoundTypes, Busy
<1>8. CASE Activate
  <2>1. entry' \in [Ids -> States]
    BY <1>0, <1>8 DEF Activate
  <2> QED
    BY <1>8, <2>1, OnwardBusy DEF Activate, ClientTypes, WireTypes, ServerTypes, ConfigTypes,
                      configVars, serverVars, BoundTypes, Busy
<1>9. CASE ActivateFails
  <2>1. entry' \in [Ids -> States]
    BY <1>0, <1>9 DEF ActivateFails
  <2>2. ClientTypes' /\ WireTypes' /\ conn' # 0
    BY <1>9, <2>1, RunEndsTypes DEF ActivateFails, RunFails
  <2>3. BoundTypes'
    BY <1>9, FaultTypes DEF ActivateFails
  <2> QED
    BY <1>9, <2>2, <2>3 DEF ActivateFails, RunFails, ServerTypes, ConfigTypes, configVars,
                            serverVars, Busy
<1>10. CASE DrainRegister
  <2>1. LastDrop \in Ids /\ drops' \in Seq(Ids)
    BY <1>10, FrontFacts DEF DrainRegister, PopDrop, LastDrop, Busy, ClientTypes
  <2>2. WireTypes' /\ cur' \in Ids /\ cpc' = "await"
    BY <1>0, <1>10, <2>1, RegisterTypes DEF DrainRegister
  <2>3. entry' \in [Ids -> States]
    BY <1>0, <1>10 DEF DrainRegister
  <2> QED
    BY <1>10, <2>1, <2>2, <2>3 DEF DrainRegister, ClientTypes, ServerTypes, ConfigTypes,
                      configVars, serverVars, BoundTypes, Busy
<1>11. CASE DrainSkip
  <2>1. drops' \in Seq(Ids)
    BY <1>11, FrontFacts DEF DrainSkip, PopDrop, Busy, ClientTypes
  <2>2. /\ cpc' \in {"drain", "sweep", "loop"}
        /\ cpc' = "drain" => drops' # <<>>
        /\ cpc' = "sweep" => todo # {}
    BY <1>11, OnwardBusy DEF DrainSkip
  <2> QED
    BY <1>11, <2>1, <2>2 DEF DrainSkip, ClientTypes, WireTypes, ServerTypes, ConfigTypes,
                      configVars, serverVars, BoundTypes, Busy
<1>12. CASE LoopDropped
  <2>1. WireTypes' /\ NextMessage.id \in Ids /\ conn # 0
    BY <1>12, ReadingTypes DEF LoopDropped
  <2>2. drops' \in Seq(Ids) /\ drops' # <<>>
    BY <1>12, <2>1, QueueFacts DEF LoopDropped, ClientTypes
  <2> QED
    BY <1>12, <2>1, <2>2 DEF LoopDropped, ClientTypes, ServerTypes, ConfigTypes,
                            configVars, serverVars, BoundTypes, Busy
<1>13. CASE TakeRegister
  <2>1. /\ Head(requests) \in Message({"register", "deregister"})
        /\ requests' \in Seq(Message({"register", "deregister"}))
    BY <1>13, QueueFacts DEF TakeRegister, ConfigTypes
  <2>2. Head(requests).id \in Ids
    BY <2>1 DEF Message
  <2>3. WireTypes' /\ cur' \in Ids /\ cpc' = "await"
    BY <1>0, <1>13, <2>2, RegisterTypes DEF TakeRegister
  <2>4. entry' \in [Ids -> States]
    BY <1>0, <1>13 DEF TakeRegister
  <2> QED
    BY <1>13, <2>1, <2>3, <2>4 DEF TakeRegister, ClientTypes, ServerTypes, ConfigTypes,
                      serverVars, BoundTypes, Busy
<1>14. CASE TakeDeregister
  <2>1. /\ Head(requests) \in Message({"register", "deregister"})
        /\ requests' \in Seq(Message({"register", "deregister"}))
    BY <1>14, QueueFacts DEF TakeDeregister, ConfigTypes
  <2>2. WireTypes'
    <3>1. CASE Send(Head(requests))
      BY <1>14, <2>1, <3>1, SendTypes DEF TakeDeregister
    <3>2. CASE UNCHANGED toServer
      BY <1>14, <3>2 DEF TakeDeregister, WireTypes
    <3> QED
      BY <1>14, <3>1, <3>2 DEF TakeDeregister
  <2>3. entry' \in [Ids -> States]
    BY <1>0, <1>14 DEF TakeDeregister
  <2> QED
    BY <1>14, <2>1, <2>2, <2>3 DEF TakeDeregister, ClientTypes, ServerTypes, ConfigTypes,
                      serverVars, BoundTypes, Busy
<1>15. CASE TakeShutdown
  <2>1. ClientTypes' /\ WireTypes' /\ conn' # 0
    BY <1>0, <1>15, RunEndsTypes DEF TakeShutdown
  <2> QED
    BY <1>15, <2>1 DEF TakeShutdown, ServerTypes, ConfigTypes, configVars,
                       serverVars, BoundTypes, Busy
<1>16. CASE LosesConnection
  <2>1. ClientTypes' /\ WireTypes' /\ conn' # 0
    BY <1>0, <1>16, RunEndsTypes DEF LosesConnection, RunFails
  <2> QED
    BY <1>16, <2>1 DEF LosesConnection, RunFails, ServerTypes, ConfigTypes, configVars,
                       serverVars, BoundTypes, Busy
<1> QED
  BY <1>1, <1>2, <1>3, <1>4, <1>5, <1>6, <1>7, <1>8, <1>9, <1>10, <1>11, <1>12, <1>13,
     <1>14, <1>15, <1>16 DEF ClientStep

(* A connection that is cut or goes quiet keeps the types.                 *)
LEMMA NetworkKeepsTypes ==
  ASSUME SessionInv, Cut \/ FallSilent
  PROVE  SessionInv'
<1> USE DEF SessionInv, SessionTypeOK
<1>1. BoundTypes'
  BY FaultTypes DEF Cut, FallSilent
<1>2. CASE Cut
  BY <1>1, <1>2 DEF Cut, ClientTypes, WireTypes, ServerTypes, ConfigTypes,
                    clientVars, configVars, serverVars, Busy
<1>3. CASE FallSilent
  BY <1>1, <1>3 DEF FallSilent, ClientTypes, WireTypes, ServerTypes, ConfigTypes,
                    clientVars, configVars, serverVars, Busy
<1> QED
  BY <1>2, <1>3

(* The steps of one session handler keep the types.                        *)
LEMMA HandlerKeepsTypes ==
  ASSUME SessionInv, NEW n \in Conns, HandlerStep(n) \/ SessionEnds(n)
  PROVE  SessionInv'
<1> USE DEF SessionInv, SessionTypeOK
<1>0. 0 \notin Ids
  BY SessionAssumption
<1>a. ConfigTypes' /\ ClientTypes' /\ BoundTypes' /\ UNCHANGED <<cpc, todo, drops, conn>>
  BY DEF HandlerStep, SessionEnds, ServeRegister, ServeDeregister, BindRefused, Bound, Publish,
         ConfigTypes, ClientTypes, BoundTypes, configVars, clientVars
<1>b. ASSUME ServerReads(n), UNCHANGED <<link, toClient>>
      PROVE  WireTypes' /\ Head(toServer[n]).id \in Ids
  <2>1. /\ Head(toServer[n]) \in Message({"register", "deregister"})
        /\ Tail(toServer[n]) \in Seq(Message({"register", "deregister"}))
    BY <1>b, QueueFacts DEF ServerReads, WireTypes
  <2> QED
    BY <1>b, <2>1 DEF ServerReads, WireTypes, Message
<1>c. ASSUME NEW op \in {"ok", "rejected"}, NEW then \in {"serve", "publish"},
             spc[n] = "bind", Ack(n, op, then), UNCHANGED <<link, toServer>>
      PROVE  /\ WireTypes'
             /\ spc' \in [Conns -> {"none", "serve", "bind", "publish", "failed", "ended"}]
             /\ \A m \in Conns : m # n => spc'[m] = spc[m]
             /\ spc'[n] \in {then, "failed"}
  <2>1. Req(op, reg[n]) \in Message({"ok", "rejected", "dropped"})
    BY <1>c DEF Req, Message, Busy, ServerTypes
  <2>2. WireTypes'
    <3>1. CASE n \in registered
      BY <1>c, <2>1, <3>1, TellTypes DEF Ack
    <3>2. CASE n \notin registered
      BY <1>c, <3>2 DEF Ack, WireTypes
    <3> QED
      BY <3>1, <3>2
  <2> QED
    BY <1>c, <2>2 DEF Ack, ServerTypes
<1>1. CASE ServeRegister(n)
  <2>1. WireTypes' /\ Head(toServer[n]).id \in Ids
    BY <1>1, <1>b DEF ServeRegister
  <2>2. port' \in [Names -> [conn : Conns, id : Ids, stopping : BOOLEAN] \cup {Free}]
    BY <1>1, StoppingTypes DEF ServeRegister, Takeover
  <2>3. ServerTypes'
    BY <1>1, <2>1, <2>2 DEF ServeRegister, Takeover, ServerTypes
  <2>4. Busy'
    <3>1. spc[n] = "serve" /\ reg'[n] # 0
      BY <1>0, <1>1, <2>1 DEF ServeRegister, ServerReads, ServerTypes
    <3>2. \A m \in Conns : m # n => spc'[m] = spc[m] /\ reg'[m] = reg[m]
      BY <1>1 DEF ServeRegister, ServerTypes
    <3> QED
      BY <1>a, <3>1, <3>2 DEF Busy
  <2> QED
    BY <1>a, <2>1, <2>3, <2>4
<1>2. CASE ServeDeregister(n)
  <2>1. WireTypes' /\ Head(toServer[n]).id \in Ids
    BY <1>2, <1>b DEF ServeDeregister
  <2>2. port' \in [Names -> [conn : Conns, id : Ids, stopping : BOOLEAN] \cup {Free}]
    BY <1>2, StoppingTypes DEF ServeDeregister, Takeover
  <2>3. ServerTypes'
    BY <1>2, <2>1, <2>2 DEF ServeDeregister, Takeover, ServerTypes
  <2>4. Busy'
    BY <1>2, <1>a DEF ServeDeregister, Busy
  <2> QED
    BY <1>a, <2>1, <2>3, <2>4
<1>3. CASE BindRefused(n)
  <2>1. /\ WireTypes'
        /\ spc' \in [Conns -> {"none", "serve", "bind", "publish", "failed", "ended"}]
        /\ \A m \in Conns : m # n => spc'[m] = spc[m]
        /\ spc'[n] \in {"serve", "failed"}
    BY <1>3, <1>c DEF BindRefused
  <2>2. ServerTypes'
    BY <1>3, <2>1 DEF BindRefused, ServerTypes
  <2>3. Busy'
    BY <1>3, <1>a, <2>1 DEF BindRefused, Busy, ServerTypes
  <2> QED
    BY <1>a, <2>1, <2>2, <2>3
<1>4. CASE Bound(n)
  <2>1. /\ WireTypes'
        /\ spc' \in [Conns -> {"none", "serve", "bind", "publish", "failed", "ended"}]
        /\ \A m \in Conns : m # n => spc'[m] = spc[m]
        /\ spc'[n] \in {"publish", "failed"}
    BY <1>4, <1>c DEF Bound
  <2>2. reg[n] \in Ids
    BY <1>4 DEF Bound, Busy, ServerTypes
  <2>3. Holder(n, reg[n]) \in [conn : Conns, id : Ids, stopping : BOOLEAN]
    BY <2>2 DEF Holder
  <2>4. ServerTypes'
    BY <1>4, <2>1, <2>3 DEF Bound, ServerTypes
  <2>5. Busy'
    BY <1>0, <1>4, <1>a, <2>1, <2>2 DEF Bound, Busy
  <2> QED
    BY <1>a, <2>1, <2>4, <2>5
<1>5. CASE Publish(n)
  <2>1. reg[n] \in Ids
    BY <1>5 DEF Publish, Busy, ServerTypes
  <2>2. port' \in [Names -> [conn : Conns, id : Ids, stopping : BOOLEAN] \cup {Free}]
    BY <1>5, StoppingTypes DEF Publish, ServerTypes
  <2>3. ServerTypes'
    BY <1>5, <2>1, <2>2 DEF Publish, ServerTypes
  <2>4. WireTypes' /\ Busy'
    BY <1>5, <1>a DEF Publish, Busy, WireTypes, ServerTypes
  <2> QED
    BY <1>a, <2>3, <2>4
<1>6. CASE SessionEnds(n)
  <2>1. port' \in [Names -> [conn : Conns, id : Ids, stopping : BOOLEAN] \cup {Free}]
    BY <1>6, StoppingTypes DEF SessionEnds
  <2>2. ServerTypes'
    BY <1>6, <2>1 DEF SessionEnds, ServerTypes
  <2>3. <<>> \in Seq(Message({"register", "deregister"}))
    OBVIOUS
  <2>4. WireTypes' /\ Busy'
    BY <1>6, <1>a, <2>3 DEF SessionEnds, Busy, WireTypes, ServerTypes
  <2> QED
    BY <1>a, <2>2, <2>4
<1> QED
  BY <1>1, <1>2, <1>3, <1>4, <1>5, <1>6 DEF HandlerStep

(* Pools that end and a server that shuts down keep the types.             *)
LEMMA PoolsKeepTypes ==
  ASSUME SessionInv,
         ServerStops \/ \E s \in Names : PoolStops(s) \/ PoolDies(s)
  PROVE  SessionInv'
<1> USE DEF SessionInv, SessionTypeOK
<1> DEFINE T == [conn : Conns, id : Ids, stopping : BOOLEAN] \cup {Free}
<1>1. ASSUME NEW s \in Names, PoolStops(s) PROVE SessionInv'
  BY <1>1 DEF PoolStops, ConfigTypes, ClientTypes, WireTypes, ServerTypes, BoundTypes, Busy,
              clientVars, configVars
<1>2. ASSUME NEW s \in Names, PoolDies(s) PROVE SessionInv'
  <2>1. port[s].conn \in Conns /\ port[s].id \in Ids
    BY <1>2 DEF PoolDies, ServerTypes
  <2>2. Req("dropped", port[s].id) \in Message({"ok", "rejected", "dropped"})
    BY <2>1 DEF Req, Message
  <2>3. WireTypes'
    BY <1>2, <2>2, TellTypes DEF PoolDies
  <2>4. BoundTypes'
    BY <1>2, FaultTypes DEF PoolDies
  <2> QED
    BY <1>2, <2>3, <2>4 DEF PoolDies, ConfigTypes, ClientTypes, ServerTypes, Busy,
                            clientVars, configVars
<1>3. ASSUME ServerStops PROVE SessionInv'
  <2>1. port' \in [Names -> T]
    <3> DEFINE q(s) == IF port[s] # Free /\ port[s].id \in handles[port[s].conn]
                       THEN [port[s] EXCEPT !.stopping = TRUE] ELSE port[s]
    <3>1. ASSUME NEW s \in Names PROVE q(s) \in T
      BY DEF ServerTypes
    <3> QED
      BY <1>3, <3>1 DEF ServerStops
  <2>2. BoundTypes'
    BY <1>3, FaultTypes DEF ServerStops
  <2>3. ServerTypes'
    BY <1>3, <2>1 DEF ServerStops, ServerTypes
  <2> QED
    BY <1>3, <2>2, <2>3 DEF ServerStops, ConfigTypes, ClientTypes, WireTypes, Busy,
                            clientVars, configVars
<1> QED
  BY <1>1, <1>2, <1>3

(* Every step keeps the types.                                             *)
LEMMA StepKeepsTypes == SessionInv /\ [Next]_vars => SessionInv'
<1> SUFFICES ASSUME SessionInv, [Next]_vars PROVE SessionInv'
  OBVIOUS
<1>1. CASE UNCHANGED vars
  BY <1>1 DEF vars, SessionInv, SessionTypeOK, Busy, ConfigTypes, ClientTypes, WireTypes,
              ServerTypes, BoundTypes
<1>2. CASE Next
  BY <1>2, ConfigStep, ClientKeepsTypes, NetworkKeepsTypes, HandlerKeepsTypes, PoolsKeepTypes
     DEF Next, Disturbance
<1> QED
  BY <1>1, <1>2

(* The session's variables keep their types for every set of services and  *)
(* every combination of faults: in particular a verdict, a drop or a sweep *)
(* never makes the client register an id it does not have.                 *)
THEOREM SessionTypes == Spec => []SessionTypeOK
<1>1. SessionInv => SessionTypeOK
  BY DEF SessionInv
<1> QED
  BY SessionInit, StepKeepsTypes, <1>1, PTL DEF Spec

-----------------------------------------------------------------------------
(* What EndpointsOwned says of one endpoint.                               *)
Owned(s) ==
  port[s] # Free /\ ~port[s].stopping =>
    \/ port[s].conn \in registered /\ port[s].id \in handles[port[s].conn]
    \/ spc[port[s].conn] = "publish" /\ reg[port[s].conn] = port[s].id

(* A handler that shuts handles down leaves every endpoint owned: the ones *)
(* of those handles are stopping, and the others keep their owner.         *)
LEMMA ShutDownOwned ==
  ASSUME SessionInv, EndpointsOwned, NEW n \in Conns, NEW S,
         spc[n] # "publish",
         port' = Stopping(n, handles[n] \cap S),
         \/ registered' = registered
         \/ registered' = registered \ {n} /\ handles[n] \subseteq S,
         handles' = [handles EXCEPT ![n] = @ \ S],
         \A m \in Conns : m # n => spc'[m] = spc[m] /\ reg'[m] = reg[m]
  PROVE  EndpointsOwned'
<1> SUFFICES ASSUME NEW s \in Names PROVE Owned(s)'
  BY DEF EndpointsOwned, Owned
<1> SUFFICES ASSUME (port[s] # Free /\ ~port[s].stopping)'
             PROVE  \/ (port[s].conn \in registered /\ port[s].id \in handles[port[s].conn])'
                    \/ (spc[port[s].conn] = "publish" /\ reg[port[s].conn] = port[s].id)'
  BY DEF Owned
<1>0. port \in [Names -> [conn : Conns, id : Ids, stopping : BOOLEAN] \cup {Free}]
  BY DEF SessionInv, SessionTypeOK, ServerTypes
<1>1. port'[s] = port[s] /\ ~(port[s].conn = n /\ port[s].id \in handles[n] \cap S)
  <2>1. CASE port[s].conn = n /\ port[s].id \in handles[n] \cap S
    <3>1. port'[s] = [port[s] EXCEPT !.stopping = TRUE]
      BY <2>1 DEF Stopping
    <3>2. port'[s].stopping
      BY <1>0, <3>1 DEF Free
    <3> QED
      BY <3>2
  <2>2. CASE ~(port[s].conn = n /\ port[s].id \in handles[n] \cap S)
    BY <2>2 DEF Stopping
  <2> QED
    BY <2>1, <2>2
<1>2. Owned(s) /\ port[s] # Free /\ ~port[s].stopping /\ port[s].conn \in Conns
  BY <1>0, <1>1 DEF EndpointsOwned, Owned
<1>3. CASE port[s].conn # n
  BY <1>1, <1>2, <1>3 DEF Owned, SessionInv, SessionTypeOK, ServerTypes
<1>4. CASE port[s].conn = n
  <2>1. n \in registered /\ port[s].id \in handles[n] /\ port[s].id \notin S
    BY <1>1, <1>2, <1>4 DEF Owned
  <2>2. n \in registered'
    BY <2>1
  <2> QED
    BY <1>1, <1>4, <2>1, <2>2 DEF SessionInv, SessionTypeOK, ServerTypes
<1> QED
  BY <1>3, <1>4

(* Steps that touch neither the endpoints nor their owners.                *)
LEMMA OthersOwned ==
  ASSUME EndpointsOwned, UNCHANGED <<port, handles, spc, reg>>, registered \subseteq registered'
  PROVE  EndpointsOwned'
  BY DEF EndpointsOwned

(* No step loses the owner of an endpoint.                                 *)
LEMMA StepKeepsOwned ==
  ASSUME SessionInv, EndpointsOwned, [Next]_vars
  PROVE  EndpointsOwned'
<1> USE DEF SessionInv, SessionTypeOK
<1>1. CASE UNCHANGED vars
  BY <1>1, OthersOwned DEF vars
<1>2. CASE \E s \in Names : AddService(s) \/ DeleteService(s)
  BY <1>2, OthersOwned DEF AddService, DeleteService, serverVars
<1>3. CASE HelloUnanswered \/ ActivateFails \/ TakeShutdown \/ LosesConnection \/ Cut \/ FallSilent
  BY <1>3, OthersOwned DEF HelloUnanswered, ActivateFails, TakeShutdown, LosesConnection, Cut,
                           FallSilent, serverVars
<1>4. CASE ClientStep
  <2>1. CASE Connect
    \* A handler of a connection never used before owns nothing yet.
    <3> SUFFICES ASSUME NEW s \in Names PROVE Owned(s)'
      BY DEF EndpointsOwned, Owned
    <3>1. Owned(s)
      BY DEF EndpointsOwned, Owned
    <3>2. CASE port[s] = Free
      BY <2>1, <3>2 DEF Connect, Owned
    <3>3. CASE port[s] # Free
      <4>1. port[s].conn \in Conns
        BY <3>3 DEF ServerTypes
      <4>2. spc[conn + 1] = "none"
        BY <2>1 DEF Connect, Busy, ClientTypes, Conns
      <4>3. spc[port[s].conn] = "publish" => spc'[port[s].conn] = "publish"
        BY <2>1, <4>1, <4>2 DEF Connect, ServerTypes
      <4> QED
        BY <2>1, <3>1, <3>3, <4>1, <4>3 DEF Connect, Owned, ServerTypes
    <3> QED
      BY <3>2, <3>3
  <2>2. CASE ~Connect
    BY <1>4, <2>2, OthersOwned DEF ClientStep, Resume, Sweep, AwaitDropped, VerdictOk,
       VerdictRejected, Activate, DrainRegister, DrainSkip, LoopDropped, TakeRegister,
       TakeDeregister, serverVars
  <2> QED
    BY <2>1, <2>2
<1>5. ASSUME NEW n \in Conns, HandlerStep(n) \/ SessionEnds(n) PROVE EndpointsOwned'
  <2>1. CASE ServeRegister(n) \/ ServeDeregister(n)
    <3> DEFINE S == {Head(toServer[n]).id}
    <3>1. spc[n] # "publish" /\ registered' = registered
      BY <2>1 DEF ServeRegister, ServeDeregister, ServerReads
    <3>2. /\ port' = Stopping(n, handles[n] \cap S)
          /\ handles' = [handles EXCEPT ![n] = @ \ S]
      BY <2>1 DEF ServeRegister, ServeDeregister, Takeover
    <3>3. \A m \in Conns : m # n => spc'[m] = spc[m] /\ reg'[m] = reg[m]
      BY <2>1 DEF ServeRegister, ServeDeregister, ServerTypes
    <3> HIDE DEF S
    <3> QED
      BY <3>1, <3>2, <3>3, ShutDownOwned
  <2>2. CASE SessionEnds(n)
    <3> DEFINE S == handles[n]
    <3>1. spc[n] # "publish" /\ registered' = registered \ {n} /\ handles[n] \subseteq S
      BY <2>2 DEF SessionEnds
    <3>2. /\ port' = Stopping(n, handles[n] \cap S)
          /\ handles' = [handles EXCEPT ![n] = @ \ S]
      <4>1. handles[n] \cap S = handles[n] /\ handles[n] \ S = {}
        OBVIOUS
      <4> QED
        BY <2>2, <4>1 DEF SessionEnds, ServerTypes
    <3>3. \A m \in Conns : m # n => spc'[m] = spc[m] /\ reg'[m] = reg[m]
      BY <2>2 DEF SessionEnds, ServerTypes
    <3> HIDE DEF S
    <3> QED
      BY <3>1, <3>2, <3>3, ShutDownOwned
  <2>3. CASE BindRefused(n)
    <3>1. spc[n] = "bind" /\ UNCHANGED <<port, handles, registered>>
      BY <2>3 DEF BindRefused
    <3>2. \A m \in Conns : m # n => spc'[m] = spc[m] /\ reg'[m] = reg[m]
      BY <2>3 DEF BindRefused, Ack, ServerTypes
    <3> QED
      BY <3>1, <3>2 DEF EndpointsOwned, ServerTypes
  <2>4. CASE Bound(n)
    <3>1. spc[n] = "bind" /\ UNCHANGED <<reg, handles, registered>>
      BY <2>4 DEF Bound
    <3>2. \A m \in Conns : m # n => spc'[m] = spc[m]
      BY <2>4 DEF Bound, Ack, ServerTypes
    <3> SUFFICES ASSUME NEW s \in Names PROVE Owned(s)'
      BY DEF EndpointsOwned, Owned
    <3>3. CASE port'[s] = port[s]
      BY <3>1, <3>2, <3>3 DEF EndpointsOwned, Owned, ServerTypes
    <3>4. CASE port'[s] # port[s]
      \* The endpoint just bound is about to be filed.
      <4>1. n \in registered /\ port'[s] = Holder(n, reg[n])
        BY <2>4, <3>4 DEF Bound, ServerTypes
      <4>2. spc'[n] = "publish"
        BY <2>4, <4>1 DEF Bound, Ack, ServerTypes
      <4> QED
        BY <3>1, <4>1, <4>2 DEF Owned, Holder
    <3> QED
      BY <3>3, <3>4
  <2>5. CASE Publish(n)
    <3>1. spc[n] = "publish" /\ registered' = registered
      BY <2>5 DEF Publish
    <3>2. \A m \in Conns : m # n => spc'[m] = spc[m] /\ reg'[m] = reg[m]
      BY <2>5 DEF Publish, ServerTypes
    <3>3. CASE n \in registered
      BY <2>5, <3>1, <3>2, <3>3 DEF Publish, EndpointsOwned, ServerTypes
    <3>4. CASE n \notin registered
      <4> SUFFICES ASSUME NEW s \in Names, (port[s] # Free /\ ~port[s].stopping)'
                   PROVE  \/ (port[s].conn \in registered /\ port[s].id \in handles[port[s].conn])'
                          \/ (spc[port[s].conn] = "publish" /\ reg[port[s].conn] = port[s].id)'
        BY DEF EndpointsOwned
      <4>1. port' = Stopping(n, {reg[n]}) /\ handles' = handles
        BY <2>5, <3>4 DEF Publish
      <4>2. port'[s] = port[s] /\ ~(port[s].conn = n /\ port[s].id = reg[n])
        <5>1. CASE port[s].conn = n /\ port[s].id = reg[n]
          <6>1. port'[s] = [port[s] EXCEPT !.stopping = TRUE]
            BY <4>1, <5>1 DEF Stopping
          <6>2. port'[s].stopping
            BY <6>1 DEF Free, ServerTypes
          <6> QED
            BY <6>2
        <5>2. CASE ~(port[s].conn = n /\ port[s].id = reg[n])
          BY <4>1, <5>2 DEF Stopping
        <5> QED
          BY <5>1, <5>2
      <4>3. port[s].conn \in Conns
        BY <4>2 DEF ServerTypes
      <4> QED
        BY <3>1, <3>2, <3>4, <4>1, <4>2, <4>3 DEF EndpointsOwned
    <3> QED
      BY <3>3, <3>4
  <2> QED
    BY <1>5, <2>1, <2>2, <2>3, <2>4, <2>5 DEF HandlerStep
<1>6. CASE \E s \in Names : PoolStops(s) \/ PoolDies(s)
  <2>1. PICK t \in Names : PoolStops(t) \/ PoolDies(t)
    BY <1>6
  <2>2. port' = [port EXCEPT ![t] = Free] /\ UNCHANGED <<spc, reg, registered, handles>>
    BY <2>1 DEF PoolStops, PoolDies
  <2> QED
    BY <2>2 DEF EndpointsOwned, ServerTypes
<1>7. CASE ServerStops
  <2> SUFFICES ASSUME NEW s \in Names, (port[s] # Free /\ ~port[s].stopping)'
               PROVE  (spc[port[s].conn] = "publish" /\ reg[port[s].conn] = port[s].id)'
    BY DEF EndpointsOwned
  <2>1. CASE port[s] # Free /\ port[s].id \in handles[port[s].conn]
    <3>1. port'[s] = [port[s] EXCEPT !.stopping = TRUE]
      BY <1>7, <2>1 DEF ServerStops
    <3>2. port'[s].stopping
      BY <2>1, <3>1 DEF ServerTypes
    <3> QED
      BY <3>2
  <2>2. CASE ~(port[s] # Free /\ port[s].id \in handles[port[s].conn])
    <3>1. port'[s] = port[s]
      BY <1>7, <2>2 DEF ServerStops
    <3> QED
      BY <1>7, <2>2, <3>1 DEF ServerStops, EndpointsOwned
  <2> QED
    BY <2>1, <2>2
<1>8. CASE Next
  BY <1>2, <1>3, <1>4, <1>5, <1>6, <1>7, <1>8 DEF Next, Disturbance
<1> QED
  BY <1>1, <1>8

(* The server never loses track of an endpoint: whatever sessions end,     *)
(* services are taken over and the server is stopped, at any moment of a   *)
(* registration, an endpoint that is held and not being released has a     *)
(* handle in the registry, or a registration that is about to file one.    *)
THEOREM EndpointsAreOwned == Spec => []EndpointsOwned
<1> DEFINE I == SessionInv /\ EndpointsOwned
<1>1. Init => I
  <2>1. Init => EndpointsOwned
    BY DEF Init, EndpointsOwned
  <2> QED
    BY <2>1, SessionInit
<1>2. I /\ [Next]_vars => I'
  BY StepKeepsTypes, StepKeepsOwned
<1>3. I => EndpointsOwned
  OBVIOUS
<1> HIDE DEF I
<1> QED
  BY <1>1, <1>2, <1>3, PTL DEF Spec

-----------------------------------------------------------------------------
(* One registration in flight.  A queue holds no message of some kinds, or *)
(* exactly one and it is about id.                                         *)
NoneOf(q, ops) == \A i \in 1..Len(q) : q[i].op \notin ops
OneOf(q, ops, id) ==
  \E k \in 1..Len(q) : /\ q[k].op \in ops /\ q[k].id = id
                       /\ \A i \in 1..Len(q) : q[i].op \in ops => i = k

VerdictOps == {"ok", "rejected"}
RegisterOps == {"register"}

(* What is under way on a connection with the queues a (to the server) and *)
(* b (to the client), whose handler is at p and serves registration r:     *)
(* nothing, or one registration of id - sent, being served, or answered.   *)
Quiet(a, b, p) == NoneOf(a, RegisterOps) /\ p # "bind" /\ NoneOf(b, VerdictOps)
Pending(a, b, p, r, id) ==
  \/ OneOf(a, RegisterOps, id) /\ p # "bind" /\ NoneOf(b, VerdictOps)
  \/ NoneOf(a, RegisterOps) /\ p = "bind" /\ r = id /\ NoneOf(b, VerdictOps)
  \/ NoneOf(a, RegisterOps) /\ p # "bind" /\ OneOf(b, VerdictOps, id)
InOrderOf(c, u, a, b, p, r) == Quiet(a, b, p) \/ (c = "await" /\ Pending(a, b, p, r, u))

Away == cpc \in {"connect", "over", "dead"}

(* A connection not made yet carries nothing; on the one in use there is   *)
(* what the session task waits for, and nothing when it does not wait.     *)
Unused ==
  \A n \in Conns : n > conn => toServer[n] = <<>> /\ toClient[n] = <<>> /\ link[n] = "none"
Asked ==
  ~Away => InOrderOf(cpc, cur, toServer[conn], toClient[conn], spc[conn], reg[conn])

VerdictInv == SessionInv /\ Unused /\ Asked

(* A message added to a queue.                                             *)
LEMMA AppendOps ==
  ASSUME NEW S, NEW q \in Seq(S), NEW m \in S, NEW ops
  PROVE  /\ NoneOf(q, ops) /\ m.op \notin ops => NoneOf(Append(q, m), ops)
         /\ NoneOf(q, ops) /\ m.op \in ops => OneOf(Append(q, m), ops, m.id)
         /\ \A id : OneOf(q, ops, id) /\ m.op \notin ops => OneOf(Append(q, m), ops, id)
<1> DEFINE v == Append(q, m)
<1>1. /\ Len(q) \in Nat /\ Len(v) = Len(q) + 1 /\ v[Len(q) + 1] = m
      /\ \A i \in 1..Len(q) : v[i] = q[i]
  OBVIOUS
<1>2. /\ \A i \in 1..(Len(q) + 1) : i \in 1..Len(q) \/ i = Len(q) + 1
      /\ \A i \in 1..Len(q) : i \in 1..(Len(q) + 1)
      /\ Len(q) + 1 \in 1..(Len(q) + 1) /\ Len(q) + 1 \notin 1..Len(q)
  BY <1>1
<1> HIDE DEF v
<1>3. NoneOf(q, ops) /\ m.op \notin ops => NoneOf(v, ops)
  BY <1>1, <1>2 DEF NoneOf
<1>4. NoneOf(q, ops) /\ m.op \in ops => OneOf(v, ops, m.id)
  BY <1>1, <1>2 DEF NoneOf, OneOf
<1>5. ASSUME NEW id, OneOf(q, ops, id), m.op \notin ops PROVE OneOf(v, ops, id)
  <2>1. PICK k \in 1..Len(q) : /\ q[k].op \in ops /\ q[k].id = id
                               /\ \A i \in 1..Len(q) : q[i].op \in ops => i = k
    BY <1>5 DEF OneOf
  <2>2. k \in 1..Len(v) /\ v[k].op \in ops /\ v[k].id = id
    BY <1>1, <1>2, <2>1
  <2>3. \A i \in 1..Len(v) : v[i].op \in ops => i = k
    BY <1>1, <1>2, <1>5, <2>1
  <2> QED
    BY <2>2, <2>3 DEF OneOf
<1> QED
  BY <1>3, <1>4, <1>5 DEF v

(* The first message of a queue taken.                                     *)
LEMMA TailOps ==
  ASSUME NEW S, NEW q \in Seq(S), q # <<>>, NEW ops
  PROVE  /\ NoneOf(q, ops) => Head(q).op \notin ops /\ NoneOf(Tail(q), ops)
         /\ \A id : OneOf(q, ops, id) /\ Head(q).op \notin ops => OneOf(Tail(q), ops, id)
         /\ \A id : OneOf(q, ops, id) /\ Head(q).op \in ops =>
                      Head(q).id = id /\ NoneOf(Tail(q), ops)
<1> DEFINE t == Tail(q)
           h == Head(q)
<1>1. /\ h = q[1] /\ Len(q) \in Nat \ {0} /\ Len(t) = Len(q) - 1
      /\ \A i \in 1..(Len(q) - 1) : t[i] = q[i + 1]
  OBVIOUS
<1>2. /\ 1 \in 1..Len(q)
      /\ \A i \in 1..(Len(q) - 1) : i + 1 \in 1..Len(q) /\ i + 1 # 1
      /\ \A i \in 1..Len(q) : i # 1 => i - 1 \in 1..(Len(q) - 1) /\ (i - 1) + 1 = i
  BY <1>1
<1> HIDE DEF t, h
<1>3. NoneOf(q, ops) => h.op \notin ops /\ NoneOf(t, ops)
  BY <1>1, <1>2 DEF NoneOf
<1>4. ASSUME NEW id, OneOf(q, ops, id)
      PROVE  /\ h.op \notin ops => OneOf(t, ops, id)
             /\ h.op \in ops => h.id = id /\ NoneOf(t, ops)
  <2>1. PICK k \in 1..Len(q) : /\ q[k].op \in ops /\ q[k].id = id
                               /\ \A i \in 1..Len(q) : q[i].op \in ops => i = k
    BY <1>4 DEF OneOf
  <2>2. CASE h.op \notin ops
    <3>1. k # 1
      BY <1>1, <2>1, <2>2
    <3> DEFINE l == k - 1
    <3>2. l \in 1..Len(t) /\ t[l] = q[k]
      BY <1>1, <1>2, <3>1
    <3>3. ASSUME NEW i \in 1..Len(t), t[i].op \in ops PROVE i = l
      <4>1. i + 1 = k
        BY <1>1, <1>2, <2>1, <3>3
      <4> QED
        BY <1>1, <3>3, <4>1
    <3> HIDE DEF l
    <3> QED
      BY <2>1, <2>2, <3>2, <3>3 DEF OneOf
  <2>3. CASE h.op \in ops
    <3>1. k = 1
      BY <1>1, <1>2, <2>1, <2>3
    <3> QED
      BY <1>1, <1>2, <2>1, <2>3, <3>1 DEF NoneOf
  <2> QED
    BY <2>2, <2>3
<1> QED
  BY <1>3, <1>4 DEF t, h

LEMMA EmptyOps == \A ops : NoneOf(<<>>, ops)
  BY DEF NoneOf

-----------------------------------------------------------------------------
(* What the steps of either end do to the registration under way.          *)

(* The client sends a command, when the connection is up.                  *)
LEMMA CommandInOrder ==
  ASSUME NEW M, NEW a \in Seq(M), NEW m \in M, NEW a2, a2 = a \/ a2 = Append(a, m),
         NEW b, NEW p, NEW r, Quiet(a, b, p)
  PROVE  /\ m.op = "register" => InOrderOf("await", m.id, a2, b, p, r)
         /\ m.op = "deregister" => Quiet(a2, b, p)
<1>1. CASE a2 = a
  BY <1>1 DEF InOrderOf
<1>2. CASE a2 = Append(a, m)
  <2>1. NoneOf(a, RegisterOps) /\ p # "bind" /\ NoneOf(b, VerdictOps)
    BY DEF Quiet
  <2>2. CASE m.op = "register"
    <3>1. m.op \in RegisterOps
      BY <2>2 DEF RegisterOps
    <3>2. OneOf(a2, RegisterOps, m.id)
      BY <1>2, <2>1, <3>1, AppendOps
    <3> QED
      BY <2>1, <2>2, <3>2 DEF InOrderOf, Pending
  <2>3. CASE m.op = "deregister"
    <3>1. m.op \notin RegisterOps
      BY <2>3 DEF RegisterOps
    <3>2. NoneOf(a2, RegisterOps)
      BY <1>2, <2>1, <3>1, AppendOps
    <3> QED
      BY <2>1, <2>3, <3>2 DEF Quiet
  <2> QED
    BY <2>2, <2>3
<1> QED
  BY <1>1, <1>2

(* The client reads a message: a drop leaves the order as it is, a verdict *)
(* is the one awaited and the last thing under way.                        *)
LEMMA MessageInOrder ==
  ASSUME NEW M, NEW b \in Seq(M), b # <<>>, NEW c, NEW u, NEW a, NEW p, NEW r,
         InOrderOf(c, u, a, b, p, r)
  PROVE  /\ Head(b).op = "dropped" => InOrderOf(c, u, a, Tail(b), p, r)
         /\ c # "await" => Quiet(a, Tail(b), p)
         /\ Head(b).op \in VerdictOps => Quiet(a, Tail(b), p) /\ Head(b).id = u
<1>1. "dropped" \notin VerdictOps
  BY DEF VerdictOps
<1>2. CASE Quiet(a, b, p)
  <2>1. Head(b).op \notin VerdictOps /\ NoneOf(Tail(b), VerdictOps)
    BY <1>2, TailOps DEF Quiet
  <2> QED
    BY <1>2, <2>1 DEF Quiet, InOrderOf
<1>3. CASE c = "await" /\ Pending(a, b, p, r, u) /\ NoneOf(b, VerdictOps)
  <2>1. Head(b).op \notin VerdictOps /\ NoneOf(Tail(b), VerdictOps)
    BY <1>3, TailOps
  <2>2. Pending(a, Tail(b), p, r, u) \/ ~Pending(a, b, p, r, u)
        \/ OneOf(b, VerdictOps, u)
    BY <2>1 DEF Pending
  <2>3. ~OneOf(b, VerdictOps, u)
    BY <1>3 DEF NoneOf, OneOf
  <2> QED
    BY <1>3, <2>1, <2>2, <2>3 DEF InOrderOf
<1>4. CASE c = "await" /\ NoneOf(a, RegisterOps) /\ p # "bind" /\ OneOf(b, VerdictOps, u)
  <2>1. Head(b).op \notin VerdictOps => OneOf(Tail(b), VerdictOps, u)
    BY <1>4, TailOps
  <2>2. Head(b).op \in VerdictOps => Head(b).id = u /\ NoneOf(Tail(b), VerdictOps)
    BY <1>4, TailOps
  <2> QED
    BY <1>1, <1>4, <2>1, <2>2 DEF InOrderOf, Quiet, Pending
<1> QED
  BY <1>2, <1>3, <1>4 DEF InOrderOf, Pending

(* The handler takes a command.                                            *)
LEMMA ServedInOrder ==
  ASSUME NEW M, NEW a \in Seq(M), a # <<>>, NEW c, NEW u, NEW b, NEW p, NEW r,
         p # "bind", InOrderOf(c, u, a, b, p, r)
  PROVE  /\ Head(a).op = "register" =>
              /\ c = "await" /\ Head(a).id = u
              /\ InOrderOf(c, u, Tail(a), b, "bind", Head(a).id)
         /\ Head(a).op = "deregister" => InOrderOf(c, u, Tail(a), b, p, r)
<1>1. "register" \in RegisterOps /\ "deregister" \notin RegisterOps
  BY DEF RegisterOps
<1>2. CASE NoneOf(a, RegisterOps)
  <2>1. Head(a).op \notin RegisterOps /\ NoneOf(Tail(a), RegisterOps)
    BY <1>2, TailOps
  <2>2. InOrderOf(c, u, Tail(a), b, p, r)
    <3>1. ~OneOf(a, RegisterOps, u)
      BY <1>2 DEF NoneOf, OneOf
    <3> QED
      BY <2>1, <3>1 DEF InOrderOf, Quiet, Pending
  <2> QED
    BY <1>1, <2>1, <2>2
<1>3. CASE c = "await" /\ OneOf(a, RegisterOps, u) /\ p # "bind" /\ NoneOf(b, VerdictOps)
  <2>1. Head(a).op \notin RegisterOps => OneOf(Tail(a), RegisterOps, u)
    BY <1>3, TailOps
  <2>2. Head(a).op \in RegisterOps => Head(a).id = u /\ NoneOf(Tail(a), RegisterOps)
    BY <1>3, TailOps
  <2> QED
    BY <1>1, <1>3, <2>1, <2>2 DEF InOrderOf, Pending
<1> QED
  BY <1>2, <1>3 DEF InOrderOf, Quiet, Pending

(* The handler answers, or fails to.                                       *)
LEMMA AnsweredInOrder ==
  ASSUME NEW M, NEW b \in Seq(M), NEW m \in M, NEW b2, b2 = b \/ b2 = Append(b, m),
         NEW c, NEW u, NEW a, NEW r, m.op \in VerdictOps, m.id = r,
         InOrderOf(c, u, a, b, "bind", r), NEW p2, p2 # "bind", NEW r2
  PROVE  /\ InOrderOf(c, u, a, b2, p2, r2)
         /\ c = "await" /\ r = u /\ NoneOf(b, VerdictOps)
<1>1. c = "await" /\ NoneOf(a, RegisterOps) /\ r = u /\ NoneOf(b, VerdictOps)
  BY DEF InOrderOf, Quiet, Pending
<1>2. CASE b2 = b
  BY <1>1, <1>2 DEF InOrderOf, Quiet
<1>3. CASE b2 = Append(b, m)
  <2>1. OneOf(b2, VerdictOps, m.id)
    BY <1>1, <1>3, AppendOps
  <2> QED
    BY <1>1, <2>1 DEF InOrderOf, Pending
<1> QED
  BY <1>1, <1>2, <1>3

(* A notice that a pool died is no verdict.                                *)
LEMMA NoticeInOrder ==
  ASSUME NEW M, NEW b \in Seq(M), NEW m \in M, NEW b2, b2 = b \/ b2 = Append(b, m),
         NEW c, NEW u, NEW a, NEW p, NEW r, m.op = "dropped", InOrderOf(c, u, a, b, p, r)
  PROVE  InOrderOf(c, u, a, b2, p, r)
<1>1. m.op \notin VerdictOps
  BY DEF VerdictOps
<1>2. NoneOf(b, VerdictOps) => NoneOf(b2, VerdictOps)
  BY <1>1, AppendOps
<1>3. OneOf(b, VerdictOps, u) => OneOf(b2, VerdictOps, u)
  BY <1>1, AppendOps
<1> QED
  BY <1>2, <1>3 DEF InOrderOf, Quiet, Pending

-----------------------------------------------------------------------------
(* The connection in use, and its queues.                                  *)
LEMMA InUse ==
  ASSUME SessionInv, cpc \notin {"connect", "dead"}
  PROVE  /\ conn \in Conns /\ conn \in Nat
         /\ toServer[conn] \in Seq(Message({"register", "deregister"}))
         /\ toClient[conn] \in Seq(Message({"ok", "rejected", "dropped"}))
<1>1. conn \in Conns
  BY DEF SessionInv, SessionTypeOK, ClientTypes, Busy
<1> QED
  BY <1>1, SessionAssumption DEF SessionInv, SessionTypeOK, WireTypes, Conns

(* Connections not made yet stay as they are: nobody has reached them.     *)
LEMMA StepKeepsUnused ==
  ASSUME SessionInv, Unused, [Next]_vars
  PROVE  Unused'
<1> USE DEF SessionInv, SessionTypeOK
<1>0. /\ link \in [Conns -> {"none", "up", "closed", "silent"}]
      /\ toServer \in [Conns -> Seq(Message({"register", "deregister"}))]
      /\ toClient \in [Conns -> Seq(Message({"ok", "rejected", "dropped"}))]
      /\ conn \in Nat /\ Conns \subseteq Nat
      /\ \A n \in Conns : n > conn => spc[n] = "none"
  BY SessionAssumption DEF WireTypes, ClientTypes, Busy, Conns
<1>1. SUFFICES ASSUME NEW n \in Conns, n > conn'
               PROVE  toServer'[n] = <<>> /\ toClient'[n] = <<>> /\ link'[n] = "none"
  BY DEF Unused
<1>2. conn' = conn \/ Connect
  BY DEF Next, ClientStep, Disturbance, HandlerStep, vars, clientVars, AddService, DeleteService,
         Resume, Sweep, AwaitDropped, VerdictOk, VerdictRejected, Activate, DrainRegister,
         DrainSkip, LoopDropped, TakeRegister, TakeDeregister, TakeShutdown, LosesConnection,
         ServeRegister, ServeDeregister, BindRefused, Bound, Publish, SessionEnds, PoolStops,
         PoolDies, ServerStops, HelloUnanswered, ActivateFails, Cut, FallSilent
<1>3. CASE Connect
  <2>1. n # conn + 1 /\ n > conn
    BY <1>0, <1>1, <1>3 DEF Connect
  <2> QED
    BY <1>0, <1>1, <1>3, <2>1 DEF Connect, Unused
<1>4. CASE conn' = conn
  <2>1. /\ n # conn /\ toServer[n] = <<>> /\ toClient[n] = <<>> /\ link[n] = "none"
        /\ spc[n] = "none"
    BY <1>0, <1>1, <1>4 DEF Unused
  <2>2. CASE ClientStep \/ HelloUnanswered \/ ActivateFails \/ TakeShutdown \/ LosesConnection
             \/ Cut \/ FallSilent
    <3>1. \/ toServer' = toServer
          \/ \E m : toServer' = [toServer EXCEPT ![conn] = m]
      BY <1>4, <2>2, <1>0 DEF ClientStep, HelloUnanswered, ActivateFails, TakeShutdown,
         LosesConnection, Cut, FallSilent, Connect, Resume, Sweep, AwaitDropped, VerdictOk,
         VerdictRejected, Activate, DrainRegister, DrainSkip, LoopDropped, TakeRegister,
         TakeDeregister, Register, Send
    <3>2. \/ toClient' = toClient
          \/ \E m : toClient' = [toClient EXCEPT ![conn] = m]
      BY <1>4, <2>2, <1>0 DEF ClientStep, HelloUnanswered, ActivateFails, TakeShutdown,
         LosesConnection, Cut, FallSilent, Connect, Resume, Sweep, AwaitDropped, VerdictOk,
         VerdictRejected, Activate, DrainRegister, DrainSkip, LoopDropped, TakeRegister,
         TakeDeregister, Reading, RunFails, RunEnds
    <3>3. \/ link' = link
          \/ \E m : link' = [link EXCEPT ![conn] = m]
      BY <1>4, <2>2, <1>0 DEF ClientStep, HelloUnanswered, ActivateFails, TakeShutdown,
         LosesConnection, Cut, FallSilent, Connect, Resume, Sweep, AwaitDropped, VerdictOk,
         VerdictRejected, Activate, DrainRegister, DrainSkip, LoopDropped, TakeRegister,
         TakeDeregister, RunFails, RunEnds
    <3> QED
      BY <1>0, <2>1, <3>1, <3>2, <3>3
  <2>3. ASSUME NEW k \in Conns, HandlerStep(k) \/ SessionEnds(k)
        PROVE  toServer'[n] = <<>> /\ toClient'[n] = <<>> /\ link'[n] = "none"
    <3>1. n # k
      BY <2>1, <2>3 DEF HandlerStep, SessionEnds, ServeRegister, ServeDeregister, ServerReads,
         BindRefused, Bound, Publish
    <3>2. CASE HandlerStep(k)
      BY <1>0, <2>1, <3>1, <3>2 DEF HandlerStep, ServeRegister, ServeDeregister, ServerReads,
         BindRefused, Bound, Publish, Ack, Tell
    <3>3. CASE SessionEnds(k)
      BY <1>0, <2>1, <3>1, <3>3 DEF SessionEnds
    <3> QED
      BY <2>3, <3>2, <3>3
  <2>4. CASE \E s \in Names : PoolDies(s)
    BY <1>0, <2>1, <2>4 DEF PoolDies, Tell
  <2>5. CASE ServerStops \/ (\E s \in Names : AddService(s) \/ DeleteService(s) \/ PoolStops(s))
             \/ UNCHANGED vars
    BY <2>1, <2>5 DEF ServerStops, AddService, DeleteService, PoolStops, vars
  <2> QED
    BY <2>2, <2>3, <2>4, <2>5 DEF Next, Disturbance
<1> QED
  BY <1>2, <1>3, <1>4

(* The client's steps keep the registration under way in order.            *)
LEMMA ClientKeepsAsked ==
  ASSUME VerdictInv,
         ClientStep \/ HelloUnanswered \/ ActivateFails \/ TakeShutdown \/ LosesConnection
  PROVE  Asked'
<1> USE DEF VerdictInv
<1> DEFINE a == toServer[conn]
           b == toClient[conn]
           MS == Message({"register", "deregister"})
           MC == Message({"ok", "rejected", "dropped"})
<1>a. WireTypes /\ ServerTypes
  BY DEF SessionInv, SessionTypeOK
<1>b. ASSUME cpc # "await", ~Away PROVE Quiet(a, b, spc[conn])
  BY <1>b DEF Asked, InOrderOf
<1>c. ASSUME ~Away PROVE conn \in Conns /\ a \in Seq(MS) /\ b \in Seq(MC)
  BY <1>c, InUse DEF Away
<1>1. CASE HelloUnanswered \/ ActivateFails \/ TakeShutdown \/ LosesConnection
  BY <1>1 DEF HelloUnanswered, ActivateFails, TakeShutdown, LosesConnection, RunFails, Asked, Away
<1>2. CASE Connect
  <2> DEFINE k == conn + 1
  <2>1. /\ k \in Conns /\ k > conn /\ conn' = k /\ cpc' = "resume"
        /\ spc' = [spc EXCEPT ![k] = "serve"] /\ UNCHANGED <<toServer, toClient, reg>>
    BY <1>2, SessionAssumption DEF Connect, Conns, SessionInv, SessionTypeOK, ClientTypes
  <2>2. toServer'[k] = <<>> /\ toClient'[k] = <<>> /\ spc'[k] = "serve"
    BY <1>a, <2>1 DEF Unused, ServerTypes
  <2>3. Quiet(<<>>, <<>>, "serve")
    BY EmptyOps DEF Quiet
  <2> QED
    BY <2>1, <2>2, <2>3 DEF Asked, InOrderOf
<1>3. CASE Resume \/ Activate \/ DrainSkip
  <2>1. cpc # "await" /\ ~Away /\ UNCHANGED <<conn, toServer, toClient, spc, reg>>
    BY <1>3 DEF Resume, Activate, DrainSkip, Away, serverVars
  <2> QED
    BY <1>b, <2>1 DEF Asked, InOrderOf
<1>4. ASSUME cpc \in {"sweep", "drain", "loop"}, NEW id \in Ids, Register(id),
             UNCHANGED <<conn, toClient, spc, reg>>
      PROVE  Asked'
  <2>1. cpc # "await" /\ ~Away
    BY <1>4 DEF Away
  <2> DEFINE m == Req("register", id)
  <2>2. m \in MS /\ m.op = "register" /\ m.id = id
    BY DEF Req, Message
  <2>3. toServer'[conn] = a \/ toServer'[conn] = Append(a, m)
    BY <1>4, <1>a, <1>c, <2>1 DEF Register, Send, WireTypes
  <2>4. cpc' = "await" /\ cur' = id
    BY <1>4 DEF Register
  <2> HIDE DEF m, a, b
  <2>5. InOrderOf("await", m.id, toServer'[conn], b, spc[conn], reg[conn])
    BY <1>b, <1>c, <2>1, <2>2, <2>3, CommandInOrder
  <2> QED
    BY <1>4, <2>2, <2>4, <2>5 DEF Asked, b
<1>5. CASE Sweep
  <2>1. Least(todo) \in Ids
    BY <1>5, LeastIsMember DEF Sweep, Busy, ClientTypes, SessionInv, SessionTypeOK
  <2> QED
    BY <1>4, <1>5, <2>1 DEF Sweep, serverVars
<1>6. CASE DrainRegister
  <2>1. LastDrop \in Ids
    BY <1>6, FrontFacts DEF DrainRegister, LastDrop, Busy, ClientTypes, SessionInv, SessionTypeOK
  <2> QED
    BY <1>4, <1>6, <2>1 DEF DrainRegister, serverVars
<1>7. CASE TakeRegister
  <2>1. Head(requests) \in MS
    BY <1>7, QueueFacts DEF TakeRegister, ConfigTypes, SessionInv, SessionTypeOK
  <2>2. Head(requests).id \in Ids
    BY <2>1 DEF Message
  <2> QED
    BY <1>4, <1>7, <2>2 DEF TakeRegister, serverVars
<1>8. CASE TakeDeregister
  <2> DEFINE m == Head(requests)
  <2>1. m \in MS /\ m.op = "deregister" /\ cpc = "loop" /\ cpc' = cpc /\ ~Away
    BY <1>8, QueueFacts DEF TakeDeregister, ConfigTypes, SessionInv, SessionTypeOK, Away
  <2>2. toServer'[conn] = a \/ toServer'[conn] = Append(a, m)
    BY <1>8, <1>a, <1>c, <2>1 DEF TakeDeregister, Send, WireTypes
  <2>3. UNCHANGED <<conn, toClient, spc, reg>>
    BY <1>8 DEF TakeDeregister, serverVars
  <2> HIDE DEF m, a, b
  <2>4. Quiet(toServer'[conn], b, spc[conn])
    BY <1>b, <1>c, <2>1, <2>2, CommandInOrder
  <2> QED
    BY <2>3, <2>4 DEF Asked, InOrderOf, b
<1>9. CASE AwaitDropped \/ LoopDropped \/ VerdictOk \/ VerdictRejected
  <2>1. /\ ~Away /\ b # <<>> /\ UNCHANGED <<conn, toServer, spc, reg>>
        /\ toClient' = [toClient EXCEPT ![conn] = Tail(b)]
        /\ Head(b).op \in {"dropped", "ok", "rejected"}
    BY <1>9 DEF AwaitDropped, LoopDropped, VerdictOk, VerdictRejected, Reading, NextMessage,
       Away, serverVars
  <2>2. toClient'[conn] = Tail(b)
    BY <1>a, <1>c, <2>1 DEF WireTypes
  <2>3. InOrderOf(cpc, cur, a, b, spc[conn], reg[conn])
    BY <2>1 DEF Asked
  <2>4. b \in Seq(MC)
    BY <1>c, <2>1
  <2> HIDE DEF a, b, MC
  <2>5. /\ Head(b).op = "dropped" => InOrderOf(cpc, cur, a, Tail(b), spc[conn], reg[conn])
        /\ cpc # "await" => Quiet(a, Tail(b), spc[conn])
        /\ Head(b).op \in VerdictOps => Quiet(a, Tail(b), spc[conn])
    BY <2>1, <2>3, <2>4, MessageInOrder
  <2>6. CASE AwaitDropped
    <3>1. cpc' = cpc /\ cur' = cur /\ Head(b).op = "dropped"
      BY <2>6 DEF AwaitDropped, NextMessage, b
    <3> QED
      BY <2>1, <2>2, <2>5, <3>1 DEF Asked, a
  <2>7. CASE ~AwaitDropped
    <3>1. cpc # "await" \/ Head(b).op \in VerdictOps
      BY <1>9, <2>7 DEF LoopDropped, VerdictOk, VerdictRejected, NextMessage, Reading, b,
         VerdictOps
    <3> QED
      BY <2>1, <2>2, <2>5, <3>1 DEF Asked, InOrderOf, a
  <2> QED
    BY <2>6, <2>7
<1> QED
  BY <1>1, <1>2, <1>3, <1>5, <1>6, <1>7, <1>8, <1>9 DEF ClientStep

(* So do the steps of the server.                                          *)
LEMMA ServerKeepsAsked ==
  ASSUME VerdictInv,
         \/ \E n \in Conns : HandlerStep(n) \/ SessionEnds(n)
         \/ \E s \in Names : PoolDies(s)
  PROVE  Asked'
<1> USE DEF VerdictInv
<1> DEFINE a == toServer[conn]
           b == toClient[conn]
           p == spc[conn]
           r == reg[conn]
           MS == Message({"register", "deregister"})
           MC == Message({"ok", "rejected", "dropped"})
<1>a. /\ toServer \in [Conns -> Seq(MS)] /\ toClient \in [Conns -> Seq(MC)]
      /\ spc \in [Conns -> {"none", "serve", "bind", "publish", "failed", "ended"}]
      /\ reg \in [Conns -> Ids \cup {0}]
  BY DEF SessionInv, SessionTypeOK, WireTypes, ServerTypes
<1>b. UNCHANGED <<cpc, cur, conn>>
  BY DEF HandlerStep, ServeRegister, ServeDeregister, BindRefused, Bound, Publish, SessionEnds,
         PoolDies, clientVars
<1>1. SUFFICES ASSUME ~Away
               PROVE  InOrderOf(cpc, cur, toServer'[conn], toClient'[conn], spc'[conn], reg'[conn])
  BY <1>b DEF Asked, Away
<1>2. /\ conn \in Conns /\ a \in Seq(MS) /\ b \in Seq(MC)
      /\ InOrderOf(cpc, cur, a, b, p, r)
  BY <1>1, InUse DEF Asked, Away
<1>3. ASSUME NEW n \in Conns, HandlerStep(n) \/ SessionEnds(n), n # conn
      PROVE  /\ toServer'[conn] = a /\ toClient'[conn] = b
             /\ spc'[conn] = p /\ reg'[conn] = r
  <2>1. toServer'[conn] = a /\ reg'[conn] = r
    BY <1>3, <1>a, <1>2 DEF HandlerStep, ServeRegister, ServeDeregister, ServerReads, BindRefused,
       Bound, Publish, SessionEnds
  <2>2. toClient'[conn] = b /\ spc'[conn] = p
    BY <1>3, <1>a, <1>2 DEF HandlerStep, ServeRegister, ServeDeregister, ServerReads, BindRefused,
       Bound, Publish, SessionEnds, Ack, Tell
  <2> QED
    BY <2>1, <2>2
<1>4. CASE ServeRegister(conn)
  <2>1. /\ a # <<>> /\ Head(a).op = "register" /\ p # "bind"
        /\ toServer'[conn] = Tail(a) /\ toClient'[conn] = b
        /\ spc'[conn] = "bind" /\ reg'[conn] = Head(a).id
    BY <1>4, <1>a, <1>2 DEF ServeRegister, ServerReads
  <2> HIDE DEF a, b, p, r, MS
  <2>2. InOrderOf(cpc, cur, Tail(a), b, "bind", Head(a).id)
    BY <1>2, <2>1, ServedInOrder
  <2> QED
    BY <2>1, <2>2
<1>5. CASE ServeDeregister(conn)
  <2>1. /\ a # <<>> /\ Head(a).op = "deregister" /\ p # "bind"
        /\ toServer'[conn] = Tail(a) /\ toClient'[conn] = b
        /\ spc'[conn] = p /\ reg'[conn] = r
    BY <1>5, <1>a, <1>2 DEF ServeDeregister, ServerReads
  <2> HIDE DEF a, b, p, r, MS
  <2>2. InOrderOf(cpc, cur, Tail(a), b, p, r)
    BY <1>2, <2>1, ServedInOrder
  <2> QED
    BY <2>1, <2>2
<1>6. CASE BindRefused(conn) \/ Bound(conn)
  <2>1. PICK op \in VerdictOps, then \in {"serve", "publish"} : Ack(conn, op, then)
    BY <1>6 DEF BindRefused, Bound, VerdictOps
  <2> DEFINE m == Req(op, r)
  <2>2. /\ p = "bind" /\ toServer'[conn] = a /\ spc'[conn] # "bind"
        /\ toClient'[conn] = b \/ toClient'[conn] = Append(b, m)
    BY <1>6, <1>a, <1>2, <2>1 DEF BindRefused, Bound, Ack, Tell
  <2>3. m \in MC /\ m.op \in VerdictOps /\ m.id = r
    <3>1. r \in Ids
      BY <1>a, <1>2, <2>2 DEF SessionInv, Busy
    <3> QED
      BY <3>1 DEF Req, Message, VerdictOps
  <2> HIDE DEF a, b, p, r, m, MC
  <2>4. InOrderOf(cpc, cur, a, b, "bind", r)
    BY <1>2, <2>2
  <2>5. InOrderOf(cpc, cur, a, toClient'[conn], spc'[conn], reg'[conn])
    <3>1. b \in Seq(MC)
      BY <1>2
    <3> QED
      BY ONLY <2>2, <2>3, <2>4, <3>1, AnsweredInOrder
  <2> QED
    BY <2>2, <2>5
<1>7. CASE Publish(conn) \/ SessionEnds(conn)
  <2>1. /\ p # "bind" /\ spc'[conn] # "bind" /\ toClient'[conn] = b
        /\ toServer'[conn] = a \/ toServer'[conn] = <<>>
    BY <1>7, <1>a, <1>2 DEF Publish, SessionEnds
  <2> HIDE DEF a, b, p, r
  <2>2. CASE toServer'[conn] = a
    BY <1>2, <2>1, <2>2 DEF InOrderOf, Quiet, Pending
  <2>3. CASE toServer'[conn] = <<>>
    BY <1>2, <2>1, <2>3, EmptyOps DEF InOrderOf, Quiet, Pending
  <2> QED
    BY <2>1, <2>2, <2>3
<1>8. ASSUME NEW s \in Names, PoolDies(s)
      PROVE  InOrderOf(cpc, cur, toServer'[conn], toClient'[conn], spc'[conn], reg'[conn])
  <2> DEFINE m == Req("dropped", port[s].id)
  <2>1. port[s].id \in Ids
    BY <1>8 DEF PoolDies, SessionInv, SessionTypeOK, ServerTypes
  <2>2. m \in MC /\ m.op = "dropped"
    BY <2>1 DEF Req, Message
  <2>3. /\ toServer'[conn] = a /\ spc'[conn] = p /\ reg'[conn] = r
        /\ toClient'[conn] = b \/ toClient'[conn] = Append(b, m)
    BY <1>8, <1>a, <1>2 DEF PoolDies, Tell
  <2> HIDE DEF a, b, p, r, m, MC
  <2> QED
    BY <1>2, <2>2, <2>3, NoticeInOrder
<1>9. ASSUME NEW n \in Conns, HandlerStep(n) \/ SessionEnds(n)
      PROVE  InOrderOf(cpc, cur, toServer'[conn], toClient'[conn], spc'[conn], reg'[conn])
  <2>1. CASE n # conn
    BY <1>2, <1>3, <1>9, <2>1
  <2>2. CASE n = conn
    BY <1>4, <1>5, <1>6, <1>7, <1>9, <2>2 DEF HandlerStep
  <2> QED
    BY <2>1, <2>2
<1> QED
  BY <1>8, <1>9

LEMMA StepKeepsVerdicts == VerdictInv /\ [Next]_vars => VerdictInv'
<1> SUFFICES ASSUME VerdictInv, [Next]_vars PROVE VerdictInv'
  OBVIOUS
<1>1. SessionInv' /\ Unused'
  BY StepKeepsTypes, StepKeepsUnused DEF VerdictInv
<1>2. CASE ClientStep \/ HelloUnanswered \/ ActivateFails \/ TakeShutdown \/ LosesConnection
  BY <1>1, <1>2, ClientKeepsAsked DEF VerdictInv
<1>3. CASE \/ \E n \in Conns : HandlerStep(n) \/ SessionEnds(n)
           \/ \E s \in Names : PoolDies(s)
  BY <1>1, <1>3, ServerKeepsAsked DEF VerdictInv
<1>4. CASE \/ ServerStops \/ Cut \/ FallSilent \/ UNCHANGED vars
           \/ \E s \in Names : AddService(s) \/ DeleteService(s) \/ PoolStops(s)
  <2>1. UNCHANGED <<cpc, cur, conn, toServer, toClient, spc, reg>>
    BY <1>4 DEF ServerStops, Cut, FallSilent, AddService, DeleteService, PoolStops, vars,
       clientVars, serverVars
  <2> QED
    BY <1>1, <2>1 DEF VerdictInv, Asked, Away
<1> QED
  BY <1>1, <1>2, <1>3, <1>4 DEF Next, Disturbance, VerdictInv

LEMMA VerdictInit == Init => VerdictInv
<1> SUFFICES ASSUME Init PROVE VerdictInv
  OBVIOUS
<1>1. Unused /\ Asked
  BY DEF Init, Unused, Asked, Away
<1> QED
  BY <1>1, SessionInit DEF VerdictInv

(* The messages of a queue that VerdictsMatch counts.                      *)
LEMMA CountedOps ==
  ASSUME NEW M, NEW q \in Seq(M), NEW ops, NEW S,
         S = {i \in DOMAIN q : q[i].op \in ops}
  PROVE  /\ NoneOf(q, ops) => S = {} /\ Cardinality(S) = 0
         /\ \A id : OneOf(q, ops, id) => Cardinality(S) = 1
<1>1. DOMAIN q = 1..Len(q)
  OBVIOUS
<1>2. NoneOf(q, ops) => S = {}
  BY <1>1 DEF NoneOf
<1>3. ASSUME NEW id, OneOf(q, ops, id)
      PROVE  Cardinality(S) = 1
  <2>1. PICK k \in 1..Len(q) : /\ q[k].op \in ops /\ q[k].id = id
                               /\ \A i \in 1..Len(q) : q[i].op \in ops => i = k
    BY <1>3 DEF OneOf
  <2>2. S = {k}
    BY <1>1, <2>1
  <2> QED
    BY <2>1, <2>2, FS_Singleton
<1>4. S = {} => Cardinality(S) = 0
  BY FS_EmptySet
<1> QED
  BY <1>2, <1>3, <1>4

(* At every moment at most one registration of the connection in use is    *)
(* under way, and its verdict, which names no service, is about the one    *)
(* the client waits for (await_verdict, drain_dropped).                    *)
THEOREM VerdictsAreMatched == Spec => []VerdictsMatch
<1>1. VerdictInv => VerdictsMatch
  <2> SUFFICES ASSUME VerdictInv, conn # 0, ~Away
               PROVE  /\ Cardinality(Verdicts(conn)) + Cardinality(Registers(conn))
                           + Cardinality(InService(conn)) <= (IF cpc = "await" THEN 1 ELSE 0)
                      /\ cpc = "await" => \A i \in Verdicts(conn) : toClient[conn][i].id = cur
    BY DEF VerdictsMatch, Away
  <2> DEFINE a == toServer[conn]
             b == toClient[conn]
  <2>1. /\ a \in Seq(Message({"register", "deregister"}))
        /\ b \in Seq(Message({"ok", "rejected", "dropped"}))
        /\ InOrderOf(cpc, cur, a, b, spc[conn], reg[conn])
    BY InUse DEF VerdictInv, Asked, Away
  <2>2. /\ Verdicts(conn) = {i \in DOMAIN b : b[i].op \in VerdictOps}
        /\ Registers(conn) = {i \in DOMAIN a : a[i].op \in RegisterOps}
    BY DEF Verdicts, Registers, VerdictOps, RegisterOps
  <2> HIDE DEF a, b
  <2>3. /\ NoneOf(b, VerdictOps) => Verdicts(conn) = {} /\ Cardinality(Verdicts(conn)) = 0
        /\ \A id : OneOf(b, VerdictOps, id) =>
             Cardinality(Verdicts(conn)) = 1 /\ \A i \in Verdicts(conn) : b[i].id = id
    <3> DEFINE V == Verdicts(conn)
               MC == Message({"ok", "rejected", "dropped"})
    <3>1. V = {i \in DOMAIN b : b[i].op \in VerdictOps} /\ b \in Seq(MC)
      BY <2>1, <2>2
    <3> HIDE DEF V, MC
    <3>2. /\ NoneOf(b, VerdictOps) => V = {} /\ Cardinality(V) = 0
          /\ \A id : OneOf(b, VerdictOps, id) =>
               Cardinality(V) = 1 /\ \A i \in V : b[i].id = id
      <4>1. NoneOf(b, VerdictOps) => V = {} /\ Cardinality(V) = 0
        BY <3>1, CountedOps
      <4>2. ASSUME NEW id, OneOf(b, VerdictOps, id)
            PROVE  Cardinality(V) = 1
        BY <3>1, <4>2, CountedOps
      <4>3. ASSUME NEW id, OneOf(b, VerdictOps, id), NEW i \in V
            PROVE  b[i].id = id
        BY <3>1, <4>3 DEF OneOf
      <4> QED
        BY <4>1, <4>2, <4>3
    <3> QED
      BY <3>2 DEF V
  <2>4. /\ NoneOf(a, RegisterOps) => Cardinality(Registers(conn)) = 0
        /\ \A id : OneOf(a, RegisterOps, id) => Cardinality(Registers(conn)) = 1
    BY <2>1, <2>2, CountedOps
  <2>5. /\ spc[conn] = "bind" => Cardinality(InService(conn)) = 1
        /\ spc[conn] # "bind" => Cardinality(InService(conn)) = 0
    BY FS_Singleton, FS_EmptySet DEF InService
  <2>6. CASE Quiet(a, b, spc[conn])
    BY <2>3, <2>4, <2>5, <2>6 DEF Quiet
  <2>7. CASE cpc = "await" /\ Pending(a, b, spc[conn], reg[conn], cur)
    BY <2>3, <2>4, <2>5, <2>7 DEF Pending, b
  <2> QED
    BY <2>1, <2>6, <2>7 DEF InOrderOf
<1> QED
  BY VerdictInit, StepKeepsVerdicts, <1>1, PTL DEF Spec

-----------------------------------------------------------------------------
(* The client's picture of the server.  What it rests on: where the        *)
(* session task is when it has no connection and no registration; ids that *)
(* are handed out once and never again after their service was deleted; a  *)
(* deregistration under way is for such an id, which the session has       *)
(* forgotten for good.                                                     *)
Idle ==
  /\ Away => conn = 0 \/ link[conn] # "up"
  /\ cpc \notin {"await", "activate"} => cur = 0
  /\ cpc = "loop" => todo = {}

GivenOnce ==
  /\ \A s \in Names : loc[s] # 0 => NameOf[loc[s]] = s /\ loc[s] \notin fresh
  /\ \A i \in 1..Len(requests) :
       /\ requests[i].id \notin fresh
       /\ requests[i].op = "deregister" =>
            /\ loc[NameOf[requests[i].id]] # requests[i].id
            /\ \A j \in 1..Len(requests) : j > i => requests[j].id # requests[i].id

Gone(id) ==
  /\ entry[id] = "absent" /\ cur # id /\ id \notin todo
  /\ id \notin fresh /\ loc[NameOf[id]] # id
  /\ \A i \in 1..Len(requests) : requests[i].id # id

DeletedIsGone ==
  conn # 0 => \A i \in 1..Len(toServer[conn]) :
                toServer[conn][i].op = "deregister" => Gone(toServer[conn][i].id)

(* A service the client was told is up: still held, or the notice that it  *)
(* is not is on its way or put aside.                                      *)
Noticed(q, id) == \E i \in 1..Len(q) : q[i] = Req("dropped", id)
PutAside(q, id) == \E i \in 1..Len(q) : q[i] = id
Backed(id) ==
  port[NameOf[id]] = Holder(conn, id) \/ Noticed(toClient[conn], id) \/ PutAside(drops, id)

Live == conn # 0 /\ link[conn] = "up" /\ conn \in registered
Accepted(q) == \E i \in 1..Len(q) : q[i].op = "ok"
Awarded(c, q) == c = "activate" \/ (c = "await" /\ Accepted(q))
Backing ==
  Live =>
    /\ cpc # "resume" => \A id \in Ids : entry[id] = "active" /\ cur # id => Backed(id)
    /\ Awarded(cpc, toClient[conn]) => cur \in Ids /\ Backed(cur)

BackedInv == VerdictInv /\ Idle /\ GivenOnce /\ DeletedIsGone /\ Backing

(* A step makes a new connection, or leaves the one in use and never opens *)
(* or registers it again.                                                  *)
LEMMA ConnectionKept ==
  ASSUME SessionInv, [Next]_vars, ~Connect
  PROVE  /\ conn' = conn /\ registered' \subseteq registered
         /\ \A n \in Conns : link'[n] = "up" => link[n] = "up"
<1>0. link \in [Conns -> {"none", "up", "closed", "silent"}]
  BY DEF SessionInv, SessionTypeOK, WireTypes
<1>1. CASE UNCHANGED vars
  BY <1>1 DEF vars
<1>2. CASE \E s \in Names : AddService(s) \/ DeleteService(s) \/ PoolStops(s) \/ PoolDies(s)
  BY <1>2 DEF AddService, DeleteService, PoolStops, PoolDies, clientVars, serverVars
<1>3. CASE ClientStep
  BY <1>3 DEF ClientStep, Resume, Sweep, AwaitDropped, VerdictOk, VerdictRejected, Activate,
     DrainRegister, DrainSkip, LoopDropped, TakeRegister, TakeDeregister, serverVars
<1>4. CASE HelloUnanswered \/ ServerStops
  BY <1>4 DEF HelloUnanswered, ServerStops, clientVars, serverVars
<1>5. CASE ActivateFails \/ TakeShutdown \/ LosesConnection
  <2>1. /\ conn' = conn /\ registered' = registered
        /\ link' = [link EXCEPT ![conn] = IF @ = "up" THEN "closed" ELSE @]
    BY <1>5 DEF ActivateFails, TakeShutdown, LosesConnection, RunFails, RunEnds, serverVars
  <2> QED
    BY <1>0, <2>1
<1>6. CASE Cut \/ FallSilent
  BY <1>0, <1>6 DEF Cut, FallSilent, clientVars, serverVars
<1>7. ASSUME NEW n \in Conns, HandlerStep(n) \/ SessionEnds(n)
      PROVE  /\ conn' = conn /\ registered' \subseteq registered
             /\ \A m \in Conns : link'[m] = "up" => link[m] = "up"
  <2>1. CASE HandlerStep(n)
    BY <2>1 DEF HandlerStep, ServeRegister, ServeDeregister, BindRefused, Bound, Publish, clientVars
  <2>2. CASE SessionEnds(n)
    BY <1>0, <2>2 DEF SessionEnds, clientVars
  <2> QED
    BY <1>7, <2>1, <2>2
<1> QED
  BY <1>1, <1>2, <1>3, <1>4, <1>5, <1>6, <1>7 DEF Next, Disturbance

(* The end of a run closes the connection.                                 *)
LEMMA RunEndsDown ==
  ASSUME SessionInv, RunEnds, cpc \notin {"connect", "dead"}
  PROVE  link'[conn] # "up"
  BY InUse DEF RunEnds, SessionInv, SessionTypeOK, WireTypes

LEMMA StepKeepsIdle ==
  ASSUME SessionInv, Idle, [Next]_vars PROVE Idle'
<1> USE DEF Idle, Away
<1>1. CASE Connect
  BY <1>1 DEF Connect
<1>2. CASE ActivateFails \/ TakeShutdown \/ LosesConnection
  <2>1. cpc \notin {"connect", "dead"} /\ conn' = conn /\ RunEnds /\ cpc' \in {"connect", "over"}
    BY <1>2 DEF ActivateFails, TakeShutdown, LosesConnection, RunFails
  <2>2. link'[conn] # "up"
    BY <2>1, RunEndsDown
  <2> QED
    BY <2>1, <2>2 DEF RunEnds
<1>3. CASE ~Connect /\ UNCHANGED <<cpc, cur, todo>>
  <2>1. conn \in Conns \cup {0} /\ conn' = conn
    BY <1>3, ConnectionKept DEF SessionInv, SessionTypeOK, ClientTypes
  <2>2. conn # 0 => (link'[conn] = "up" => link[conn] = "up")
    BY <1>3, <2>1, ConnectionKept
  <2> QED
    BY <1>3, <2>1, <2>2
<1>4. CASE HelloUnanswered
  BY <1>4 DEF HelloUnanswered
<1>5. CASE ClientStep /\ ~Connect
  <2>1. cpc' \notin {"connect", "over", "dead"}
    BY <1>5 DEF ClientStep, Resume, Sweep, AwaitDropped, VerdictOk, VerdictRejected, Activate,
       DrainRegister, DrainSkip, LoopDropped, TakeRegister, TakeDeregister, Register, Onward, Reading
  <2>2. cpc' \notin {"await", "activate"} => cur' = 0
    BY <1>5 DEF ClientStep, Resume, Sweep, AwaitDropped, VerdictOk, VerdictRejected, Activate,
       DrainRegister, DrainSkip, LoopDropped, TakeRegister, TakeDeregister, Register, Onward, Reading
  <2>3. cpc' = "loop" => todo' = {}
    BY <1>5 DEF ClientStep, Resume, Sweep, AwaitDropped, VerdictOk, VerdictRejected, Activate,
       DrainRegister, DrainSkip, LoopDropped, TakeRegister, TakeDeregister, Register, Onward, Reading
  <2> QED
    BY <2>1, <2>2, <2>3
<1>6. \/ ClientStep \/ HelloUnanswered \/ ActivateFails \/ TakeShutdown \/ LosesConnection
      \/ UNCHANGED <<cpc, cur, todo>>
  BY DEF Next, Disturbance, AddService, DeleteService, PoolStops, PoolDies, ServerStops, Cut,
     FallSilent, HandlerStep, ServeRegister, ServeDeregister, BindRefused, Bound, Publish,
     SessionEnds, clientVars, vars
<1> QED
  BY <1>1, <1>2, <1>3, <1>4, <1>5, <1>6

(* Ids are given once.                                                     *)
LEMMA StepKeepsGiven ==
  ASSUME SessionInv, GivenOnce, [Next]_vars PROVE GivenOnce'
<1> USE DEF SessionInv, SessionTypeOK
<1>0. /\ loc \in [Names -> Ids \cup {0}] /\ 0 \notin Ids /\ NameOf \in [Ids -> Names]
      /\ requests \in Seq(Message({"register", "deregister"}))
  BY SessionAssumption DEF ConfigTypes
<1>1. \A i \in 1..Len(requests) : requests[i].id \in Ids
  <2>1. \A i \in 1..Len(requests) : requests[i] \in Message({"register", "deregister"})
    BY <1>0
  <2> QED
    BY <2>1 DEF Message
<1>2. CASE UNCHANGED <<loc, fresh, requests>>
  BY <1>2 DEF GivenOnce
<1>3. CASE Resume
  BY <1>3 DEF Resume, GivenOnce
<1>4. CASE TakeRegister \/ TakeDeregister
  <2> DEFINE q == Tail(requests)
  <2>1. requests # <<>> /\ requests' = q /\ UNCHANGED <<loc, fresh>>
    BY <1>4 DEF TakeRegister, TakeDeregister
  <2>2. /\ Len(q) = Len(requests) - 1 /\ Len(requests) \in Nat
        /\ \A i \in 1..Len(q) : q[i] = requests[i + 1]
    BY <1>0, <2>1
  <2>3. \A i \in 1..Len(q) : i + 1 \in 1..Len(requests)
    BY <2>2
  <2> HIDE DEF q
  <2>4. \A i, j \in 1..Len(q) : j > i => j + 1 > i + 1
    BY <2>2
  <2>5. ASSUME NEW i \in 1..Len(q)
        PROVE  /\ q[i].id \notin fresh
               /\ q[i].op = "deregister" =>
                    /\ loc[NameOf[q[i].id]] # q[i].id
                    /\ \A j \in 1..Len(q) : j > i => q[j].id # q[i].id
    <3>1. q[i] = requests[i + 1] /\ i + 1 \in 1..Len(requests)
      BY <2>2, <2>3
    <3>2. /\ requests[i + 1].id \notin fresh
          /\ requests[i + 1].op = "deregister" =>
               /\ loc[NameOf[requests[i + 1].id]] # requests[i + 1].id
               /\ \A j \in 1..Len(requests) : j > i + 1 => requests[j].id # requests[i + 1].id
      BY <3>1 DEF GivenOnce
    <3>3. requests[i + 1].op = "deregister" =>
            \A j \in 1..Len(q) : j > i => requests[j + 1].id # requests[i + 1].id
      BY <2>3, <2>4, <3>2
    <3> QED
      BY <2>2, <3>1, <3>2, <3>3
  <2> QED
    BY <2>1, <2>5 DEF GivenOnce
<1>5. ASSUME NEW s \in Names, AddService(s) PROVE GivenOnce'
  <2>1. PICK id \in IF loc[s] # 0 THEN {loc[s]} ELSE {i \in fresh : NameOf[i] = s} :
          /\ loc' = [loc EXCEPT ![s] = id] /\ fresh' = fresh \ {id}
          /\ requests' = Append(requests, Req("register", id))
    BY <1>5 DEF AddService
  <2>2. id \in Ids /\ NameOf[id] = s
    BY <1>0, <2>1 DEF ConfigTypes, GivenOnce
  <2>3. \A i \in 1..Len(requests) : requests[i].op = "deregister" => requests[i].id # id
    BY <1>0, <1>1, <2>1, <2>2 DEF GivenOnce
  <2>4. \A t \in Names : loc'[t] # 0 => NameOf[loc'[t]] = t /\ loc'[t] \notin fresh'
    BY <1>0, <2>1, <2>2 DEF GivenOnce
  <2> DEFINE m == Req("register", id)
             v == Append(requests, m)
  <2>5. m \in Message({"register", "deregister"}) /\ m.op = "register" /\ m.id = id
    BY <2>2 DEF Req, Message
  <2> HIDE DEF m
  <2>6. /\ Len(requests) \in Nat /\ Len(v) = Len(requests) + 1 /\ v[Len(requests) + 1] = m
        /\ \A i \in 1..Len(requests) : v[i] = requests[i]
        /\ \A i \in 1..Len(v) : i \in 1..Len(requests) \/ i = Len(requests) + 1
    BY <1>0, <2>5
  <2>7. requests' = v
    BY <2>1 DEF m
  <2> HIDE DEF v
  <2>8. ASSUME NEW i \in 1..Len(v)
        PROVE  /\ v[i].id \notin fresh'
               /\ v[i].op = "deregister" =>
                    /\ loc'[NameOf[v[i].id]] # v[i].id
                    /\ \A j \in 1..Len(v) : j > i => v[j].id # v[i].id
    <3>1. CASE i = Len(requests) + 1
      BY <2>1, <2>5, <2>6, <3>1
    <3>2. CASE i \in 1..Len(requests)
      <4>1. v[i] = requests[i] /\ v[i].id \notin fresh'
        BY <2>1, <2>6, <3>2 DEF GivenOnce
      <4>2. ASSUME v[i].op = "deregister"
            PROVE  /\ loc'[NameOf[v[i].id]] # v[i].id
                   /\ \A j \in 1..Len(v) : j > i => v[j].id # v[i].id
        <5>1. v[i].id # id /\ loc[NameOf[v[i].id]] # v[i].id
          BY <2>3, <3>2, <4>1, <4>2 DEF GivenOnce
        <5>2. loc'[NameOf[v[i].id]] # v[i].id
          BY <1>0, <1>1, <2>1, <3>2, <4>1, <5>1
        <5>3. \A j \in 1..Len(requests) : j > i => v[j].id # v[i].id
          BY <2>6, <3>2, <4>1, <4>2 DEF GivenOnce
        <5> QED
          BY <2>5, <2>6, <5>1, <5>2, <5>3
      <4> QED
        BY <4>1, <4>2
    <3> QED
      BY <2>6, <3>1, <3>2
  <2> QED
    BY <2>4, <2>7, <2>8 DEF GivenOnce
<1>6. ASSUME NEW s \in Names, DeleteService(s) PROVE GivenOnce'
  <2> DEFINE id == loc[s]
             m == Req("deregister", id)
             v == Append(requests, m)
  <2>1. /\ id \in Ids /\ NameOf[id] = s /\ id \notin fresh
        /\ loc' = [loc EXCEPT ![s] = 0] /\ fresh' = fresh /\ requests' = v
    BY <1>0, <1>6 DEF DeleteService, GivenOnce
  <2>2. m \in Message({"register", "deregister"}) /\ m.id = id
    BY <2>1 DEF Req, Message
  <2> HIDE DEF m
  <2>3. /\ Len(requests) \in Nat /\ Len(v) = Len(requests) + 1 /\ v[Len(requests) + 1] = m
        /\ \A i \in 1..Len(requests) : v[i] = requests[i]
        /\ \A i \in 1..Len(v) : i \in 1..Len(requests) \/ i = Len(requests) + 1
    BY <1>0, <2>2
  <2>4. \A i \in 1..Len(requests) : requests[i].op = "deregister" => requests[i].id # id
    BY <2>1 DEF GivenOnce
  <2> HIDE DEF v, id
  <2>5. \A t \in Names : loc'[t] # 0 => NameOf[loc'[t]] = t /\ loc'[t] \notin fresh'
    BY <1>0, <2>1 DEF GivenOnce
  <2>6. ASSUME NEW i \in 1..Len(v)
        PROVE  /\ v[i].id \notin fresh'
               /\ v[i].op = "deregister" =>
                    /\ loc'[NameOf[v[i].id]] # v[i].id
                    /\ \A j \in 1..Len(v) : j > i => v[j].id # v[i].id
    <3>1. CASE i = Len(requests) + 1
      <4>1. \A j \in 1..Len(v) : ~(j > i)
        BY <2>3, <3>1
      <4> QED
        BY <1>0, <2>1, <2>2, <2>3, <3>1, <4>1
    <3>2. CASE i \in 1..Len(requests)
      <4>1. v[i] = requests[i] /\ v[i].id \notin fresh' /\ v[i].id \in Ids
        BY <1>1, <2>1, <2>3, <3>2 DEF GivenOnce
      <4>2. ASSUME v[i].op = "deregister"
            PROVE  /\ loc'[NameOf[v[i].id]] # v[i].id
                   /\ \A j \in 1..Len(v) : j > i => v[j].id # v[i].id
        <5>1. v[i].id # id /\ loc[NameOf[v[i].id]] # v[i].id
          BY <2>4, <3>2, <4>1, <4>2 DEF GivenOnce
        <5>2. loc'[NameOf[v[i].id]] # v[i].id
          BY <1>0, <2>1, <4>1, <5>1
        <5>3. \A j \in 1..Len(requests) : j > i => v[j].id # v[i].id
          BY <2>3, <3>2, <4>1, <4>2 DEF GivenOnce
        <5> QED
          BY <2>2, <2>3, <5>1, <5>2, <5>3
      <4> QED
        BY <4>1, <4>2
    <3> QED
      BY <2>3, <3>1, <3>2
  <2> QED
    BY <2>1, <2>5, <2>6 DEF GivenOnce
<1>7. \/ UNCHANGED <<loc, fresh, requests>> \/ Resume \/ TakeRegister \/ TakeDeregister
      \/ \E s \in Names : AddService(s) \/ DeleteService(s)
  BY DEF Next, Disturbance, ClientStep, Connect, Sweep, AwaitDropped, VerdictOk, VerdictRejected,
     Activate, DrainRegister, DrainSkip, LoopDropped, TakeShutdown, LosesConnection,
     HelloUnanswered, ActivateFails, PoolStops, PoolDies, ServerStops, Cut, FallSilent,
     HandlerStep, ServeRegister, ServeDeregister, BindRefused, Bound, Publish, SessionEnds,
     configVars, vars
<1> QED
  BY <1>2, <1>3, <1>4, <1>5, <1>6, <1>7

-----------------------------------------------------------------------------
(* A queue that was added to, or from which the first was taken, holds     *)
(* what it held before, and at most one more.                              *)
LEMMA QueueMembers ==
  ASSUME NEW S, NEW q \in Seq(S)
  PROVE  /\ \A x \in S : \A i \in 1..Len(Append(q, x)) :
              Append(q, x)[i] = x \/ \E j \in 1..Len(q) : Append(q, x)[i] = q[j]
         /\ \A x \in S : \A j \in 1..Len(q) : \E i \in 1..Len(Append(q, x)) : Append(q, x)[i] = q[j]
         /\ \A x \in S : \E i \in 1..Len(Append(q, x)) : Append(q, x)[i] = x
         /\ q # <<>> =>
              /\ \A i \in 1..Len(Tail(q)) : \E j \in 1..Len(q) : Tail(q)[i] = q[j]
              /\ \A j \in 1..Len(q) : q[j] = Head(q) \/ \E i \in 1..Len(Tail(q)) : Tail(q)[i] = q[j]
<1>1. ASSUME NEW x \in S
      PROVE  /\ \A i \in 1..Len(Append(q, x)) :
                  Append(q, x)[i] = x \/ \E j \in 1..Len(q) : Append(q, x)[i] = q[j]
             /\ \A j \in 1..Len(q) : \E i \in 1..Len(Append(q, x)) : Append(q, x)[i] = q[j]
             /\ \E i \in 1..Len(Append(q, x)) : Append(q, x)[i] = x
  <2> DEFINE v == Append(q, x)
  <2>1. /\ Len(q) \in Nat /\ Len(v) = Len(q) + 1 /\ v[Len(q) + 1] = x
        /\ \A i \in 1..Len(q) : v[i] = q[i]
    OBVIOUS
  <2>2. /\ \A i \in 1..Len(v) : i \in 1..Len(q) \/ i = Len(q) + 1
        /\ \A i \in 1..Len(q) : i \in 1..Len(v)
        /\ Len(q) + 1 \in 1..Len(v)
    BY <2>1
  <2> HIDE DEF v
  <2>3. /\ \A i \in 1..Len(v) : v[i] = x \/ \E j \in 1..Len(q) : v[i] = q[j]
        /\ \A j \in 1..Len(q) : \E i \in 1..Len(v) : v[i] = q[j]
        /\ \E i \in 1..Len(v) : v[i] = x
    BY <2>1, <2>2
  <2> QED
    BY <2>3 DEF v
<1>2. ASSUME q # <<>>
      PROVE  /\ \A i \in 1..Len(Tail(q)) : \E j \in 1..Len(q) : Tail(q)[i] = q[j]
             /\ \A j \in 1..Len(q) : q[j] = Head(q) \/ \E i \in 1..Len(Tail(q)) : Tail(q)[i] = q[j]
  <2> DEFINE t == Tail(q)
             h == Head(q)
  <2>1. /\ h = q[1] /\ Len(q) \in Nat \ {0} /\ Len(t) = Len(q) - 1
        /\ \A i \in 1..Len(t) : t[i] = q[i + 1]
    BY <1>2
  <2>2. /\ \A i \in 1..Len(t) : i + 1 \in 1..Len(q)
        /\ \A j \in 1..Len(q) : j # 1 => j - 1 \in 1..Len(t) /\ (j - 1) + 1 = j
    BY <2>1
  <2> HIDE DEF t, h
  <2>3. \A i \in 1..Len(t) : \E j \in 1..Len(q) : t[i] = q[j]
    BY <2>1, <2>2
  <2>4. ASSUME NEW j \in 1..Len(q) PROVE q[j] = h \/ \E i \in 1..Len(t) : t[i] = q[j]
    <3>1. CASE j = 1
      BY <2>1, <3>1
    <3>2. CASE j # 1
      <4>1. j - 1 \in 1..Len(t) /\ t[j - 1] = q[j]
        BY <2>1, <2>2, <3>2
      <4> QED
        BY <4>1
    <3> QED
      BY <3>1, <3>2
  <2> QED
    BY <2>3, <2>4 DEF t, h
<1> QED
  BY <1>1, <1>2

(* An id whose service was deleted and whose deregistration went out is    *)
(* never used again.                                                       *)
LEMMA GoneStays ==
  ASSUME SessionInv, GivenOnce, Idle, [Next]_vars, NEW id \in Ids, Gone(id)
  PROVE  Gone(id)'
<1> USE DEF SessionInv, SessionTypeOK
<1>0. /\ entry \in [Ids -> {"absent", "registering", "active", "rejected"}]
      /\ loc \in [Names -> Ids \cup {0}] /\ 0 \notin Ids /\ NameOf \in [Ids -> Names]
      /\ requests \in Seq(Message({"register", "deregister"})) /\ NameOf[id] \in Names
  BY SessionAssumption DEF ClientTypes, ConfigTypes
<1>1. /\ entry[id] = "absent" /\ cur # id /\ id \notin todo
      /\ id \notin fresh /\ loc[NameOf[id]] # id
      /\ \A i \in 1..Len(requests) : requests[i].id # id
  BY DEF Gone
<1>2. CASE UNCHANGED <<entry, cur, todo, fresh, loc, requests>>
  BY <1>1, <1>2 DEF Gone
<1>3. ASSUME NEW s \in Names, AddService(s) \/ DeleteService(s) PROVE Gone(id)'
  <2>1. UNCHANGED <<entry, cur, todo>>
    BY <1>3 DEF AddService, DeleteService, clientVars
  <2>2. PICK x \in Ids, op \in {"register", "deregister"} :
          /\ x # id /\ requests' = Append(requests, Req(op, x))
          /\ fresh' \subseteq fresh /\ loc'[NameOf[id]] # id
    <3>1. CASE AddService(s)
      <4>1. PICK x \in IF loc[s] # 0 THEN {loc[s]} ELSE {i \in fresh : NameOf[i] = s} :
              /\ loc' = [loc EXCEPT ![s] = x] /\ fresh' = fresh \ {x}
              /\ requests' = Append(requests, Req("register", x))
        BY <3>1 DEF AddService
      <4>2. x \in Ids /\ NameOf[x] = s /\ x # id
        BY <1>0, <1>1, <4>1 DEF ConfigTypes, GivenOnce
      <4>3. loc'[NameOf[id]] # id
        BY <1>0, <1>1, <4>1, <4>2
      <4> QED
        BY <4>1, <4>2, <4>3
    <3>2. CASE DeleteService(s)
      <4>1. /\ loc[s] \in Ids /\ NameOf[loc[s]] = s /\ loc[s] # id
            /\ loc' = [loc EXCEPT ![s] = 0] /\ fresh' = fresh
            /\ requests' = Append(requests, Req("deregister", loc[s]))
        BY <1>0, <1>1, <3>2 DEF DeleteService, GivenOnce
      <4>2. loc'[NameOf[id]] # id
        BY <1>0, <1>1, <4>1
      <4> QED
        BY <4>1, <4>2
    <3> QED
      BY <1>3, <3>1, <3>2
  <2> DEFINE m == Req(op, x)
             v == Append(requests, m)
  <2>3. m \in Message({"register", "deregister"}) /\ m.id # id
    BY <2>2 DEF Req, Message
  <2>4. requests' = v
    BY <2>2
  <2> HIDE DEF m
  <2>5. \A i \in 1..Len(v) : v[i] = m \/ \E j \in 1..Len(requests) : v[i] = requests[j]
    BY <1>0, <2>3, QueueMembers
  <2> HIDE DEF v
  <2>6. \A i \in 1..Len(requests') : requests'[i].id # id
    BY <1>1, <2>3, <2>4, <2>5
  <2> QED
    BY <1>1, <2>1, <2>2, <2>6 DEF Gone
<1>4. CASE Resume
  <2>1. {i \in DOMAIN requests : requests[i].id = id} = {}
    <3>1. DOMAIN requests = 1..Len(requests)
      BY <1>0
    <3> QED
      BY <1>1, <3>1
  <2>2. Applied(entry)[id] = "absent"
    BY <1>1, <2>1 DEF Applied
  <2>3. entry'[id] = "absent"
    BY <1>4, <2>2 DEF Resume, Reregistering
  <2> QED
    BY <1>1, <1>4, <2>3 DEF Resume, Gone
<1>5. CASE TakeRegister \/ TakeDeregister
  <2>1. requests # <<>> /\ requests' = Tail(requests) /\ UNCHANGED <<loc, fresh, todo>>
    BY <1>5 DEF TakeRegister, TakeDeregister
  <2>2. Head(requests).id # id
    <3>1. 1 \in 1..Len(requests) /\ Head(requests) = requests[1]
      BY <1>0, <2>1
    <3> QED
      BY <1>1, <3>1
  <2>3. \A i \in 1..Len(requests') : requests'[i].id # id
    <3>1. \A i \in 1..Len(Tail(requests)) : \E j \in 1..Len(requests) : Tail(requests)[i] = requests[j]
      BY <1>0, <2>1, QueueMembers
    <3> QED
      BY <1>1, <2>1, <3>1
  <2>4. entry'[id] = entry[id] /\ (cur' = cur \/ cur' = Head(requests).id)
    BY <1>0, <1>5, <2>2 DEF TakeRegister, TakeDeregister, Register
  <2> QED
    BY <1>1, <2>1, <2>2, <2>3, <2>4 DEF Gone
<1>6. CASE Sweep
  <2>1. Least(todo) \in todo
    BY <1>6, LeastIsMember DEF Sweep, Busy, ClientTypes
  <2> QED
    BY <1>1, <1>6, <2>1 DEF Sweep, Register, configVars, Gone
<1>7. CASE DrainRegister
  <2>1. LastDrop # id
    BY <1>1, <1>7 DEF DrainRegister
  <2>2. cur' = LastDrop /\ entry'[id] = entry[id]
    BY <1>0, <1>7, <2>1 DEF DrainRegister, Register
  <2> QED
    BY <1>1, <1>7, <2>1, <2>2 DEF DrainRegister, configVars, Gone
<1>8. CASE VerdictRejected \/ Activate \/ ActivateFails \/ TakeShutdown \/ LosesConnection
  <2>1. /\ cur' = 0 /\ todo' \subseteq todo /\ UNCHANGED <<loc, fresh, requests>>
        /\ entry' = entry \/ \E x : entry' = [entry EXCEPT ![cur] = x]
    BY <1>8 DEF VerdictRejected, Activate, ActivateFails, TakeShutdown, LosesConnection, RunFails,
       RunEnds, configVars
  <2>2. entry'[id] = entry[id]
    BY <1>0, <1>1, <2>1
  <2> QED
    BY <1>0, <1>1, <2>1, <2>2 DEF Gone
<1>9. \/ UNCHANGED <<entry, cur, todo, fresh, loc, requests>>
      \/ \E s \in Names : AddService(s) \/ DeleteService(s)
      \/ Resume \/ TakeRegister \/ TakeDeregister \/ Sweep \/ DrainRegister
      \/ VerdictRejected \/ Activate \/ ActivateFails \/ TakeShutdown \/ LosesConnection
  <2>1. CASE ClientStep \/ TakeShutdown \/ LosesConnection
    BY <2>1 DEF ClientStep, Connect, AwaitDropped, VerdictOk, DrainSkip, LoopDropped, configVars
  <2>2. CASE \E n \in Conns : HandlerStep(n) \/ SessionEnds(n)
    BY <2>2 DEF HandlerStep, ServeRegister, ServeDeregister, BindRefused, Bound, Publish,
                SessionEnds, configVars, clientVars
  <2>3. CASE (\E s \in Names : PoolStops(s)) \/ UNCHANGED vars
    BY <2>3 DEF PoolStops, configVars, clientVars, vars
  <2>4. CASE Disturbance
    BY <2>4 DEF Disturbance, HelloUnanswered, PoolDies, ServerStops, Cut, FallSilent,
                configVars, clientVars
  <2> QED
    BY <2>1, <2>2, <2>3, <2>4 DEF Next
<1> QED
  BY <1>2, <1>3, <1>4, <1>5, <1>6, <1>7, <1>8, <1>9

(* What a step leaves on the way to the server was there before, is a      *)
(* registration, or is the deregistration just sent.                       *)
LEMMA CommandsKept ==
  ASSUME SessionInv, Unused, [Next]_vars, conn' # 0,
         NEW i \in 1..Len(toServer'[conn']), toServer'[conn'][i].op = "deregister"
  PROVE  \/ /\ conn # 0
            /\ \E j \in 1..Len(toServer[conn]) : toServer'[conn'][i] = toServer[conn][j]
         \/ TakeDeregister /\ toServer'[conn'][i] = Head(requests)
<1> USE DEF SessionInv, SessionTypeOK
<1> DEFINE MS == Message({"register", "deregister"})
<1>0. toServer \in [Conns -> Seq(MS)] /\ conn \in Conns \cup {0}
  BY DEF WireTypes, ClientTypes
<1>1. CASE Connect
  <2> DEFINE k == conn + 1
  <2>1. k \in Conns /\ k > conn /\ conn' = k /\ toServer' = toServer
    BY <1>1, <1>0, SessionAssumption DEF Connect, Conns
  <2>2. toServer'[conn'] = <<>>
    BY <2>1 DEF Unused
  <2> QED
    BY <2>2
<1>2. CASE ~Connect
  <2>1. conn' = conn /\ conn \in Conns
    BY <1>0, <1>2, ConnectionKept
  <2> DEFINE a == toServer[conn]
             b == toServer'[conn]
  <2>2. a \in Seq(MS)
    BY <1>0, <2>1
  <2>3. CASE b = a
    BY <2>1, <2>3
  <2>4. CASE b = <<>>
    BY <2>1, <2>4
  <2>5. CASE a # <<>> /\ b = Tail(a)
    <3> HIDE DEF a, b
    <3>1. \E j \in 1..Len(a) : b[i] = a[j]
      BY <2>1, <2>2, <2>5, QueueMembers DEF b
    <3> QED
      BY <2>1, <3>1 DEF a, b
  <2>6. ASSUME NEW id \in Ids, b = Append(a, Req("register", id))
        PROVE  \E j \in 1..Len(a) : b[i] = a[j]
    <3> DEFINE m == Req("register", id)
    <3>1. m \in MS /\ m.op # "deregister" /\ b = Append(a, m)
      BY <2>6 DEF Req, Message
    <3> HIDE DEF m, a
    <3>2. Append(a, m)[i] = m \/ \E j \in 1..Len(a) : Append(a, m)[i] = a[j]
      BY <2>1, <2>2, <3>1, QueueMembers
    <3> QED
      BY <2>1, <3>1, <3>2
  <2>7. CASE TakeDeregister /\ b = Append(a, Head(requests))
    <3> DEFINE m == Head(requests)
    <3>1. m \in MS
      BY <2>7, QueueFacts DEF TakeDeregister, ConfigTypes
    <3> HIDE DEF m, a
    <3>2. Append(a, m)[i] = m \/ \E j \in 1..Len(a) : Append(a, m)[i] = a[j]
      BY <2>1, <2>2, <2>7, <3>1, QueueMembers DEF m
    <3> QED
      BY <2>1, <2>7, <3>2 DEF m, a
  <2>8. \/ b = a \/ b = <<>> \/ (a # <<>> /\ b = Tail(a))
        \/ \E id \in Ids : b = Append(a, Req("register", id))
        \/ TakeDeregister /\ b = Append(a, Head(requests))
    <3>1. ASSUME NEW id \in Ids, Register(id)
          PROVE  b = a \/ \E x \in Ids : b = Append(a, Req("register", x))
      BY <1>0, <2>1, <3>1 DEF Register, Send
    <3>2. CASE Sweep
      <4>1. Least(todo) \in Ids
        BY <3>2, LeastIsMember DEF Sweep, Busy, ClientTypes
      <4> QED
        BY <3>1, <3>2, <4>1 DEF Sweep
    <3>3. CASE DrainRegister
      <4>1. LastDrop \in Ids
        BY <3>3, FrontFacts DEF DrainRegister, LastDrop, Busy, ClientTypes
      <4> QED
        BY <3>1, <3>3, <4>1 DEF DrainRegister
    <3>4. CASE TakeRegister
      <4>1. Head(requests) \in MS
        BY <3>4, QueueFacts DEF TakeRegister, ConfigTypes
      <4>2. Head(requests).id \in Ids
        BY <4>1 DEF Message
      <4> QED
        BY <3>1, <3>4, <4>2 DEF TakeRegister
    <3>5. CASE TakeDeregister
      BY <1>0, <2>1, <3>5 DEF TakeDeregister, Send
    <3>6. ASSUME NEW n \in Conns, HandlerStep(n) \/ SessionEnds(n)
          PROVE  b = a \/ b = <<>> \/ (a # <<>> /\ b = Tail(a))
      BY <1>0, <2>1, <3>6 DEF HandlerStep, ServeRegister, ServeDeregister, ServerReads,
         BindRefused, Bound, Publish, SessionEnds
    <3>7. \/ Sweep \/ DrainRegister \/ TakeRegister \/ TakeDeregister \/ toServer' = toServer
          \/ \E n \in Conns : HandlerStep(n) \/ SessionEnds(n)
      BY <1>2 DEF Next, Disturbance, ClientStep, Resume, AwaitDropped, VerdictOk, VerdictRejected,
         Activate, DrainSkip, LoopDropped, TakeShutdown, LosesConnection, HelloUnanswered,
         ActivateFails, AddService, DeleteService, PoolStops, PoolDies, ServerStops, Cut,
         FallSilent, vars
    <3> QED
      BY <3>2, <3>3, <3>4, <3>5, <3>6, <3>7
  <2> QED
    BY <2>1, <2>3, <2>4, <2>5, <2>6, <2>7, <2>8
<1> QED
  BY <1>1, <1>2

LEMMA StepKeepsDeleted ==
  ASSUME SessionInv, Unused, GivenOnce, Idle, DeletedIsGone, [Next]_vars
  PROVE  DeletedIsGone'
<1> USE DEF SessionInv, SessionTypeOK
<1> DEFINE MS == Message({"register", "deregister"})
           GoneNow(id) == /\ entry'[id] = "absent" /\ cur' # id /\ id \notin todo'
                          /\ id \notin fresh' /\ loc'[NameOf[id]] # id
                          /\ \A j \in 1..Len(requests') : requests'[j].id # id
<1>1. SUFFICES ASSUME conn' # 0, NEW i \in 1..Len(toServer'[conn']),
                      toServer'[conn'][i].op = "deregister"
               PROVE  GoneNow(toServer'[conn'][i].id)
  BY DEF DeletedIsGone, Gone
<1> DEFINE m == toServer'[conn'][i]
<1>2. CASE conn # 0 /\ \E j \in 1..Len(toServer[conn]) : m = toServer[conn][j]
  <2>1. PICK j \in 1..Len(toServer[conn]) : m = toServer[conn][j]
    BY <1>2
  <2>2. toServer[conn] \in Seq(MS)
    BY <1>2 DEF ClientTypes, WireTypes
  <2>3. toServer[conn][j] \in MS
    BY <2>2
  <2> DEFINE id == toServer[conn][j].id
  <2>4. id \in Ids /\ m.id = id
    BY <2>1, <2>3 DEF Message
  <2>5. Gone(id)
    BY <1>1, <1>2, <2>1 DEF DeletedIsGone
  <2> HIDE DEF id, m
  <2>6. PICK x \in Ids : x = id
    BY <2>4
  <2>7. Gone(x)'
    BY <2>5, <2>6, GoneStays
  <2>8. GoneNow(x)
    BY <2>7 DEF Gone
  <2> QED
    BY <2>4, <2>6, <2>8 DEF m
<1>3. CASE TakeDeregister /\ m = Head(requests)
  <2> DEFINE id == Head(requests).id
  <2>1. /\ requests # <<>> /\ requests' = Tail(requests) /\ cpc = "loop"
        /\ requests \in Seq(MS) /\ Head(requests).op = "deregister"
        /\ entry' = [entry EXCEPT ![id] = "absent"]
        /\ UNCHANGED <<loc, fresh, cur, todo>>
    BY <1>3 DEF TakeDeregister, ConfigTypes
  <2>2. Head(requests) \in MS /\ 1 \in 1..Len(requests) /\ Head(requests) = requests[1]
    BY <2>1
  <2>3. id \in Ids /\ 0 \notin Ids
    BY <2>2, SessionAssumption DEF Message
  <2>4. /\ id \notin fresh /\ loc[NameOf[id]] # id
        /\ \A j \in 1..Len(requests) : j > 1 => requests[j].id # id
    BY <2>1, <2>2 DEF GivenOnce
  <2>5. cur = 0 /\ todo = {}
    BY <2>1 DEF Idle
  <2>6. /\ Len(requests) \in Nat /\ Len(Tail(requests)) = Len(requests) - 1
        /\ \A j \in 1..Len(Tail(requests)) : Tail(requests)[j] = requests[j + 1]
    BY <2>1
  <2>7. \A j \in 1..Len(requests') : requests'[j].id # id
    <3>1. \A j \in 1..(Len(requests) - 1) : j + 1 \in 1..Len(requests) /\ j + 1 > 1
      BY <2>6
    <3> QED
      BY <2>1, <2>4, <2>6, <3>1
  <2>8. entry'[id] = "absent"
    BY <2>1, <2>3 DEF ClientTypes
  <2>9. /\ entry'[id] = "absent" /\ cur' # id /\ id \notin todo'
        /\ id \notin fresh' /\ loc'[NameOf[id]] # id
        /\ \A j \in 1..Len(requests') : requests'[j].id # id
    BY <2>1, <2>3, <2>4, <2>5, <2>7, <2>8
  <2>10. m.id = id
    BY <1>3
  <2> HIDE DEF id, m
  <2> QED
    BY <2>9, <2>10 DEF m
<1> QED
  BY <1>1, <1>2, <1>3, CommandsKept

(* What backs a service stays, while the connection does: an endpoint held *)
(* for this session goes with a notice, or is taken from the service by a  *)
(* command about it; a notice is put aside when it is read; and what was   *)
(* put aside stays until the drain takes it.                               *)
LEMMA HeldStays ==
  ASSUME SessionInv, [Next]_vars, ~Connect, Live', NEW id \in Ids,
         port[NameOf[id]] = Holder(conn, id)
  PROVE  \/ port'[NameOf[id]] = Holder(conn, id)
         \/ Noticed(toClient'[conn], id)
         \/ /\ ServeRegister(conn) \/ ServeDeregister(conn)
            /\ Head(toServer[conn]).id = id
<1> USE DEF SessionInv, SessionTypeOK
<1> DEFINE s == NameOf[id]
           MC == Message({"ok", "rejected", "dropped"})
<1>0. /\ port \in [Names -> [conn : Conns, id : Ids, stopping : BOOLEAN] \cup {Free}]
      /\ toClient \in [Conns -> Seq(MC)] /\ s \in Names
      /\ link \in [Conns -> {"none", "up", "closed", "silent"}]
  BY SessionAssumption DEF ServerTypes, WireTypes
<1>1. /\ conn' = conn /\ conn \in Conns /\ link'[conn] = "up" /\ link[conn] = "up"
      /\ conn \in registered' /\ conn \in registered
  <2>1. conn' = conn /\ conn \in Conns
    BY ConnectionKept DEF Live, ClientTypes
  <2> QED
    BY <2>1, ConnectionKept DEF Live
<1>2. port[s].conn = conn /\ port[s].id = id /\ port[s].stopping = FALSE /\ port[s] # Free
  <2>1. id # 0
    BY SessionAssumption
  <2> QED
    BY <2>1 DEF Holder, Free
<1>3. CASE port' = port
  BY <1>3
<1>4. ASSUME NEW n \in Conns, HandlerStep(n) \/ SessionEnds(n)
      PROVE  \/ port'[s] = port[s]
             \/ /\ ServeRegister(conn) \/ ServeDeregister(conn)
                /\ Head(toServer[conn]).id = id
  <2>1. ASSUME NEW S, port' = Stopping(n, S), ~(n = conn /\ id \in S) PROVE port'[s] = port[s]
    BY <1>0, <1>2, <2>1 DEF Stopping
  <2>2. CASE n # conn /\ (ServeRegister(n) \/ ServeDeregister(n) \/ SessionEnds(n))
    BY <2>1, <2>2 DEF ServeRegister, ServeDeregister, Takeover, SessionEnds
  <2>3. CASE n = conn /\ (ServeRegister(n) \/ ServeDeregister(n))
    BY <2>1, <2>3 DEF ServeRegister, ServeDeregister, Takeover
  <2>4. CASE n = conn /\ SessionEnds(n)
    BY <1>1, <2>4 DEF SessionEnds
  <2>5. CASE BindRefused(n)
    BY <2>5 DEF BindRefused
  <2>6. CASE Bound(n)
    BY <1>0, <1>2, <2>6 DEF Bound
  <2>7. CASE Publish(n)
    <3>1. CASE n = conn
      BY <1>1, <2>7, <3>1 DEF Publish
    <3>2. CASE n # conn
      BY <2>1, <2>7, <3>2 DEF Publish
    <3> QED
      BY <3>1, <3>2
  <2> QED
    BY <1>4, <2>2, <2>3, <2>4, <2>5, <2>6, <2>7 DEF HandlerStep
<1>5. ASSUME NEW t \in Names, PoolStops(t) PROVE port'[s] = port[s]
  BY <1>0, <1>2, <1>5 DEF PoolStops
<1>6. ASSUME NEW t \in Names, PoolDies(t)
      PROVE  port'[s] = port[s] \/ Noticed(toClient'[conn], id)
  <2>1. CASE t # s
    BY <1>0, <1>6, <2>1 DEF PoolDies
  <2>2. CASE t = s
    <3> DEFINE m == Req("dropped", id)
    <3>1. m \in MC
      BY DEF Req, Message
    <3>2. toClient'[conn] = Append(toClient[conn], m)
      BY <1>0, <1>1, <1>2, <1>6, <2>2 DEF PoolDies, Tell
    <3>3. toClient[conn] \in Seq(MC)
      BY <1>0, <1>1
    <3> DEFINE b == toClient[conn]
    <3>4. b \in Seq(MC)
      BY <3>3
    <3> HIDE DEF m, MC, b
    <3>5. \E i \in 1..Len(Append(b, m)) : Append(b, m)[i] = m
      BY ONLY <3>1, <3>4, QueueMembers
    <3> QED
      BY <3>2, <3>5 DEF Noticed, m, b
  <2> QED
    BY <2>1, <2>2
<1>7. CASE ServerStops
  BY <1>1, <1>7 DEF ServerStops
<1>8. \/ port' = port \/ ServerStops
      \/ \E n \in Conns : HandlerStep(n) \/ SessionEnds(n)
      \/ \E t \in Names : PoolStops(t) \/ PoolDies(t)
  BY DEF Next, Disturbance, ClientStep, Connect, Resume, Sweep, AwaitDropped, VerdictOk,
     VerdictRejected, Activate, DrainRegister, DrainSkip, LoopDropped, TakeRegister,
     TakeDeregister, TakeShutdown, LosesConnection, HelloUnanswered, ActivateFails, AddService,
     DeleteService, Cut, FallSilent, serverVars, vars
<1> QED
  BY <1>3, <1>4, <1>5, <1>6, <1>7, <1>8

(* What a step leaves on the way to the client: what was there, the first  *)
(* message gone, or one more.                                              *)
LEMMA NoticeStays ==
  ASSUME SessionInv, [Next]_vars, ~Connect, Live', NEW id \in Ids, Noticed(toClient[conn], id)
  PROVE  Noticed(toClient'[conn], id) \/ PutAside(drops', id)
<1> USE DEF SessionInv, SessionTypeOK
<1> DEFINE MC == Message({"ok", "rejected", "dropped"})
           b == toClient[conn]
           d == Req("dropped", id)
<1>0. toClient \in [Conns -> Seq(MC)] /\ drops \in Seq(Ids)
  BY DEF WireTypes, ClientTypes
<1>1. /\ conn' = conn /\ conn \in Conns /\ link'[conn] = "up" /\ link[conn] = "up"
  <2>1. conn' = conn /\ conn \in Conns
    BY ConnectionKept DEF Live, ClientTypes
  <2> QED
    BY <2>1, ConnectionKept DEF Live
<1>2. b \in Seq(MC) /\ \E j \in 1..Len(b) : b[j] = d
  BY <1>0, <1>1 DEF Noticed
<1>3. ASSUME NEW m \in MC, toClient'[conn] = Append(b, m)
      PROVE  Noticed(toClient'[conn], id)
  <2>1. b \in Seq(MC)
    BY <1>2
  <2> HIDE DEF b, d, MC
  <2>2. \A j \in 1..Len(b) : \E i \in 1..Len(Append(b, m)) : Append(b, m)[i] = b[j]
    BY ONLY <2>1, m \in MC, QueueMembers
  <2> QED
    BY <1>2, <1>3, <2>2 DEF Noticed, d
<1>4. ASSUME b # <<>>, toClient'[conn] = Tail(b), Head(b) # d
      PROVE  Noticed(toClient'[conn], id)
  <2> HIDE DEF b, d, MC
  <2>1. \A j \in 1..Len(b) : b[j] = Head(b) \/ \E i \in 1..Len(Tail(b)) : Tail(b)[i] = b[j]
    BY <1>2, <1>4, QueueMembers
  <2> QED
    BY <1>2, <1>4, <2>1 DEF Noticed, d
<1>5. CASE toClient'[conn] = b
  BY <1>5
<1>6. CASE AwaitDropped \/ LoopDropped
  <2>1. b # <<>> /\ toClient'[conn] = Tail(b) /\ drops' = Append(drops, Head(b).id)
    BY <1>0, <1>1, <1>6 DEF AwaitDropped, LoopDropped, Reading, NextMessage
  <2>2. CASE Head(b) = d
    <3>1. drops' = Append(drops, id)
      BY <2>1, <2>2 DEF Req
    <3>2. \E i \in 1..Len(Append(drops, id)) : Append(drops, id)[i] = id
      BY <1>0, QueueMembers
    <3> QED
      BY <3>1, <3>2 DEF PutAside
  <2> QED
    BY <1>4, <2>1, <2>2
<1>7. CASE VerdictOk \/ VerdictRejected
  <2>1. b # <<>> /\ toClient'[conn] = Tail(b) /\ Head(b).op # "dropped"
    BY <1>0, <1>1, <1>7 DEF VerdictOk, VerdictRejected, Reading, NextMessage
  <2>2. Head(b) # d
    BY <2>1 DEF Req
  <2> QED
    BY <1>4, <2>1, <2>2
<1>8. CASE ActivateFails \/ TakeShutdown \/ LosesConnection
  <2>1. RunEnds /\ cpc \notin {"connect", "dead"}
    BY <1>8 DEF ActivateFails, TakeShutdown, LosesConnection, RunFails
  <2> QED
    BY <1>1, <2>1, RunEndsDown
<1>9. ASSUME NEW n \in Conns, HandlerStep(n) \/ SessionEnds(n)
      PROVE  toClient'[conn] = b \/ \E m \in MC : toClient'[conn] = Append(b, m)
  <2>1. CASE BindRefused(n) \/ Bound(n)
    <3>1. PICK op \in {"ok", "rejected"}, then \in {"serve", "publish"} : Ack(n, op, then)
      BY <2>1 DEF BindRefused, Bound
    <3>2. Req(op, reg[n]) \in MC
      <4>1. reg[n] \in Ids
        BY <2>1 DEF BindRefused, Bound, Busy, ServerTypes
      <4> QED
        BY <4>1 DEF Req, Message
    <3>3. toClient'[conn] = b \/ toClient'[conn] = Append(b, Req(op, reg[n]))
      BY <1>0, <1>1, <3>1 DEF Ack, Tell
    <3> QED
      BY <3>2, <3>3
  <2>2. CASE ServeRegister(n) \/ ServeDeregister(n) \/ Publish(n) \/ SessionEnds(n)
    BY <2>2 DEF ServeRegister, ServeDeregister, Publish, SessionEnds
  <2> QED
    BY <1>9, <2>1, <2>2 DEF HandlerStep
<1>10. ASSUME NEW s \in Names, PoolDies(s)
       PROVE  toClient'[conn] = b \/ \E m \in MC : toClient'[conn] = Append(b, m)
  <2>1. Req("dropped", port[s].id) \in MC
    BY <1>10 DEF PoolDies, ServerTypes, Req, Message
  <2>2. toClient'[conn] = b \/ toClient'[conn] = Append(b, Req("dropped", port[s].id))
    BY <1>0, <1>1, <1>10 DEF PoolDies, Tell
  <2> QED
    BY <2>1, <2>2
<1>11. \/ toClient' = toClient \/ AwaitDropped \/ LoopDropped \/ VerdictOk \/ VerdictRejected
       \/ ActivateFails \/ TakeShutdown \/ LosesConnection
       \/ \E n \in Conns : HandlerStep(n) \/ SessionEnds(n)
       \/ \E s \in Names : PoolDies(s)
  BY DEF Next, Disturbance, ClientStep, Connect, Resume, Sweep, Activate, DrainRegister, DrainSkip,
     TakeRegister, TakeDeregister, HelloUnanswered, AddService, DeleteService, PoolStops,
     ServerStops, Cut, FallSilent, vars
<1> QED
  BY <1>3, <1>5, <1>6, <1>7, <1>8, <1>9, <1>10, <1>11

LEMMA AsideStays ==
  ASSUME SessionInv, [Next]_vars, NEW id \in Ids, PutAside(drops, id)
  PROVE  PutAside(drops', id) \/ ((DrainRegister \/ DrainSkip) /\ LastDrop = id)
<1> USE DEF SessionInv, SessionTypeOK
<1>0. drops \in Seq(Ids)
  BY DEF ClientTypes
<1>1. ASSUME NEW x \in Ids, drops' = Append(drops, x) PROVE PutAside(drops', id)
  <2>1. \A j \in 1..Len(drops) : \E i \in 1..Len(Append(drops, x)) : Append(drops, x)[i] = drops[j]
    BY <1>0, QueueMembers
  <2> QED
    BY <1>1, <2>1 DEF PutAside
<1>2. CASE AwaitDropped \/ LoopDropped
  <2>1. cpc \in {"await", "loop"} /\ toClient[conn] # <<>>
    BY <1>2 DEF AwaitDropped, LoopDropped, Reading
  <2>2. Head(toClient[conn]) \in Message({"ok", "rejected", "dropped"})
    BY <2>1, InUse, QueueFacts
  <2>3. Head(toClient[conn]).id \in Ids
    BY <2>2 DEF Message
  <2> QED
    BY <1>1, <1>2, <2>3 DEF AwaitDropped, LoopDropped, NextMessage
<1>3. CASE (DrainRegister \/ DrainSkip) /\ LastDrop # id
  <2>1. drops' = SubSeq(drops, 1, Len(drops) - 1) /\ drops # <<>>
    BY <1>3 DEF DrainRegister, DrainSkip, PopDrop, Busy
  <2>2. PICK j \in 1..Len(drops) : drops[j] = id
    BY DEF PutAside
  <2>3. j # Len(drops) /\ Len(drops) \in Nat
    BY <1>0, <1>3, <2>2 DEF LastDrop
  <2>4. j \in 1..(Len(drops) - 1)
    BY <2>3
  <2>5. /\ Len(SubSeq(drops, 1, Len(drops) - 1)) = Len(drops) - 1
        /\ SubSeq(drops, 1, Len(drops) - 1)[j] = drops[j]
    BY <1>0, <2>1, <2>3, <2>4
  <2> QED
    BY <2>1, <2>2, <2>4, <2>5 DEF PutAside
<1>4. drops' = drops \/ AwaitDropped \/ LoopDropped \/ DrainRegister \/ DrainSkip
  BY DEF Next, Disturbance, ClientStep, Connect, Resume, Sweep, VerdictOk, VerdictRejected,
     Activate, TakeRegister, TakeDeregister, TakeShutdown, LosesConnection, HelloUnanswered,
     ActivateFails, AddService, DeleteService, PoolStops, PoolDies, ServerStops, Cut, FallSilent,
     HandlerStep, ServeRegister, ServeDeregister, BindRefused, Bound, Publish, SessionEnds,
     clientVars, vars
<1> QED
  BY <1>2, <1>3, <1>4

(* What takes the backing from a service: a command about it, or the drain *)
(* that registers it again.                                                *)
Withdrawn(id) ==
  \/ (ServeRegister(conn) \/ ServeDeregister(conn)) /\ Head(toServer[conn]).id = id
  \/ (DrainRegister \/ DrainSkip) /\ LastDrop = id

LEMMA BackedStays ==
  ASSUME SessionInv, [Next]_vars, ~Connect, Live', NEW id \in Ids, Backed(id), ~Withdrawn(id)
  PROVE  Backed(id)'
<1>1. conn' = conn
  BY ConnectionKept
<1>2. CASE port[NameOf[id]] = Holder(conn, id)
  <2>1. port'[NameOf[id]] = Holder(conn, id) \/ Noticed(toClient'[conn], id)
    BY <1>2, HeldStays DEF Withdrawn
  <2> QED
    BY <1>1, <2>1 DEF Backed
<1>3. CASE Noticed(toClient[conn], id)
  <2>1. Noticed(toClient'[conn], id) \/ PutAside(drops', id)
    BY <1>3, NoticeStays
  <2> QED
    BY <1>1, <2>1 DEF Backed
<1>4. CASE PutAside(drops, id)
  <2>1. PutAside(drops', id)
    BY <1>4, AsideStays DEF Withdrawn
  <2> QED
    BY <2>1 DEF Backed
<1> QED
  BY <1>2, <1>3, <1>4 DEF Backed

(* The connection in use is in order, and a command its handler takes is   *)
(* the awaited registration, or about a service that is gone.              *)
LEMMA CommandTaken ==
  ASSUME VerdictInv, Idle, DeletedIsGone, Live, ServeRegister(conn) \/ ServeDeregister(conn)
  PROVE  /\ UNCHANGED <<cpc, cur, entry, toClient>>
         /\ \/ /\ cpc = "await" /\ Head(toServer[conn]).id = cur
               /\ NoneOf(toClient[conn], VerdictOps)
            \/ Gone(Head(toServer[conn]).id)
<1> USE DEF VerdictInv
<1> DEFINE a == toServer[conn]
           b == toClient[conn]
           p == spc[conn]
           r == reg[conn]
           MS == Message({"register", "deregister"})
<1>1. ~Away /\ InOrderOf(cpc, cur, a, b, p, r) /\ a \in Seq(MS)
  <2>1. ~Away
    BY DEF Idle, Live
  <2> QED
    BY <2>1, InUse DEF Asked, Away
<1>2. /\ a # <<>> /\ p # "bind" /\ UNCHANGED <<cpc, cur, entry, toClient>>
      /\ Head(a).op = "register" \/ Head(a).op = "deregister"
  BY DEF ServeRegister, ServeDeregister, ServerReads, clientVars
<1>3. CASE Head(a).op = "register"
  <2> HIDE DEF a, b, p, r, MS
  <2>1. cpc = "await" /\ Head(a).id = cur /\ InOrderOf(cpc, cur, Tail(a), b, "bind", Head(a).id)
    BY ONLY <1>1, <1>2, <1>3, ServedInOrder
  <2>2. NoneOf(b, VerdictOps)
    BY <2>1 DEF InOrderOf, Quiet, Pending
  <2> QED
    BY <1>2, <2>1, <2>2 DEF a, b
<1>4. CASE Head(a).op = "deregister"
  <2>1. 1 \in 1..Len(a) /\ Head(a) = a[1]
    BY <1>1, <1>2
  <2>2. Gone(a[1].id)
    BY <1>4, <2>1 DEF DeletedIsGone, Live
  <2> QED
    BY <1>2, <2>1, <2>2
<1> QED
  BY <1>2, <1>3, <1>4

(* A service that is active after a step was active before, or its         *)
(* registration has just come to its end.                                  *)
LEMMA ActiveBefore ==
  ASSUME SessionInv, Idle, [Next]_vars, ~Connect, Live', cpc' # "resume",
         NEW id \in Ids, entry'[id] = "active", cur' # id
  PROVE  \/ Activate /\ cur = id
         \/ entry[id] = "active" /\ cpc # "resume" /\ cur # id
<1> USE DEF SessionInv, SessionTypeOK
<1>0. /\ entry \in [Ids -> {"absent", "registering", "active", "rejected"}] /\ 0 \notin Ids
      /\ cur \in Ids \cup {0}
  BY SessionAssumption DEF ClientTypes
<1>1. CASE UNCHANGED <<entry, cur, cpc>>
  BY <1>1
<1>2. CASE Resume
  BY <1>2 DEF Resume, Reregistering
<1>3. CASE Sweep \/ AwaitDropped \/ VerdictOk \/ DrainSkip \/ LoopDropped
  <2>1. entry' = entry /\ cpc # "resume" /\ (cur' = cur \/ cpc = "sweep")
    BY <1>3 DEF Sweep, AwaitDropped, VerdictOk, DrainSkip, LoopDropped, Reading
  <2>2. cpc = "sweep" => cur = 0
    BY DEF Idle
  <2> QED
    BY <1>0, <2>1, <2>2
<1>4. CASE VerdictRejected \/ Activate
  <2>1. cpc # "resume" /\ \E x : entry' = [entry EXCEPT ![cur] = x] /\ (x = "rejected" \/ Activate)
    BY <1>4 DEF VerdictRejected, Activate, Reading
  <2> QED
    BY <1>0, <2>1
<1>5. CASE DrainRegister \/ TakeRegister \/ TakeDeregister
  <2>1. /\ cpc \in {"drain", "loop"}
        /\ \/ entry' = [entry EXCEPT ![LastDrop] = "registering"]
           \/ entry' = [entry EXCEPT ![Head(requests).id] = "registering"]
           \/ entry' = [entry EXCEPT ![Head(requests).id] = "absent"]
    BY <1>5 DEF DrainRegister, TakeRegister, TakeDeregister
  <2>2. cur = 0
    BY <2>1 DEF Idle
  <2>3. entry[id] = "active"
    BY <1>0, <2>1
  <2> QED
    BY <1>0, <2>1, <2>2, <2>3
<1>6. CASE ActivateFails \/ TakeShutdown \/ LosesConnection
  <2>1. RunEnds /\ cpc \notin {"connect", "dead"} /\ conn' = conn
    BY <1>6 DEF ActivateFails, TakeShutdown, LosesConnection, RunFails
  <2> QED
    BY <2>1, RunEndsDown DEF Live
<1>7. CASE HelloUnanswered
  <2>1. cpc = "connect" /\ UNCHANGED <<entry, cur>>
    BY <1>7 DEF HelloUnanswered
  <2> QED
    BY <2>1
<1>8. \/ UNCHANGED <<entry, cur, cpc>> \/ ClientStep
      \/ ActivateFails \/ TakeShutdown \/ LosesConnection \/ HelloUnanswered
  BY DEF Next, Disturbance, AddService, DeleteService, PoolStops, PoolDies, ServerStops, Cut,
     FallSilent, HandlerStep, ServeRegister, ServeDeregister, BindRefused, Bound, Publish,
     SessionEnds, clientVars, vars
<1> QED
  BY <1>1, <1>2, <1>3, <1>4, <1>5, <1>6, <1>7, <1>8 DEF ClientStep

(* A registration that has been accepted was so before the step, or the    *)
(* handler has just bound its endpoint.                                    *)
LEMMA AwardedBefore ==
  ASSUME VerdictInv, Idle, [Next]_vars, ~Connect, Live', Awarded(cpc', toClient'[conn])
  PROVE  cur' = cur /\ (Bound(conn) \/ (Awarded(cpc, toClient[conn]) /\ (cpc' = "await" => cpc = "await")))
<1> USE DEF VerdictInv, SessionInv, SessionTypeOK
<1> DEFINE MC == Message({"ok", "rejected", "dropped"})
           b == toClient[conn]
<1>0. toClient \in [Conns -> Seq(MC)] /\ conn' = conn /\ conn \in Conns /\ b \in Seq(MC)
  <2>1. conn' = conn /\ conn \in Conns /\ toClient \in [Conns -> Seq(MC)]
    BY ConnectionKept DEF Live, ClientTypes, WireTypes
  <2> QED
    BY <2>1
<1>1. ~Away
  <2>1. Live
    BY <1>0, ConnectionKept DEF Live
  <2> QED
    BY <2>1 DEF Idle, Live
<1>2. cpc # "await" => NoneOf(b, VerdictOps)
  BY <1>1 DEF Asked, InOrderOf, Quiet
<1>3. ASSUME NEW m \in MC, m.op # "ok", Accepted(Append(b, m)) PROVE Accepted(b)
  <2>1. b \in Seq(MC)
    BY <1>0
  <2> HIDE DEF b, MC
  <2>2. \A i \in 1..Len(Append(b, m)) :
          Append(b, m)[i] = m \/ \E j \in 1..Len(b) : Append(b, m)[i] = b[j]
    BY ONLY <2>1, m \in MC, QueueMembers
  <2> QED
    BY <1>3, <2>2 DEF Accepted
<1>4. CASE UNCHANGED <<cpc, cur, toClient>>
  BY <1>4
<1>5. CASE Resume \/ VerdictRejected \/ Activate \/ DrainSkip \/ LoopDropped
  BY <1>5 DEF Resume, VerdictRejected, Activate, DrainSkip, LoopDropped, Onward, Awarded
<1>6. CASE Sweep \/ DrainRegister \/ TakeRegister
  <2>1. cpc \in {"sweep", "drain", "loop"} /\ cpc' = "await" /\ toClient' = toClient
    BY <1>6 DEF Sweep, DrainRegister, TakeRegister, Register
  <2> QED
    BY <1>2, <2>1 DEF Awarded, Accepted, NoneOf, VerdictOps
<1>7. CASE AwaitDropped
  <2>1. cpc = "await" /\ cpc' = cpc /\ cur' = cur /\ b # <<>> /\ toClient'[conn] = Tail(b)
    BY <1>0, <1>7 DEF AwaitDropped, Reading
  <2>2. \A i \in 1..Len(Tail(b)) : \E j \in 1..Len(b) : Tail(b)[i] = b[j]
    <3> HIDE DEF b, MC
    <3> QED
      BY ONLY <1>0, <2>1, QueueMembers
  <2> QED
    BY <2>1, <2>2 DEF Awarded, Accepted
<1>8. CASE VerdictOk
  <2>1. cpc = "await" /\ cpc' = "activate" /\ cur' = cur /\ b # <<>> /\ Head(b).op = "ok"
    BY <1>8 DEF VerdictOk, Reading, NextMessage
  <2>2. 1 \in 1..Len(b) /\ b[1] = Head(b)
    BY <1>0, <2>1
  <2> QED
    BY <2>1, <2>2 DEF Awarded, Accepted
<1>9. CASE TakeDeregister
  BY <1>9 DEF TakeDeregister
<1>10. CASE ActivateFails \/ TakeShutdown \/ LosesConnection \/ HelloUnanswered
  BY <1>10 DEF ActivateFails, TakeShutdown, LosesConnection, HelloUnanswered, RunFails, Awarded
<1>11. ASSUME NEW n \in Conns, BindRefused(n) \/ Bound(n), ~Bound(conn)
       PROVE  cur' = cur /\ cpc' = cpc /\ Awarded(cpc, toClient[conn])
  <2>1. cur' = cur /\ cpc' = cpc /\ reg[n] \in Ids
    BY <1>11 DEF BindRefused, Bound, clientVars, Busy, ServerTypes
  <2>2. toClient'[conn] = b \/ toClient'[conn] = Append(b, Req("rejected", reg[n]))
    <3>1. CASE n # conn
      BY <1>0, <1>11, <3>1 DEF BindRefused, Bound, Ack, Tell
    <3>2. CASE n = conn
      BY <1>0, <1>11, <3>2 DEF BindRefused, Ack, Tell
    <3> QED
      BY <3>1, <3>2
  <2>3. Req("rejected", reg[n]) \in MC /\ Req("rejected", reg[n]).op # "ok"
    BY <2>1 DEF Req, Message
  <2> QED
    BY <1>3, <2>1, <2>2, <2>3 DEF Awarded
<1>12. ASSUME NEW s \in Names, PoolDies(s)
       PROVE  cur' = cur /\ cpc' = cpc /\ Awarded(cpc, toClient[conn])
  <2>1. cur' = cur /\ cpc' = cpc /\ port[s].id \in Ids
    BY <1>12 DEF PoolDies, clientVars, ServerTypes
  <2>2. toClient'[conn] = b \/ toClient'[conn] = Append(b, Req("dropped", port[s].id))
    BY <1>0, <1>12 DEF PoolDies, Tell
  <2>3. Req("dropped", port[s].id) \in MC /\ Req("dropped", port[s].id).op # "ok"
    BY <2>1 DEF Req, Message
  <2> QED
    BY <1>3, <2>1, <2>2, <2>3 DEF Awarded
<1>13. \/ UNCHANGED <<cpc, cur, toClient>> \/ ClientStep
       \/ ActivateFails \/ TakeShutdown \/ LosesConnection \/ HelloUnanswered
       \/ \E n \in Conns : BindRefused(n) \/ Bound(n)
       \/ \E s \in Names : PoolDies(s)
  BY DEF Next, Disturbance, AddService, DeleteService, PoolStops, ServerStops, Cut,
     FallSilent, HandlerStep, ServeRegister, ServeDeregister, Publish, SessionEnds, clientVars,
     vars
<1>14. CASE Bound(conn)
  BY <1>14 DEF Bound, clientVars
<1> QED
  BY <1>4, <1>5, <1>6, <1>7, <1>8, <1>9, <1>10, <1>11, <1>12, <1>13, <1>14 DEF ClientStep

LEMMA StepKeepsBacking ==
  ASSUME BackedInv, [Next]_vars PROVE Backing'
<1> USE DEF BackedInv
<1>a. VerdictInv /\ SessionInv /\ Idle /\ DeletedIsGone
  BY DEF VerdictInv
<1>1. CASE Connect
  <2>1. cpc' = "resume"
    BY <1>1 DEF Connect
  <2> QED
    BY <2>1 DEF Backing, Awarded
<1>2. CASE ~Connect
  <2>1. SUFFICES ASSUME Live'
                 PROVE  /\ cpc' # "resume" =>
                             \A id \in Ids : entry'[id] = "active" /\ cur' # id => Backed(id)'
                        /\ Awarded(cpc', toClient'[conn]) => cur' \in Ids /\ Backed(cur)'
    <3>1. conn' = conn
      BY <1>a, <1>2, ConnectionKept
    <3> QED
      BY <3>1 DEF Backing
  <2>2. conn' = conn /\ conn \in Conns /\ Live
    <3>1. conn' = conn /\ conn \in Conns
      BY <1>a, <1>2, <2>1, ConnectionKept DEF Live, SessionInv, SessionTypeOK, ClientTypes
    <3> QED
      BY <1>a, <1>2, <2>1, <3>1, ConnectionKept DEF Live
  <2>3. ASSUME cpc' # "resume", NEW id \in Ids, entry'[id] = "active", cur' # id
        PROVE  Backed(id)'
    <3>1. CASE Activate /\ cur = id
      <4>1. cpc = "activate" /\ cpc' # "activate"
        BY <3>1 DEF Activate, Onward
      <4>2. Backed(id)
        BY <2>2, <3>1, <4>1 DEF Backing, Awarded
      <4>3. ~Withdrawn(id)
        BY <4>1 DEF Withdrawn, ServeRegister, ServeDeregister, clientVars, DrainRegister, DrainSkip
      <4> QED
        BY <1>a, <1>2, <2>1, <4>2, <4>3, BackedStays
    <3>2. CASE entry[id] = "active" /\ cpc # "resume" /\ cur # id
      <4>1. Backed(id)
        BY <2>2, <3>2 DEF Backing
      <4>2. ASSUME ServeRegister(conn) \/ ServeDeregister(conn), Head(toServer[conn]).id = id
            PROVE  FALSE
        BY <1>a, <2>2, <2>3, <3>2, <4>2, CommandTaken DEF Gone
      <4>3. ASSUME DrainRegister \/ DrainSkip, LastDrop = id PROVE FALSE
        <5>1. entry'[id] = "registering" \/ entry[id] \in {"absent", "rejected"}
          BY <1>a, <4>3 DEF DrainRegister, DrainSkip, SessionInv, SessionTypeOK, ClientTypes
        <5> QED
          BY <2>3, <3>2, <5>1
      <4> QED
        BY <1>a, <1>2, <2>1, <4>1, <4>2, <4>3, BackedStays DEF Withdrawn
    <3> QED
      BY <1>a, <1>2, <2>1, <2>3, <3>1, <3>2, ActiveBefore
  <2>4. ASSUME Awarded(cpc', toClient'[conn]) PROVE cur' \in Ids /\ Backed(cur)'
    <3>1. cur' = cur
      BY <1>a, <1>2, <2>1, <2>4, AwardedBefore
    <3>2. CASE Bound(conn)
      <4>1. /\ conn \in registered /\ reg[conn] \in Ids /\ spc[conn] = "bind"
            /\ port' = [port EXCEPT ![NameOf[reg[conn]]] = Holder(conn, reg[conn])]
        BY <1>a, <2>2, <3>2 DEF Bound, Live, SessionInv, SessionTypeOK, ServerTypes, Busy
      <4>2. port'[NameOf[reg[conn]]] = Holder(conn, reg[conn])
        BY <1>a, <4>1, SessionAssumption DEF SessionInv, SessionTypeOK, ServerTypes
      <4>3. reg[conn] = cur
        <5>1. ~Away
          BY <1>a, <2>2 DEF Idle, Live
        <5> QED
          BY <1>a, <4>1, <5>1 DEF VerdictInv, Asked, InOrderOf, Quiet, Pending
      <4> QED
        BY <2>2, <3>1, <4>1, <4>2, <4>3 DEF Backed
    <3>3. CASE ~Bound(conn)
      <4>1. Awarded(cpc, toClient[conn])
        BY <1>a, <1>2, <2>1, <2>4, <3>3, AwardedBefore
      <4>2. cur \in Ids /\ Backed(cur)
        BY <2>2, <4>1 DEF Backing
      <4>3. ASSUME ServeRegister(conn) \/ ServeDeregister(conn), Head(toServer[conn]).id = cur
            PROVE  FALSE
        <5>1. cpc = "await" /\ NoneOf(toClient[conn], VerdictOps)
          BY <1>a, <2>2, <4>3, CommandTaken DEF Gone
        <5> QED
          BY <4>1, <5>1 DEF Awarded, Accepted, NoneOf, VerdictOps
      <4>4. ~(DrainRegister \/ DrainSkip)
        BY <4>1 DEF DrainRegister, DrainSkip, Awarded
      <4>5. PICK x \in Ids : x = cur
        BY <4>2
      <4>6. Backed(x) /\ ~Withdrawn(x)
        BY <4>2, <4>3, <4>4, <4>5 DEF Withdrawn
      <4>7. Backed(x)'
        BY <1>a, <1>2, <2>1, <4>6, BackedStays
      <4> QED
        BY <3>1, <4>2, <4>5, <4>7 DEF Backed
    <3> QED
      BY <3>2, <3>3
  <2> QED
    BY <2>3, <2>4
<1> QED
  BY <1>1, <1>2

LEMMA BackedInit == Init => BackedInv
<1> SUFFICES ASSUME Init PROVE BackedInv
  OBVIOUS
<1>1. VerdictInv
  BY VerdictInit
<1>2. Idle /\ DeletedIsGone /\ Backing
  BY DEF Init, Idle, Away, DeletedIsGone, Backing, Live
<1>3. ASSUME NEW s \in Names PROVE NameOf[loc[s]] = s /\ loc[s] \notin fresh
  <2> DEFINE S == {id \in Ids : NameOf[id] = s}
             x == Least(S)
  <2>1. S \subseteq Ids /\ S # {}
    BY SessionAssumption
  <2>2. x \in S /\ \A j \in S : x <= j
    <3> HIDE DEF S
    <3> QED
      BY <2>1, LeastIsMember
  <2>3. loc[s] = x /\ fresh = Ids \ FirstIds
    BY DEF Init
  <2> HIDE DEF x
  <2>4. x \in Ids /\ NameOf[x] = s /\ \A j \in Ids : NameOf[j] = s => x <= j
    BY <2>2
  <2>5. x \in FirstIds
    BY <2>4 DEF FirstIds
  <2> QED
    BY <2>3, <2>4, <2>5
<1>4. ASSUME NEW i \in 1..Len(requests)
      PROVE  requests[i].id \notin fresh /\ requests[i].op = "register"
  <2> DEFINE k == Cardinality(FirstIds)
  <2>1. requests \in [1..k -> {Req("register", id) : id \in FirstIds}] /\ fresh = Ids \ FirstIds
    BY DEF Init
  <2>2. k \in Nat
    BY SessionAssumption, FS_Subset, FS_CardinalityType DEF FirstIds
  <2> HIDE DEF k
  <2>3. Len(requests) = k
    <3>1. requests \in Seq(Message({"register", "deregister"})) /\ DOMAIN requests = 1..k
      BY <1>1, <2>1 DEF VerdictInv, SessionInv, SessionTypeOK, ConfigTypes
    <3> QED
      BY <2>2, <3>1
  <2>4. requests[i] \in {Req("register", id) : id \in FirstIds}
    BY <2>1, <2>3
  <2> QED
    BY <2>1, <2>4 DEF Req
<1>5. GivenOnce
  BY <1>3, <1>4 DEF GivenOnce
<1> QED
  BY <1>1, <1>2, <1>5 DEF BackedInv

(* For any services, ids and faults: while the connection works, a service *)
(* the client calls active is held by this session on the server, or the   *)
(* notice that it is not is on its way or put aside to be acted on.        *)
THEOREM ActiveServicesAreBacked == Spec => []ActiveIsBacked
<1>1. BackedInv /\ [Next]_vars => BackedInv'
  <2> SUFFICES ASSUME BackedInv, [Next]_vars PROVE BackedInv'
    OBVIOUS
  <2>1. VerdictInv' /\ SessionInv
    BY StepKeepsVerdicts DEF BackedInv, VerdictInv
  <2>2. Idle' /\ GivenOnce'
    BY <2>1, StepKeepsIdle, StepKeepsGiven DEF BackedInv
  <2>3. DeletedIsGone'
    BY <2>1, StepKeepsDeleted DEF BackedInv, VerdictInv
  <2>4. Backing'
    BY StepKeepsBacking
  <2> QED
    BY <2>1, <2>2, <2>3, <2>4 DEF BackedInv
<1>2. BackedInv => ActiveIsBacked
  <2> SUFFICES ASSUME BackedInv, NEW id \in Ids,
                      conn # 0, entry[id] = "active", link[conn] = "up", conn \in registered,
                      cpc # "resume", cur # id
               PROVE  \/ port[NameOf[id]] = Holder(conn, id)
                      \/ \E i \in DOMAIN toClient[conn] : toClient[conn][i] = Req("dropped", id)
                      \/ \E i \in DOMAIN drops : drops[i] = id
    BY DEF ActiveIsBacked
  <2>1. Backed(id)
    BY DEF BackedInv, Backing, Live
  <2>2. DOMAIN drops = 1..Len(drops) /\ DOMAIN toClient[conn] = 1..Len(toClient[conn])
    <3>1. drops \in Seq(Ids) /\ toClient[conn] \in Seq(Message({"ok", "rejected", "dropped"}))
      BY DEF BackedInv, VerdictInv, SessionInv, SessionTypeOK, ClientTypes, WireTypes
    <3> QED
      BY <3>1
  <2> QED
    BY <2>1, <2>2 DEF Backed, Noticed, PutAside
<1> QED
  BY BackedInit, <1>1, <1>2, PTL DEF Spec

=============================================================================
