----------------------------- MODULE MCCarriers -----------------------------
(***************************************************************************)
(* What carries a tunnel's bytes, for TLC: the multiplexer, a KCP session, *)
(* and the listener that routes datagrams to KCP sessions.  A behaviour    *)
(* runs one of the components named in Parts and leaves the others in      *)
(* their initial states.                                                   *)
(***************************************************************************)
EXTENDS MuxConnection, KcpSession, KcpListener

CONSTANT Parts
VARIABLE part
MCShort == [p \in Sides |-> 1]

MCInit == part \in Parts /\ Init /\ KcpInit /\ ListenerInit
MCNext ==
  \/ part = "mux" /\ Next /\ UNCHANGED <<part, kcpVars, listenerVars>>
  \/ part = "kcp" /\ KcpNext /\ UNCHANGED <<part, vars, listenerVars>>
  \/ part = "listener" /\ ListenerNext /\ UNCHANGED <<part, vars, kcpVars>>
MCSpec == MCInit /\ [][MCNext]_<<part, vars, kcpVars, listenerVars>>
\* For runs without the multiplexer, whose liveness MCVisitor checks.
MCLive ==
  /\ MCSpec
  /\ \A k \in KcpTasks : WF_kcpVars(part = "kcp" /\ KcpTask(k))
  /\ \A k \in KcpArrivals : SF_kcpVars(part = "kcp" /\ KcpArrival(k))
  /\ WF_listenerVars(part = "listener" /\ ListenerTask)
=============================================================================
