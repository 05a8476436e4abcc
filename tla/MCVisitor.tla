----------------------------- MODULE MCVisitor -----------------------------
(***************************************************************************)
(* What serves a visitor's connection, for TLC: the pairing on the server, *)
(* the client's pool of tunnels, and the multiplexer inside a tunnel.  A   *)
(* behaviour runs one of the components named in Parts and leaves the      *)
(* others in their initial states.                                         *)
(***************************************************************************)
EXTENDS MuxConnection, TunnelPool, VisitorPairing, TLC

CONSTANT Parts
VARIABLE part
MCClientOnly == [p \in Sides |-> IF p = "client" THEN 2 ELSE 0]
MCOne == [v \in Visitors |-> CHOOSE s \in Services : TRUE]
Alike == Permutations(Visitors)

MCInit == part \in Parts /\ Init /\ PoolInit /\ PairInit
MCNext ==
  \/ part = "mux" /\ Next /\ UNCHANGED <<part, poolVars, pairVars>>
  \/ part = "pool" /\ PoolNext /\ UNCHANGED <<part, vars, pairVars>>
  \/ part = "pairing" /\ PairNext /\ UNCHANGED <<part, vars, poolVars>>
MCSpec == MCInit /\ [][MCNext]_<<part, vars, poolVars, pairVars>>
MCLive ==
  /\ MCSpec
  /\ \A k \in MuxTasks : WF_vars(part = "mux" /\ MuxTask(k))
  /\ \A p \in Sides : SF_vars(part = "mux" /\ Scans(p))
  /\ \A k \in PoolTasks : WF_poolVars(part = "pool" /\ PoolTask(k))
  /\ SF_poolVars(part = "pool" /\ DialOk)
  /\ WF_pairVars(part = "pairing" /\ PairTask)
=============================================================================
