--------------------------- MODULE MCTransparent ---------------------------
(***************************************************************************)
(* What is decided about carriers and lanes, for TLC: the carrier rule and *)
(* its probe, one claim's lanes at both ends, and the client's lending of  *)
(* lanes between claims: shares of one and two lanes, and up to two flows  *)
(* of each claim.  A behaviour runs one of the three components and leaves *)
(* the others in their initial states.                                     *)
(***************************************************************************)
EXTENDS CarrierRule, LaneSet, LaneLending

VARIABLE part
MCShareOf == [c \in Claims |-> c]
MCFlowsOf == [c \in Claims |-> 2]

MCInit == part \in {"carrier", "lanes", "lending"} /\ CarrierInit /\ LaneInit /\ LendInit
MCNext ==
  \/ part = "carrier" /\ CarrierNext /\ UNCHANGED <<part, laneVars, lendVars>>
  \/ part = "lanes" /\ LaneNext /\ UNCHANGED <<part, carrierVars, lendVars>>
  \/ part = "lending" /\ LendNext /\ UNCHANGED <<part, carrierVars, laneVars>>
MCLive ==
  /\ MCInit /\ [][MCNext]_<<part, carrierVars, laneVars, lendVars>>
  /\ \A k \in CarrierTasks : WF_carrierVars(part = "carrier" /\ CarrierTask(k))
  /\ SF_carrierVars(part = "carrier" /\ Maintenance)
  /\ SF_carrierVars(part = "carrier" /\ RuleSamples)
  /\ WF_laneVars(part = "lanes" /\ LaneTask)
  /\ WF_lendVars(part = "lending" /\ LendTask)
=============================================================================
