----------------------------- MODULE MCStreams -----------------------------
(***************************************************************************)
(* The ends of a connection, for TLC: a striped direction, an encrypted    *)
(* stream, the windows of a multiplexer's streams, the bytes and timers of *)
(* the control session, and the configuration both ends follow.  A         *)
(* behaviour runs one of the five and leaves the others in an initial      *)
(* state.                                                                  *)
(***************************************************************************)
EXTENDS StripeDirection, NoiseStream, SessionWire, MuxFlowControl, MCReload

VARIABLE part
MCInit ==
  /\ part \in {"stripe", "noise", "wire", "window", "reload"}
  /\ Init /\ NoiseInit /\ WireInit /\ FInit /\ ReloadInit
  /\ part # "noise" => first = "snd" /\ keys
  /\ part # "wire" => token
  /\ part # "reload" => file = "base"
MCNext ==
  \/ part = "stripe" /\ Next /\ UNCHANGED <<part, noiseVars, wireVars, fvars, reloadVars>>
  \/ part = "noise" /\ NoiseNext /\ UNCHANGED <<part, vars, wireVars, fvars, reloadVars>>
  \/ part = "wire" /\ WireNext /\ UNCHANGED <<part, vars, noiseVars, fvars, reloadVars>>
  \/ part = "window" /\ FNext /\ UNCHANGED <<part, vars, noiseVars, wireVars, reloadVars>>
  \/ part = "reload" /\ ReloadNext /\ UNCHANGED <<part, vars, noiseVars, wireVars, fvars>>
MCLive ==
  /\ MCInit /\ [][MCNext]_<<part, vars, noiseVars, wireVars, fvars, reloadVars>>
  /\ WF_vars(part = "stripe" /\ (Sender \/ Receiver))
  /\ WF_noiseVars(part = "noise" /\ NoiseReads) /\ WF_noiseVars(part = "noise" /\ NoisePushes)
  /\ \A k \in WireTasks : WF_wireVars(part = "wire" /\ WireTask(k))
  /\ WF_reloadVars(part = "reload" /\ TaskStep)
=============================================================================
