--------------------------- MODULE MCCommandPhase ---------------------------
(* Instances of CommandPhase for TLC.                                       *)
EXTENDS CommandPhase

(* One descriptor: every connection reuses its predecessor's.               *)
MCFds == {54}
=============================================================================
