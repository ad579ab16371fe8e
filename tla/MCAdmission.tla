----------------------------- MODULE MCAdmission -----------------------------
(***************************************************************************)
(* Instance of Admission for TLC: every handler names the same volume, so   *)
(* they compete for its lock as well as for the tokens of the gate.         *)
(***************************************************************************)
EXTENDS Admission
=============================================================================
