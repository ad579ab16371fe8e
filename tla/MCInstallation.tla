---------------------------- MODULE MCInstallation ----------------------------
(***************************************************************************)
(* Instances of Installation for TLC: every Pod has an Instance of its own. *)
(***************************************************************************)
EXTENDS Installation, TLC

MCHostOf == [p \in Pods |-> p]
MCSymmetry == Permutations(Pods) \cup Permutations(Parents)
=============================================================================
