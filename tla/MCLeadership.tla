----------------------------- MODULE MCLeadership -----------------------------
(***************************************************************************)
(* Instances of Leadership for TLC: every Pod has an Instance of its own.   *)
(***************************************************************************)
EXTENDS Leadership, TLC

MCHostOf == [p \in Pods |-> p]
MCSymmetry == Permutations(Pods)
=============================================================================
