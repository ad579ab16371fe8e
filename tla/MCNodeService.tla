---------------------------- MODULE MCNodeService -----------------------------
(* Calls on two volumes, one of them for a single writer, and two targets.  *)
EXTENDS NodeService, TLC

CONSTANTS v1, v2, t1, t2

MCTargetsOf == [v \in Volumes |-> IF v = v1 THEN Targets ELSE {t1}]
MCSymmetry == Permutations(Calls)
=============================================================================
