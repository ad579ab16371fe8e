---------------------------- MODULE MCUninstall ----------------------------
(***************************************************************************)
(* An installation with two nodes, two parents of which one is draining,   *)
(* and a volume on each; one process uninstalls the release while another  *)
(* decommissions the draining parent.                                      *)
(***************************************************************************)
EXTENDS Uninstall, TLC

CONSTANTS n1, n2, p1, p2, v1, v2, r1, r2, c1, c2

MCRequestOf == [c \in Clis |-> IF c = c1 THEN r1 ELSE r2]
MCParentsOf == [r \in Requests |-> IF r = r1 THEN Parents ELSE {p2}]
MCParentOf == [v \in Volumes |-> IF v = v1 THEN p1 ELSE p2]
=============================================================================
