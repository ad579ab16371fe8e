---------------------------- MODULE VolumeContract ----------------------------
(***************************************************************************)
(* What the driver promises of one logical volume, whatever crashes: the   *)
(* volume lives once, nodes use it only while it is live, its tree is      *)
(* taken apart only after the last of them has left, and the volume is     *)
(* gone only when nothing of the tree remains.                             *)
(***************************************************************************)
CONSTANT Nodes

VARIABLES
  stage,   \* absent, creating, live, retired (being deleted), kept or gone
  tree,    \* the directory tree: none, whole or partial
  users    \* the nodes that have it mounted

vars == <<stage, tree, users>>

Stages == {"absent", "creating", "live", "retired", "kept", "gone"}

Init == stage = "absent" /\ tree = "none" /\ users = {}

Advance(from, to) ==
  stage \in from /\ stage' = to /\ UNCHANGED <<tree, users>>

Reserve == Advance({"absent"}, "creating")
Serve   == tree = "whole" /\ Advance({"creating"}, "live")
Retire  == users = {} /\ Advance({"live"}, "retired")
Keep    == tree = "whole" /\ Advance({"retired"}, "kept")
Finish  == tree = "none" /\ Advance({"absent", "retired", "kept"}, "gone")

MakeTree ==
  /\ stage = "creating" /\ tree = "none"
  /\ tree' = "whole"
  /\ UNCHANGED <<stage, users>>

RemovePart ==
  /\ stage \in {"retired", "kept"} /\ tree = "whole"
  /\ tree' = "partial"
  /\ UNCHANGED <<stage, users>>

RemoveRest ==
  /\ stage \in {"retired", "kept"} /\ tree = "partial"
  /\ tree' = "none"
  /\ UNCHANGED <<stage, users>>

Mount(n) ==
  /\ stage = "live"
  /\ users' = users \cup {n}
  /\ UNCHANGED <<stage, tree>>

Leave(n) ==
  /\ users' = users \ {n}
  /\ UNCHANGED <<stage, tree>>

Next ==
  \/ Reserve \/ Serve \/ Retire \/ Keep \/ Finish
  \/ MakeTree \/ RemovePart \/ RemoveRest
  \/ \E n \in Nodes : Mount(n) \/ Leave(n)

Spec == Init /\ [][Next]_vars
=============================================================================
