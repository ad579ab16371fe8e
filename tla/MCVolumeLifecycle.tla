-------------------------- MODULE MCVolumeLifecycle --------------------------
(* Small instances of VolumeLifecycle for TLC. *)
EXTENDS VolumeInvariant, TLC

Symmetry == Permutations(IDs) \cup Permutations(Nodes)
==============================================================================
