SPECIFICATION Spec
CONSTANTS
  Nodes = {n1, n2}
  NoNode = none
  IDs = {i1}
  NoID = noid
  Policies = {"delete"}
  SingleWriter = FALSE
  MaxRev = 5
  MaxFaults = 1
SYMMETRY Symmetry
INVARIANTS FenceSafety MountedDataStable PublishedStaysAuthorised
