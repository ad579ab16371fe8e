SPECIFICATION Spec
CONSTANTS
  Nodes = {n1}
  NoNode = none
  IDs = {i1, i2}
  NoID = noid
  Policies = {"archive", "retain", "delete"}
  SingleWriter = FALSE
  MaxRev = 4
  MaxFaults = 1
SYMMETRY Symmetry
INVARIANTS LifecycleSafety CrashesAreRecoverable
PROPERTIES NeverBackward ImplementsContract
