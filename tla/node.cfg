CONSTANTS
  v1 = v1
  v2 = v2
  t1 = t1
  t2 = t2
  Calls = {c1, c2}
  Admin = Admin
  Volumes = {v1, v2}
  SingleWriter = {v1}
  Targets = {t1, t2}
  TargetsOf <- MCTargetsOf
  Root = Root
  Foreign = Foreign
  Disturbed = {v1, t1}
  None = None
  MaxIds = 4
  MaxFaults = 1
SPECIFICATION Spec
SYMMETRY MCSymmetry
INVARIANTS NodeSafety EvidenceHolds
PROPERTIES StageOutlivesPublish ForeignKept
