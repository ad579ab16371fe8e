CONSTANTS
  Volumes = {v1, v2}
  Existing = {v1}
  Requests = {r1, r2}
  None = None
  Idle = Idle
  MaxOps = 2
  MaxFaults = 2
SPECIFICATION FairSpec
INVARIANTS NothingForgotten RestoreIsExact
PROPERTIES QuiescedIsFrozen BarrierIsLifted RestoreCompletes
CHECK_DEADLOCK FALSE
