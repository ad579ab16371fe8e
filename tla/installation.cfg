CONSTANTS
  Pods = {p1, p2}
  Hosts = {p1, p2}
  Parents = {f1}
  HostOf <- MCHostOf
  None = None
  Foreign = Foreign
  RenewDeadline = 2
  LeaseDuration = 3
  MaxIds = 4
  MaxLeases = 2
  MaxApprovals = 1
  MaxFaults = 2
SPECIFICATION ISpec
SYMMETRY MCSymmetry
INVARIANTS ReadyIsDurable InstallationSafety AttachmentsExplained
PROPERTIES ClaimsImmutable
CHECK_DEADLOCK FALSE
