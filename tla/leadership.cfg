CONSTANTS
  Pods = {p1, p2}
  Hosts = {p1, p2}
  Parents = {f1}
  HostOf <- MCHostOf
  None = None
  RenewDeadline = 2
  LeaseDuration = 3
  MaxIds = 1
  MaxLeases = 2
  MaxApprovals = 1
  MaxFaults = 1
SPECIFICATION Spec
SYMMETRY MCSymmetry
INVARIANTS LeaderIsExclusive LeaseCoversLeader NoStuckLease
