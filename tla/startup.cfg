CONSTANTS
  Pods = {p1}
  Hosts = {p1}
  Parents = {f1, f2}
  HostOf <- MCHostOf
  None = None
  Foreign = Foreign
  RenewDeadline = 2
  LeaseDuration = 3
  MaxIds = 7
  MaxLeases = 1
  MaxApprovals = 0
  MaxFaults = 2
SPECIFICATION IFairSpec
PROPERTIES InstallationCompletes
CHECK_DEADLOCK FALSE
