CONSTANTS
    n1 = n1
    n2 = n2
    p1 = p1
    p2 = p2
    v1 = v1
    v2 = v2
    r1 = r1
    r2 = r2
    c1 = c1
    c2 = c2
    Clis = {c1, c2}
    RequestOf <- MCRequestOf
    Requests = {r1, r2}
    Decommissions = {r2}
    ParentsOf <- MCParentsOf
    Parents = {p1, p2}
    Draining = {p2}
    Volumes = {v1, v2}
    ParentOf <- MCParentOf
    Nodes = {n1, n2}
    Host = n1
    Ctl = Ctl
    None = None
    Ready = Ready
    Held = Held
    Other = Other
    Faults = {"interrupt", "controller", "node", "provider"}
    MaxFaults = 1
SPECIFICATION Spec
INVARIANTS UninstallSafety
PROPERTIES DetachedUnmounted OnlyRequestedDetached
