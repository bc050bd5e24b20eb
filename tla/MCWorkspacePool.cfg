CONSTANTS
    Threads = {t1, t2}
    Keys = {k1, k2}
    Workspaces = {w1, w2, w3}
    Leases = {l1, l2, l3}
    NoKey = NoKey
    NoWorkspace = NoWorkspace
    NoLease = NoLease
SPECIFICATION Spec
INVARIANTS
    ExclusiveLeases
    Accounted
    AllocationsArePeakUse
