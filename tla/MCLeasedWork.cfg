CONSTANTS
    Threads = {t1, t2}
    Works = {w1, w2}
    k1 = k1
    Keys = {k1}
    Workspaces = {b1, b2, b3, b4}
    Collective = {w2}
    ResourceKeys <- TwoBuffers
    Leases <- MCLeases
    NoKey = NoKey
    NoWorkspace = NoWorkspace
    NoLease = NoLease
    Nobody = Nobody
    NoWork = NoWork
SPECIFICATION LeasedSpec
INVARIANT InFlightNotShared
PROPERTY WorkspacesComeBack
