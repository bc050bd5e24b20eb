CONSTANTS
    Requests <- MCRequests
    NoEvidence <- MCNoEvidence
SPECIFICATION Spec
CHECK_DEADLOCK FALSE
INVARIANTS
    OnlyAutoFallsBack
    BoundProgramVerifies
    BuffersFit
    ShardsTile
    RingReducesAll
    TreeSpans
    HierarchyAverages
