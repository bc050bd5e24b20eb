CONSTANTS
    Tags = {0, 1, 2}
    Script <- MCScript
    Expects <- MCExpects
    Foreign <- MCForeign
    ForeignWords = {2}
    PoolSize = 2
    MaxPerTag = 1
SPECIFICATION Spec
CHECK_DEADLOCK FALSE
INVARIANTS
    HeadersCanonical
    TensorsArriveWhole
PROPERTY AllDelivered
