CONSTANTS
    Ranks = {r1, r2, r3}
    Program <- AllKinds
    PoolSize = 1
    MaxInFlight = 3
    Awaited = {"full"}
    MaxFaults = 1
    Schemas <- MCSchemas
SPECIFICATION Spec
CHECK_DEADLOCK FALSE
INVARIANTS
    CollectivesAgree
    OutputsCorrect
    RejectTogether
PROPERTY AllFinish
