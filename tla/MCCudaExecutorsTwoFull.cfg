CONSTANTS
    Ranks = {r1, r2}
    Program <- TwoFull
    PoolSize = 2
    MaxInFlight = 2
    Awaited = {}
    MaxFaults = 0
    Schemas <- MCSchemas
SPECIFICATION Spec
CHECK_DEADLOCK FALSE
INVARIANT OutputsAgree
