CONSTANTS
    Buckets = {b1, b2}
    Gradients = {2}
    Errors = {1}
    Workers = 1
    Rebuilders = {r1, r2}
    MaxGeneration = 3
    MaxCallbackErrors = 1
    NoResidual = NoResidual
    NoTarget = NoTarget
SPECIFICATION Spec
INVARIANTS
    TypeOK
    ResidualsCurrent
    ErrorConserved
PROPERTIES
    FuturesResolve
