CONSTANTS
    Threads = {t1, t2}
    Works = {plain, posted, faulty}
    NumResources = 2
    Postprocessed = {posted, faulty}
    Collective = {posted}
    FaultyWorks = {faulty}
    MaxAttempts = 3
    Nobody = Nobody
    NoWork = NoWork
SPECIFICATION Spec
INVARIANTS
    CompleteOnce
    OrderlyRelease
    QueryMeansDone
    RetriesReported
PROPERTIES
    ImplementsOnceWork
    WaitReturns
