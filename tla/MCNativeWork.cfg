CONSTANTS
    Threads = {t1, t2, t3}
    Nobody = Nobody
SPECIFICATION Spec
INVARIANTS
    CallbackOnce
    NoLockCycle
PROPERTIES
    ImplementsOnceWork
    WorkGetsOver
