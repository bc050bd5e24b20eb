CONSTANTS
    Threads = {t1, t2}
    Nobody = Nobody
SPECIFICATION Spec
INVARIANT QueryMeansDone
