SPECIFICATION FairSpec
CONSTANTS
    Task = {t1, t2, t3}
    Worker = {w1, w2, w3}
    Idle = Idle
    Dtor = Dtor
    Nobody = Nobody
INVARIANTS TypeOK NoLostWakeup DrainedAtDestroy
PROPERTIES ImplementsTaskQueue DtorReturns
CHECK_DEADLOCK FALSE
