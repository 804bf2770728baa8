SPECIFICATION FairSpec
CONSTANTS
    Owner = owner
    Stopper = {s1, s2}
    Worker = {w1, w2}
    Idle = Idle
    Blocking = FALSE
    Joins = TRUE
    MaxRemovals = 2
INVARIANTS TypeOK LoopEndsFirst ThreadIsJoined
PROPERTIES StopReturns DestroyReturns
CHECK_DEADLOCK FALSE
