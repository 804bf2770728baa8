SPECIFICATION Spec
CONSTANTS
    Worker = {w1, w2}
    Loop = Loop
    Idle = Idle
    Size = 3
    SndBuf = 2
    MaxMsg = 2
    Scenario <- ClosedEarly
INVARIANT UsedIsLive
CHECK_DEADLOCK FALSE
