SPECIFICATION FairSpec
CONSTANTS
    Worker = {w1, w2}
    Loop = Loop
    Idle = Idle
    Size = 3
    SndBuf = 2
    MaxMsg = 5
    Scenario <- Promised
INVARIANTS TypeOK NoRace InterestMatchesBuffer UsedIsLive
PROPERTY ImplementsStream
CHECK_DEADLOCK FALSE
