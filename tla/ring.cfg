SPECIFICATION FairSpec
CONSTANTS
    Cap = 2
    Laps = 2
    MaxPush = 9
INVARIANTS TypeOK TurnIsInSlot NoTornRead NeverStale
PROPERTY ImplementsFifo
CHECK_DEADLOCK FALSE
