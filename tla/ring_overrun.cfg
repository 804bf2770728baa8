SPECIFICATION Spec
CONSTANTS
    Cap = 2
    Laps = 4
    MaxPush = 9
INVARIANT FullIsRefused
CHECK_DEADLOCK FALSE
