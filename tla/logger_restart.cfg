SPECIFICATION FairSpec
CONSTANTS
    Owner = Owner
    Producer = {}
    Nobody = Nobody
    Batch = 1
    Polite = FALSE
    MaxLog = 1
    MaxStarts = 2
    MaxStops = 0
PROPERTY CallsReturn
CHECK_DEADLOCK FALSE
