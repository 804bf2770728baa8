SPECIFICATION FairSpec
CONSTANTS
    Owner = Owner
    Producer = {p1, p2}
    Nobody = Nobody
    Batch = 1
    Polite = TRUE
    MaxLog = 2
    MaxStarts = 1
    MaxStops = 1
INVARIANTS TypeOK WorkerKeepsSinks NothingLost StopWrites
PROPERTIES CallsReturn LoggedIsWritten
CHECK_DEADLOCK FALSE
