SPECIFICATION Spec
CONSTANTS
    Rotate = 2
    MaxFd = 2
    MaxUnit = 4
    MaxSec = 2
INVARIANTS TypeOK EveryUnitOnce InOrder OwnsItsDescriptor
PROPERTY LeavesOthersAlone
