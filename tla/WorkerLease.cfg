SPECIFICATION FairSpec
CONSTANTS
    Pid = {p1, p2}
    MaxBirths = 2
    IdLimit = 2
    NoRecord = NoRecord
    NoPid = NoPid
INVARIANT
    UniqueNumber
PROPERTIES
    PassesOnlyOccupied
    ImplementsPool
    AcquireReturns
CHECK_DEADLOCK FALSE
