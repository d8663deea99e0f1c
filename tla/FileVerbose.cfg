SPECIFICATION FairSpec
CONSTANTS
    Pid = {p1, p2}
    MaxBirths = 2
    NoRecord = NoRecord
    MaxUpdates = 2
INVARIANT
    VerbosityInv
PROPERTIES
    NeverBack
    Converges
CHECK_DEADLOCK FALSE
