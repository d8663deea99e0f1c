SPECIFICATION FairSpec
CONSTANTS
    Pid = {p1, p2}
    MaxBirths = 2
    MaxEdits = 2
    MaxProcesses = 3
    NoRecord = NoRecord
INVARIANT
    ReloadInv
PROPERTIES
    RetiresObserved
    ShutdownWins
    ChangeTakesEffect
CHECK_DEADLOCK FALSE
