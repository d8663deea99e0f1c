SPECIFICATION FairSpec
CONSTANTS
    Pid = {p1}
    MaxBirths = 1
    MaxEdits = 1
    MaxProcesses = 1
    NoRecord = NoRecord
PROPERTIES
    StopEnds
CHECK_DEADLOCK FALSE
