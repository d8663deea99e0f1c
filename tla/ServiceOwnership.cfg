SPECIFICATION Spec
CONSTANTS
    Pid = {p1, p2, p3}
    MaxBirths = 2
    MaxStarted = 5
    NoRecord = NoRecord
INVARIANTS OneOwner OwnState StoppedByOwnRequest NothingLeft
CONSTRAINT Bounded
SYMMETRY Symmetry
CHECK_DEADLOCK FALSE
