SPECIFICATION LifespanFairSpec
CONSTANTS
    Worker = {w1, w2}
    MaxCancels = 2
INVARIANTS
    LifespanInv
    NoLateWrite
    TeardownAfterThreads
PROPERTIES
    TeardownUndisturbed
    LifespanEnds
CHECK_DEADLOCK FALSE
