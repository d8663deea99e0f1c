SPECIFICATION FairSpec
CONSTANTS
    Call = {c1, c2}
    MaxAttempts = 3
    MaxStops = 2
INVARIANTS
    StopReachesEntry
    HonestEnd
PROPERTIES
    StopEnds
CHECK_DEADLOCK FALSE
