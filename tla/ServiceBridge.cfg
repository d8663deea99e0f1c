SPECIFICATION FairSpec
CONSTANTS
    Call = {c1, c2, c3}
    NoCall = NoCall
    MaxAttempts = 2
INVARIANTS
    CancelledOnce
PROPERTIES
    ImplementsBarrier
    DrainEnds
CHECK_DEADLOCK FALSE
