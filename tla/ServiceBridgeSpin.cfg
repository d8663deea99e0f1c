SPECIFICATION Spec
CONSTANTS
    Call = {c1}
    NoCall = NoCall
    MaxAttempts = 1
INVARIANTS
    LoopStaysAvailable
CHECK_DEADLOCK FALSE
