SPECIFICATION DirectoryFairSpec
CONSTANTS
    File = {1, 2}
    Empty = Empty
    Full = Full
    Limit = 1
    WireSize = 1
    MaxEdits = 2
    MaxFaults = 1
    Absent = Absent
    Unscanned = Unscanned
INVARIANT FeedInv
PROPERTY Converges
