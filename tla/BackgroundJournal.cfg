SPECIFICATION FairSpec
CONSTANTS
    Pid <- OnePid
    MaxBirths = 2
    NoRecord = NoRecord
    Garbage = Garbage
INVARIANTS JournalInv LoggedInOrder
PROPERTIES KeptWhileLive KillsOnlyRetiring RetirementEnds AnnouncementEnds
