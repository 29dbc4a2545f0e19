SPECIFICATION FairSpec
CONSTANTS
    Programs <- TestPrograms
    Rounds = 3
    MaxThreads = 4
CHECK_DEADLOCK FALSE
INVARIANTS
    TypeOK
    Aligned
PROPERTIES
    AllDone
    NoDangling
