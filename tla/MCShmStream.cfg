SPECIFICATION FairSpec
CONSTANTS
    InitialSize = 4
    PageSize = 4
    MaxFrame = 10
    NumFrames = 3
CHECK_DEADLOCK FALSE
INVARIANTS
    TypeOK
    WritesMapped
    FaultsOnlyByGrowth
PROPERTIES
    AllRead
