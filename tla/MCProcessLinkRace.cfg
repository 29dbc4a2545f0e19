SPECIFICATION FairSpec
CONSTANTS
    QueueSize = 3
    NumFrames = 5
    First = {"producer", "consumer"}
    MaxKills = 0
CHECK_DEADLOCK FALSE
INVARIANTS
    InOrder
