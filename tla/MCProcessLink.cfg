SPECIFICATION FairSpec
CONSTANTS
    QueueSize = 3
    NumFrames = 5
    First = {"consumer"}
    MaxKills = 2
CHECK_DEADLOCK FALSE
INVARIANTS
    TypeOK
    FramesGenuine
    BuffersAccounted
    OnlyWithPeer
    NamesRemoved
PROPERTIES
    AllDelivered
    ImplementsQueue
