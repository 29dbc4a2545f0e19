SPECIFICATION FairSpec
CONSTANTS
    QueueSize = 4
    NumFrames = 7
INVARIANTS
    TypeOK
    NoSharedBuffer
    InOrderDelivery
    NoLostWakeup
PROPERTIES
    AllDelivered
    ImplementsQueue
