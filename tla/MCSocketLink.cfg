SPECIFICATION FairSpec
CONSTANTS
    TxBuffers = 2
    RxBuffers = 3
    NumFrames = 7
CHECK_DEADLOCK FALSE
INVARIANTS
    TypeOK
    Lockstep
    FlushedOnClose
    TypesSeparated
PROPERTIES
    AllDelivered
    ImplementsQueue
