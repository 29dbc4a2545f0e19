SPECIFICATION FairSpec
CONSTANTS
    Cancellers = {c1, c2}
CHECK_DEADLOCK FALSE
PROPERTIES
    CancelReturns
