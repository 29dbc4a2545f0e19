SPECIFICATION FairSpec
CONSTANTS
    Links = {l1, l2}
    Conns = {c1, c2, c3}
CHECK_DEADLOCK FALSE
INVARIANTS
    SurvivesDestruction
