SPECIFICATION FairSpec
CONSTANTS
    Open = {o1}
    CloseCall = {k1}
    MaxAttempts = 3
    Launch = {l1, l2}
INVARIANTS NothingSurvives
PROPERTIES ExitIsNoticed ShutdownReturns
CHECK_DEADLOCK FALSE
