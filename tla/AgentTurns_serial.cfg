SPECIFICATION FairSpec
CONSTANTS
    Send = {s1, s2}
    Start = {t1}
    Stop = {i1}
    Dispose = {}
    Serial = TRUE
    NoTurn = NoTurn
INVARIANT OwnTerminal
PROPERTIES
    FailedTurnEnds
    InterruptEndsTurn
CHECK_DEADLOCK FALSE
