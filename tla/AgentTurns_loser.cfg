SPECIFICATION Spec
CONSTANTS
    Send = {s1, s2}
    Start = {t1}
    Stop = {}
    Dispose = {}
    Serial = TRUE
    NoTurn = NoTurn
PROPERTY EndedByOwnTerminal
CHECK_DEADLOCK FALSE
