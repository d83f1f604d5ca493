SPECIFICATION Spec
CONSTANTS
    Send = {s1, s2}
    Start = {t1}
    Stop = {}
    Dispose = {d1}
    Serial = FALSE
    NoTurn = NoTurn
INVARIANTS
    Owned
    ShutdownIsFinal
    NoPhantomPrompt
SYMMETRY Symmetry
CHECK_DEADLOCK FALSE
