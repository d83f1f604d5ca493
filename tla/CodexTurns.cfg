SPECIFICATION Spec
CONSTANTS
    Send = {s1, s2}
    Stop = {k1}
    Dispose = {k1}
    Serial = TRUE
    MaxTimeouts = 2
    NoTurn = NoTurn
INVARIANTS
    InterruptFiresOnce
    OrphanIsWatched
    DeadServerFreesChat
SYMMETRY SendSymmetry
CHECK_DEADLOCK FALSE
