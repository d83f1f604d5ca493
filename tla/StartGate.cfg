SPECIFICATION GateFairSpec
CONSTANTS
    Starter = {s1, s2, s3, s4}
    Closer = {c1, c2, c3}
INVARIANTS
    NoLostWakeup
    StrictQuiescence
PROPERTY CloseReturns
CHECK_DEADLOCK FALSE
