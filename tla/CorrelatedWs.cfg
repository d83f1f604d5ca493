SPECIFICATION FairSpec
CONSTANTS
    Connect = {c1, c2}
    Disconnect = {d1}
    Request = {r1}
INVARIANTS
    LateIsSuperseded
    NothingLeftWaiting
PROPERTIES
    OnlyOwnEnds
    EndedIsOver
CHECK_DEADLOCK FALSE
