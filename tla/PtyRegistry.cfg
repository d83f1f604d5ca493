SPECIFICATION FairSpec
CONSTANTS
    Session = {s1, s2}
    Closer = {c1}
    Downer = {d1}
    Kind = {"client", "remote"}
    NoSession = NoSession
INVARIANTS
    OneOwner
    ShutdownIsFinal
PROPERTIES
    GateSpec
    CallsReturn
    ExitedIsReaped
CHECK_DEADLOCK FALSE
