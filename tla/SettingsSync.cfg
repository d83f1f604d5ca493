SPECIFICATION Spec
CONSTANTS
    m1 = m1
    m2 = m2
    app = app
    remote = remote
    Machine = {m1, m2}
    Group = {app, remote}
    Slow = {remote}
    Quitter = {m1}
    Toggled <- Switched
    Starts <- SharedGroups
    MaxTime = 3
    None = None
INVARIANTS
    NothingDropped
    SyncedIsTrue
PROPERTIES
    NewerEditSurvives
CHECK_DEADLOCK FALSE
