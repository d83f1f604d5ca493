SPECIFICATION FairSpec
CONSTANTS
    Control = {k1}
    TTL = 2
    Traps = {"leader"}
    None = None
INVARIANTS
    RunningIsRecorded
PROPERTIES
    StopIsObeyed
    NoLostUpdate
    NoOverrun
    OrphanDies
    SupervisorEnds
CHECK_DEADLOCK FALSE
