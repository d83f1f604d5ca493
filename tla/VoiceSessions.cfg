SPECIFICATION FairSpec
CONSTANTS
    Stop = {s1}
    Cancel = {c1}
    Close = {d1}
    Target = 2
    MinTail = 2
    MaxAudio = 3
INVARIANTS ShutdownReachesAll TranscriptFollowsAudio
PROPERTIES CancelEnds CallsReturn
CHECK_DEADLOCK FALSE
