SPECIFICATION Spec
CONSTANTS
    NonceTTL = 1
    PollTimeout = 1
    HeartbeatInterval = 4
    HeartbeatGrace = 3
    LivenessInterval = 1
    BeatDelay = 0
    LoopDelay = 1
    MaxDrop = 1
    MaxDown = 1
    MaxDrops = 1
    MaxDeaths = 1
    MaxClock = 24
INVARIANT InterruptionSurvives
CHECK_DEADLOCK FALSE
