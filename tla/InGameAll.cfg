SPECIFICATION Spec
CONSTANTS
    NonceTTL = 1
    PollTimeout = 1
    HeartbeatInterval = 4
    HeartbeatGrace = 3
    LivenessInterval = 1
    BeatDelay = 2
    LoopDelay = 1
    MaxDrop = 3
    MaxDown = 24
    MaxDrops = 1
    MaxDeaths = 1
    MaxClock = 18
INVARIANTS NoKickWhileBeating WarnedBeforeKick RemovedInTime
CHECK_DEADLOCK FALSE
