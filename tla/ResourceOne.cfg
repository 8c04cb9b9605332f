SPECIFICATION FairSpec
CONSTANTS
    Players = {p1}
    NoPlayer = NoPlayer
    MaxLiveness = 3
    MaxRequests = 5
INVARIANTS CallbackOnce AdmissionJustified WatchedInGame SilenceNeverRefuses
PROPERTY DeferralEnds
CHECK_DEADLOCK FALSE
