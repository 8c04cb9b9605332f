SPECIFICATION FairSpec
CONSTANTS
    s1 = s1
    s2 = s2
    a1 = a1
    Sessions = {s1, s2}
    Requests = {r1}
    Builds = {b1}
    Addresses = {a1}
    GameIp <- SameAddress
    NoSession = NoSession
    NoBuild = NoBuild
    NonceTTL = 2
    PollTimeout = 1
    HeartbeatInterval = 1
    HeartbeatGrace = 1
    MaxClock = 2
PROPERTY DeferralEnds
CHECK_DEADLOCK FALSE
