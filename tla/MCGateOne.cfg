SPECIFICATION Spec
CONSTANTS
    s1 = s1
    s2 = s2
    a1 = a1
    Sessions = {s1}
    Requests = {r1, r2}
    Builds = {b1, b2}
    Addresses = {a1}
    GameIp <- SameAddress
    NoSession = NoSession
    NoBuild = NoBuild
    NonceTTL = 3
    PollTimeout = 2
    HeartbeatInterval = 2
    HeartbeatGrace = 1
    MaxClock = 7
INVARIANTS TypeOK SingleClaim AnswerJustified ActiveIsMeasured ExpiredNeverAttested SilenceOutlastsGrace
    FailOpenStaysMarked OutcomeMatchesAnswer
PROPERTIES KickIsFinal ImplementsAdmission
SYMMETRY Symmetry
CHECK_DEADLOCK FALSE
