SPECIFICATION FairSpec
CONSTANTS
    Nonces = {n1, n2, n3}
    Foreign = {n3}
    NoNonce = NoNonce
    MaxJobs = 3
    MaxStarts = 2
INVARIANTS WindowFollowsSession ActiveWasAcked BlockedIsNotActive
PROPERTY DueBeatIsSent
CHECK_DEADLOCK FALSE
