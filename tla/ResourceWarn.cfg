SPECIFICATION Spec
CONSTANTS
    Players = {p1}
    NoPlayer = NoPlayer
    MaxLiveness = 3
    MaxRequests = 5
INVARIANT WarnedOncePerGrace
CHECK_DEADLOCK FALSE
