SPECIFICATION Spec
CONSTANTS
    INITIAL_BUFFER = 4
    MAX_BUFFER = 9
    Sizes = {3, 4, 5, 6, 7, 8, 9, 10}
    ServerNames <- Names
    Oddities <- Values
INVARIANTS BufferIsEnough DriftIsNamed
    CompanionIsUnderstood AnswersAreRead
PROPERTY CallsReturn
