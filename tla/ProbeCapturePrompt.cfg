CONSTANTS
    Modes = {"interactive"}
    Readers = {}
    Paths = {"h1"}
    TokenOf <- MCTokenOf
    Repeat = 1
    MaxLines = 3
SPECIFICATION FairSpec
INVARIANTS
    CapturesMatchLines
PROPERTIES
    ReturnsWhenInterrupted
CHECK_DEADLOCK FALSE
