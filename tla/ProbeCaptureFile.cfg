CONSTANTS
    Modes = {"label", "list"}
    Readers = {"r1", "r2"}
    Paths = {"h1"}
    TokenOf <- MCTokenOf
    Repeat = 2
    MaxLines = 0
SPECIFICATION FairSpec
INVARIANTS
    TypeOK
    OneWriter
    UnprimedFirst
    CleanEndComplete
PROPERTIES
    ImplementsCaptureFile
    WorkersEnd
CHECK_DEADLOCK FALSE
