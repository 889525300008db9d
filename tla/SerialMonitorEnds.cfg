CONSTANTS
    Readers = {r1, r2}
    Matching = {r1}
    Tokens = {t1, t2}
    None = None
    MaxInsertions = 3
    MaxEvents = 2
SPECIFICATION FairSpec
PROPERTIES
    StopsWhenInterrupted
    EveryCardAttempted
CHECK_DEADLOCK FALSE
