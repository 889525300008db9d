CONSTANTS
    Readers = {r1, r2, r3}
    Matching = {r1, r2}
    Tokens = {t1, t2}
    None = None
    MaxInsertions = 3
    MaxEvents = 3
SPECIFICATION Spec
SYMMETRY TokenSymmetry
INVARIANTS
    InsertionsAccounted
    ResultsAccounted
    TraceUnblocked
CHECK_DEADLOCK FALSE
