CONSTANTS
    Calls = {c1, c2}
    NoCall = NoCall
    ChunkSize = 2
    SequenceMod = 3
    CommandLengths = {1, 2, 3, 4}
    ResponseLengths = {1, 2, 7, 12}
    TransmitIds = 3
    MaxFaults = 2
SPECIFICATION Spec
SYMMETRY CallSymmetry
INVARIANTS
    TypeOK
    AnswersMatch
    CommandsWhole
