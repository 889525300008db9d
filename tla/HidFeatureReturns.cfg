CONSTANTS
    Calls = {c1, c2}
    NoCall = NoCall
    ChunkSize = 2
    SequenceMod = 3
    CommandLengths = {3}
    ResponseLengths = {1, 7}
    TransmitIds = 2
    MaxFaults = 1
SPECIFICATION FairSpec
PROPERTIES
    CancelReturns
    CloseReturns
