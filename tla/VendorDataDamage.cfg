CONSTANTS
    Presences = {0, 1, 5}
    Historicals <- MCHistoricals
    MaxGroups = 3
    Masks <- MCMasks
    Serials <- MCSerials
    StrayBytes = {0, 17, 48, 129, 255}
    MaxPadding = 2
SPECIFICATION Spec
INVARIANTS
    AcceptsTheGrammar
    IdentityRead
    CutClaimsNothing
    SerialWhole
    IdentifiesOwner
PROPERTIES
    OneBitOneFlag
CHECK_DEADLOCK FALSE
