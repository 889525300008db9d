CONSTANT
    Cards <- AllCards
SPECIFICATION Spec
INVARIANTS
    SerialFound
    ConfigurationIndependent
PROPERTIES
    ImplementsObservations
    Terminates
CHECK_DEADLOCK FALSE
