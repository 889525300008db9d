CONSTANT
    MaxListed = 3
SPECIFICATION Spec
INVARIANTS
    HandlesReleased
    SettingsReported
    ChoiceRight
PROPERTIES
    ImplementsObservations
CHECK_DEADLOCK FALSE
