SPECIFICATION Spec
CONSTANTS
    None = None
    Invalid = Invalid
    Placeholder = Placeholder
    Sources <- MCSources
    DefaultSets <- MCDefaultSets
INVARIANTS
    OneRegister
    DenialsHold
    NothingInvented
    NothingWavedThrough
CHECK_DEADLOCK FALSE
