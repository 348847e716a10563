SPECIFICATION Spec
CONSTANTS
    None = None
    Sources <- MCSources
    Templates <- MCTemplates
    Offsets = {9}
    BindingHolds <- MCBindingHolds
    MaxRevisions = 2
INVARIANTS
    LinkedMeansWhatWasSaid
    CompleteIsClean
    NothingLost
CHECK_DEADLOCK FALSE
