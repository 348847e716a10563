SPECIFICATION Spec
CONSTANTS
    None = None
    Sources <- MCSources
    Templates <- MCTemplates
    Offsets = {9}
    BindingHolds <- MCBindingHolds
    MaxRevisions = 2
INVARIANT SelectedAreUnheld
CHECK_DEADLOCK FALSE
