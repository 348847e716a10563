\* Every map of three points and of four narrow points, with and without
\* readable islands and unsafe intervals.
SPECIFICATION Spec
CONSTANTS
    Scopes = {1, 2}
    Limit <- MCLimit
    LastOffset = 7
    Inputs <- MCInputs
    None = None
INVARIANTS
    NeverUnsafe
    Authorised
    PlannedOnce
    FewestRequests
CHECK_DEADLOCK FALSE
