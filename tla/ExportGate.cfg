\* From a map to a tool pack, with one edit of the plan or revision of the map
\* in between: the requests of five-register maps, and pairs of any meaning.
SPECIFICATION GateSpec
CONSTANTS
    Scopes = {1, 2}
    Limit <- MCLimit
    LastOffset = 7
    None = None
    Inputs <- MCInputs
    BitScopes = {2}
    RouteOf <- MCRouteOf
    MaxRouteReads = 2
    Cases <- MCCases
    ProtocolLimit <- MCProtocolLimit
    FunctionOf <- MCFunctionOf
    Selections <- MCSelections
    MaxChanges = 1
INVARIANTS
    ReadsAreJustified
    ShownAsMeant
    PlannedIsAccepted
CHECK_DEADLOCK FALSE
