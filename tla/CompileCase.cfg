\* One compiler process at a time, which may die between any two writes.
SPECIFICATION Spec
CONSTANTS
    Procs = {proc}
    p1 = p1
    p2 = p2
    t1 = t1
    None = None
    Error = Error
    Elapsed = {0}
    Crashes = TRUE
    Points <- MCPoints
    Targets <- MCTargets
    Bindings <- MCBindings
    Requests <- MCRequests
INVARIANTS
    IndexLineage
    CleanCaseInspects
PROPERTIES
    SupersededRejected
    CleanAnswersCommitted
    ImplementsLifecycle
CHECK_DEADLOCK FALSE
