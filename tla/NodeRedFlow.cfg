\* Plans started one after the other, as the campaign harness starts them.
SPECIFICATION FairSpec
CONSTANTS
    b1 = b1
    b2 = b2
    b3 = b3
    Plan <- ThreeBlocks
    RetryLimits = {0, 1}
    None = None
    Commands = {"start"}
    Outcomes = {"good", "odd", "short", "failed"}
    Polling = FALSE
    MaxTriggers = 2
INVARIANTS
    OneInFlight
    PublishedAttempts
PROPERTIES
    Drains
    ImplementsRun
CHECK_DEADLOCK FALSE
