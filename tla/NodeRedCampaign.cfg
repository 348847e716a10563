\* Two rounds of a campaign with buttons pressed and answers lost at any moment.
SPECIFICATION CampaignSpec
CONSTANTS
    b1 = b1
    b2 = b2
    Plan <- TwoBlocks
    UnitOf <- TwoUnits
    Rounds = 2
    RetryLimits = {0, 1}
    None = None
    Commands = {"start", "cancel"}
    Outcomes = {"good", "failed"}
    Polling = TRUE
    MaxTriggers = 3
    MaxPresses = 1
INVARIANTS
    CaptureOfOneRun
    PassedIsEarned
    RoundsAreOwn
CHECK_DEADLOCK FALSE
