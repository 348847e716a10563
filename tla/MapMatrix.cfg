\* Both scripts over three maps and two workers, one of which may die.
SPECIFICATION FairSpec
CONSTANTS
    Maps <- ThreeMaps
    Workers = {w1, w2}
    Drivers = {"pool", "until-clear"}
    MaxRounds = 2
    ImproveCap = 1
    MaxDeaths = 1
    None = None
    Unreadable = Unreadable
INVARIANTS
    Owned
    OnlyDeathLeavesWork
    ClearIsPerfect
PROPERTIES
    Ends
CHECK_DEADLOCK FALSE
