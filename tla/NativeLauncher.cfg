\* Two launchers of two setups, one signal or full disk, and one outright kill.
SPECIFICATION Spec
CONSTANTS
    Runs = {r1, r2}
    Setups = {a, b}
    None = None
    MaxFaults = 1
    MaxKills = 1
INVARIANTS
    OneHolder
    Earned
PROPERTIES
    Ends
    ImplementsRecord
CHECK_DEADLOCK FALSE
