SPECIFICATION SafeSpec
CONSTANTS
    PowerStates <- MCPowerStates
    Threads = {t1, t2}
    MaxChanges = 1
    MaxCrashes = 0
    MaxFaults = 0
INVARIANTS
    NoMissedTransition
CHECK_DEADLOCK FALSE
