SPECIFICATION Spec
CONSTANTS
    PowerStates <- MCPowerStates
    Threads = {t1, t2}
    MaxChanges = 3
    MaxCrashes = 1
    MaxFaults = 1
INVARIANTS
    TypeOK
    OneWriter
    SettledFlags
    StaleFlagGone
    LightsleepOwned
    CaughtUp
PROPERTIES
    FlagPairNeverEmpties
    FileLostOnlyInRace
    FlagsFollowEvents
    MonitorsEnd
    ImplementsModeFlags
CHECK_DEADLOCK FALSE
