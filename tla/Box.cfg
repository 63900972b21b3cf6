SPECIFICATION Spec
CONSTANTS
    Clients = {p1}
    PowerStates <- MCPowerStates
    Threads = {}
    MaxRequests = 2
    MaxChanges = 2
    MaxCrashes = 0
    MaxFaults = 0
INVARIANTS
    TypeOK
    RequestShown
PROPERTIES
    ObserversAgree
    StoredAnswer
    RequestReachesFlags
CHECK_DEADLOCK FALSE
