SPECIFICATION Spec
CONSTANTS
    p1 = p1
    p2 = p2
    Clients <- MCClients
    NoClient = NoClient
    Options <- MCOptions
    Retries = 1
    MaxRestarts = 1
INVARIANTS
    TypeOK
    EngagedHasCallback
    NothingLeftBehind
PROPERTIES
    DelayNamesTransaction
    AllFinish
    ChangeCompletes
    HonoursContract
CHECK_DEADLOCK FALSE
