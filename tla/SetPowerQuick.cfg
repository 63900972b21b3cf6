SPECIFICATION SafeSpec
CONSTANTS
    p1 = p1
    p2 = p2
    Clients <- MCClients
    NoClient = NoClient
    Options <- MCOptions
    Retries = 2
    MaxRestarts = 0
INVARIANTS
    QuickAckHeard
CHECK_DEADLOCK FALSE
