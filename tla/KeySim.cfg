SPECIFICATION Spec
CONSTANTS
    table <- MCtable
    kcodesMap <- MCkcodesMap
    LastCode = "KEY_UNKNOWN"
    Numbers <- MCNumbers
    MaxArgs = 3
    TicksPerSecond = 2
    MaxFaults = 2
INVARIANTS
    TypeOK
    ModifierCovers
    RepeatsWhileHeld
    ReleasedBetweenRounds
    SentAsOften
PROPERTIES
    Terminates
CHECK_DEADLOCK FALSE
