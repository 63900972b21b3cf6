SPECIFICATION Spec
CONSTANTS
    YOCTO_BUILD = TRUE
INVARIANTS
    TypeOK
    NoDebugPrints
    OutcomeTold
    AllReleased
CHECK_DEADLOCK FALSE
