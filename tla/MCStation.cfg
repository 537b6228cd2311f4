SPECIFICATION StationSpec
CONSTANTS
    NONE = NONE
    TICK = 50
INVARIANTS
    StationTypeOK
    LedFollows
    PowerFollowsClient
    OutageAccounting
PROPERTY
    ClientServed
CHECK_DEADLOCK FALSE
