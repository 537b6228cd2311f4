SPECIFICATION StationSpec
CONSTANTS
    NONE = NONE
    TICK = 50
INVARIANT
    SosAfterTenMinutes
CHECK_DEADLOCK FALSE
