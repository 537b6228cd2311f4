SPECIFICATION RouterSpec
CONSTANTS
    NONE = NONE
    Commands <- HandlerCommands
    Ids = {"", "c", "long"}
    EMPTY_ID = ""
    LongIds = {"long"}
    MAX_SUBSCRIPTIONS = 2
    MAX_PAYLOAD_LEN = 512
INVARIANT
    NeverPanics
CHECK_DEADLOCK FALSE
