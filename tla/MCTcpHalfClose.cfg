SPECIFICATION SessionSpec
CONSTANTS
    NONE = NONE
    EMPTY_ID = ""
    Ids = {"", "sub", "unsub", "boot", "uart", "long"}
    LongIds = {"long"}
    UnserializableIds = {"long"}
    MAX_SUBSCRIPTIONS = 8
    MAX_PAYLOAD_LEN = 512
    sub = sub
    conf = conf
    boot = boot
    nl = nl
    Byte <- Bytes
    NL = nl
    ZERO = sub
    MAX_MSG_LEN = 3
    Json <- MCJson
    Commands <- MCCommands
    RX_SIZE = 2
    TX_SIZE = 2
    STREAM_BOUND = 3
PROPERTY
    FinishedClientAnswered
CHECK_DEADLOCK FALSE
