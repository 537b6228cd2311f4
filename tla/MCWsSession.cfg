SPECIFICATION WsSpec
CONSTANTS
    NONE = NONE
    NO_HEADER = NO_HEADER
    EMPTY_ID = ""
    Ids = {"", "c", "long"}
    LongIds = {"long"}
    UnserializableIds = {"long"}
    MAX_SUBSCRIPTIONS = 8
    MAX_PAYLOAD_LEN = 512
    MAX_MSG_LEN = 1024
    Json <- MCJson
    Commands <- MCCommands
    Frames <- MCFrames
    RESPONSE_LEN = 126
    RX_SIZE = 4
    TX_SIZE = 1
    FRAME_BOUND = 2
INVARIANTS
    WsTypeOK
    FramesInOrder
    HeadersParse
PROPERTIES
    FramesAnswered
    VanishedReleasedAfterUpgrade
CHECK_DEADLOCK FALSE
