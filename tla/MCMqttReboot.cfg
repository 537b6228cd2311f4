SPECIFICATION MqttSpec
CONSTANTS
    NONE = NONE
    Commands <- MCCommands
    Ids = {"", "conf", "burst", "boot", "long"}
    EMPTY_ID = ""
    LongIds = {"long"}
    MAX_SUBSCRIPTIONS = 8
    MAX_PAYLOAD_LEN = 512
    SUBACK = SUBACK
    GARBAGE = GARBAGE
    UnserializableIds = {"long"}
    ATTEMPT_MAX = 4
    PUBLISH_BOUND = 1
PROPERTY
    RebootRequested
CHECK_DEADLOCK FALSE
