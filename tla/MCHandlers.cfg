SPECIFICATION BatchSpec
CONSTANTS
    NONE = NONE
    Commands <- MCCommands
    Ids = {"", "c", "long"}
    EMPTY_ID = ""
    LongIds = {"long"}
    MAX_SUBSCRIPTIONS = 2
    MAX_PAYLOAD_LEN = 512
    Batches <- MCBatches
    MAX_BATCH_SIZE = 3
    next_id = "c"
    Pins = {22, 23}
    Buses = {1, 2}
    Channels = {3, 15, 16}
    Settings = {1, 5, 8}
    Numbers = {0, 400000}
    Words = {"none", "input"}
INVARIANTS
    RouterTypeOK
    ConfiguredIsValid
    SubscriptionsWellFormed
    BatchIsSequence
    FailedCommandsDropOut
    CallsUnderstood
    PayloadsSurvive
PROPERTIES
    RejectedChangesNothing
    UnsubscribeFreesTarget
CHECK_DEADLOCK FALSE
