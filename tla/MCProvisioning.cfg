SPECIFICATION ProvisioningSpec
CONSTANTS
    NONE = NONE
    EMPTY = EMPTY
    MISSING = MISSING
    LONG = LONG
    GARBAGE = GARBAGE
    TICK = 100
    Forms <- MCSubmittedForms
    Bytes <- MCBytes
    Unhex <- MCUnhex
    Escaped <- MCEscaped
    NOT_UTF8 = NOT_UTF8
    PortNumber <- MCPortNumber
    FIELD_SIZE <- MCFieldSize
    HDR_SIZE = 4
    BODY_SIZE = 24
    DECODED_SIZE = 20
    Typed <- MCTyped
    Requests <- MCRequests
INVARIANTS
    ProvisioningTypeOK
    PortalReachable
    SavingShown
    TestedAsSent
PROPERTIES
    RefinesCredentialStore
    TestEnds
