\* One message of each type and shape; a list of seen IDs that is doubled.
SPECIFICATION ReceiveSpec
CONSTANTS
    Ids <- MCIds
    InitialSize = 1
    ServerMessages <- MCServerMessages
    Junk = {0, 120}
    OWN_ID = 0
    OWN_NAME <- MCName
    err_string <- MCErrString
    MAX_USERNAME_LEN = 3
    MAX_SECRET_LEN = 3
    MAX_DISPLAY_NAME_LEN = 3
    MAX_MESSAGE_CONTENT_LEN = 3
INVARIANTS
    ReceiveTypeOK
    EntriesDistinct
    WholeOrCut
PROPERTIES
    ImplementsIdSet
    ImplementsDelivery
CHECK_DEADLOCK TRUE
