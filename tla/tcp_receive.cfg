\* Three messages of the grammar, cut anywhere but inside a CRLF.
SPECIFICATION Spec
CONSTANTS
    Meant <- MCMeant
    Messages <- MCMessages
    Content <- MCContent
    MaxMessages = 3
    MaxRead = 40
    SplitTerminators = FALSE
    MAX_USERNAME_LEN = 3
    MAX_SECRET_LEN = 3
    MAX_DISPLAY_NAME_LEN = 3
    MAX_MESSAGE_CONTENT_LEN = 30
INVARIANTS
    TypeOK
    LineFits
    ReadAsWritten
PROPERTIES
    ImplementsMessageStream
    EverythingHandled
CHECK_DEADLOCK TRUE
