SPECIFICATION Spec
CONSTANTS
    Meant <- MCMeant
    Messages <- MCMessages
    Content <- MCContent
    MaxMessages = 2
    MaxRead = 40
    SplitTerminators = TRUE
    MAX_USERNAME_LEN = 3
    MAX_SECRET_LEN = 3
    MAX_DISPLAY_NAME_LEN = 3
    MAX_MESSAGE_CONTENT_LEN = 30
PROPERTY
    ImplementsMessageStream
