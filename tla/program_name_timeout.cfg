SPECIFICATION Spec
CONSTANTS
    CommandLines <- MCCommandLines
    Numbers <- MCNumbers
    Lines <- MCLines
    CommandWords <- MCCommandWords
    DEFAULT_DISPLAY_NAME <- MCName
    FIRST_BLOCK = 12
    MessageIds <- MCMessageIds
    MaxOffset = 12
    MAX_USERNAME_LEN = 2
    MAX_SECRET_LEN = 2
    MAX_DISPLAY_NAME_LEN = 2
    MAX_MESSAGE_CONTENT_LEN = 24
INVARIANT
    TimeoutAsConfigured
