\* Both protocols, every kind of line in every state, REPLYs at any time.
SPECIFICATION Spec
CONSTANTS
    CommandLines <- MCCommandLines
    Numbers <- MCNumbers
    Lines <- MCLines
    CommandWords <- MCCommandWords
    DEFAULT_DISPLAY_NAME <- MCName
    FIRST_BLOCK = 12
    MessageIds <- MCMessageIds
    MaxOffset = 12
    MAX_USERNAME_LEN = 2
    MAX_SECRET_LEN = 2
    MAX_DISPLAY_NAME_LEN = 2
    MAX_MESSAGE_CONTENT_LEN = 24
INVARIANTS
    TypeOK
    SettingsAsGiven
    ConformingMessages
    SentFromThisLine
    ServerUnderstands
PROPERTIES
    EveryChatLineIsSent
CHECK_DEADLOCK TRUE
