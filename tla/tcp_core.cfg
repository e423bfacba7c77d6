\* Three commands, among them a second /auth before the first is answered,
\* a reply to each, and one message of the server on its own.
SPECIFICATION Spec
CONSTANTS
    ServerKinds = {"MSG", "BYE", "UNKNOWN"}
    MaxCommands = 3
    MaxMessages = 1
    MaxInterrupts = 1
INVARIANTS
    TypeOK
    AuthenticatedSession
    JoinAwaitsReply
    NoCommandAfterBye
PROPERTIES
    ProgramEnds
CHECK_DEADLOCK TRUE
