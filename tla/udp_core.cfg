SPECIFICATION Spec
CONSTANTS
    Retransmissions = 1
    TableSize = 2
    IdSpace = 16
    EarlyInput = FALSE
    LineBuffered = TRUE
    ServerKinds = {"BYE"}
    MaxIndex = 3
    MaxServerIds = 2
    MaxInterrupts = 0
INVARIANTS
    TypeOK
    AuthenticatedSession
    SessionTrafficOnDynamicPort
    SlotHoldsOwnId
    StopAndWait
    ScanInBounds
    ConfirmHasSlot
PROPERTIES
    NoFalseFailure
    ImplementsChatSession
CHECK_DEADLOCK TRUE
