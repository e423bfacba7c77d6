SPECIFICATION Spec
CONSTANTS
    Retransmissions = 0
    TableSize = 4
    IdSpace = 16
    EarlyInput = FALSE
    LineBuffered = TRUE
    ServerKinds = {}
    MaxIndex = 2
    MaxServerIds = 1
    MaxInterrupts = 1
PROPERTY
    NoFalseFailure
