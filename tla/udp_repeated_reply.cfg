SPECIFICATION Spec
CONSTANTS
    Retransmissions = 0
    TableSize = 4
    IdSpace = 16
    EarlyInput = FALSE
    LineBuffered = TRUE
    ServerKinds = {}
    MaxIndex = 1
    MaxServerIds = 1
    MaxInterrupts = 0
INVARIANT
    ReplyTakesEffectOnce
