\* One command and BYE over a table that never grows, with fair scheduling.
SPECIFICATION FairSpec
CONSTANTS
    Retransmissions = 2
    TableSize = 4
    IdSpace = 16
    EarlyInput = FALSE
    LineBuffered = TRUE
    ServerKinds = {"MSG", "PING", "ERR", "BYE", "MALFORMED"}
    MaxIndex = 1
    MaxServerIds = 2
    MaxInterrupts = 0
INVARIANTS
    ShownOnce
PROPERTIES
    AllTriesBeforeGivingUp
    EverySendEnds
    ExitEnds
