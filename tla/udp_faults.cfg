\* Input that waits before the socket exists, piped output, Ctrl-C in one thread
\* and then in the other; a table that grows.
SPECIFICATION FairSpec
CONSTANTS
    Retransmissions = 0
    TableSize = 3
    IdSpace = 8
    EarlyInput = TRUE
    LineBuffered = FALSE
    ServerKinds = {"PING"}
    MaxIndex = 2
    MaxServerIds = 1
    MaxInterrupts = 2
PROPERTIES
    IdsUnique
    NoCommandAfterBye
    InterruptEnds
