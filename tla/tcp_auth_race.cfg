SPECIFICATION Spec
CONSTANTS
    ServerKinds = {}
    MaxCommands = 2
    MaxMessages = 0
    MaxInterrupts = 0
PROPERTY
    ImplementsChatSession
