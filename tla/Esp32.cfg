SPECIFICATION Spec
CONSTANTS
    LineDepth = 2
    QueueDepth = 2
    Heartbeat = 2
    WriteTimeout = 2
    ReconnectDelay = 1
    MaxFrames = 6
INVARIANTS
    RelayKnowsTheState
    SilenceIsNotDeath
PROPERTIES
    KeepsToTheWire
CHECK_DEADLOCK FALSE
