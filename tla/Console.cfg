SPECIFICATION Spec
CONSTANTS
    LineDepth = 2
    QueueDepth = 2
    Heartbeat = 2
    WriteTimeout = 2
    ReconnectDelay = 1
    MaxFrames = 5
INVARIANTS
    RelayKnowsTheState
    SilenceIsNotDeath
PROPERTIES
    KeepsToTheWire
    RunReturns
CHECK_DEADLOCK FALSE
