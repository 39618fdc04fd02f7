SPECIFICATION Spec
CONSTANTS
    Rates = {16, 48}
    NominalRate = 16
    Sockets = {1, 2}
    Contexts = {1, 2, 3}
    MaxEpoch = 2
    MaxMessages = 2
    MaxStarts = 1
    MaxStops = 2
INVARIANTS
    FramesFitTheGraph
    StopLeavesNothing
PROPERTIES
    Reconnects
CHECK_DEADLOCK FALSE
