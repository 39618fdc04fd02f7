SPECIFICATION WebSocketSpec
CONSTANTS
    Conn = {c1}
    Listener = {l1}
    NoListener = NoListener
    Format = {f1}
    NoFormat = NoFormat
    QueueDepth = 1
    MaxEpoch = 2
    MaxPosition = 1
    MaxBroadcasts = 5
INVARIANTS
    DrainedClientKnows
PROPERTIES
    ProtocolKept
    ClientsCatchUp
    GoneClientIsDetached
