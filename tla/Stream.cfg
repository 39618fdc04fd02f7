SPECIFICATION Spec
CONSTANTS
    Listener = {l1, l2}
    NoListener = NoListener
    Format = {f1, f2}
    NoFormat = NoFormat
    QueueDepth = 2
    MaxEpoch = 2
    MaxPosition = 1
    MaxBroadcasts = 3
INVARIANTS
    TypeOK
    NoSendOnClosedChannel
    ListenersLearnTheState
    SessionsInOrder
    GapsAreCounted
PROPERTY BroadcastEnds
