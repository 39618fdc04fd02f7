SPECIFICATION StatsSpec
CONSTANTS
    Conn = {c1, c2}
    Listener = {l1}
    NoListener = NoListener
    Format = {f1, f2}
    NoFormat = NoFormat
    QueueDepth = 2
    MaxEpoch = 2
    MaxPosition = 1
    MaxBroadcasts = 3
INVARIANTS
    SourceHasOneReader
    FramesMatchTheirFormat
    PositionsAdvance
    TimeIsCountedOnce
PROPERTIES
    StatsAddUp
    DeadSourceIsDropped
