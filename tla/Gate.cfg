SPECIFICATION Spec
CONSTANTS
    FrameSamples = 2
    Depth = 3
    Settle = 5
    MaxFrames = 11
INVARIANTS
    RecordsAreTheFrames
    SoundIsSentAroundChanges
CHECK_DEADLOCK FALSE
