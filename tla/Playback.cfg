SPECIFICATION PlaybackSpec
CONSTANTS
    RingSamples = 11
    PrefillSamples = 4
    FrameSamples = 3
    Quantum = 2
    MaxFrames = 8
    MaxResets = 1
INVARIANTS
    RingKeepsTime
PROPERTIES
    LossIsReported
    TailIsPlayed
CHECK_DEADLOCK FALSE
