SPECIFICATION MCSpec
CONSTANTS
    FftLength = 3
    CpLength = 2
    SymbolsPerFrame = 2
    Gap = 1
    MaxSamples = 22
    MaxTags = 3
INVARIANTS SymbolsInPlace NoFrameMissed FramesWhole
CHECK_DEADLOCK FALSE
