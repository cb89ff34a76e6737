SPECIFICATION MCSpec
CONSTANTS
    SymbolLength = 2
    NumSymbols = 2
    MaxSamples = 12
    MaxTags = 3
    MaxRestarts = 1
INVARIANTS TypeOK MeasuresOneFrame CorrectsItsFrame SpoiledOnce
CHECK_DEADLOCK FALSE
