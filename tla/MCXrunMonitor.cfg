SPECIFICATION MCSpec
CONSTANTS
    Length = 5
    InCap = 2
    OutCap = 3
    SmallRequest = 2
    Silence = Silence
    Items <- MCItems
    Wrap = 2
    MaxStops = 1
INVARIANT TypeOK
PROPERTIES ImplementsQueue AudioKeepsComing
