SPECIFICATION MCSpec
CONSTANTS
    BitRateN = 24
    Sent <- MCSent
    Noise <- MCNoise
    InCap = 10
    Cap = 3
    ErrorCounts = {0, 1}
    MaxFrames = 20
    MaxDamaged = 2
INVARIANTS TypeOK FindsSuperframes ReadsPending OutputFits
PROPERTIES PlaysInOrder KeepsDecoding
CHECK_DEADLOCK FALSE
