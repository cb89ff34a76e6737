SPECIFICATION Spec
CONSTANTS
    NumFic = 2
    NumMsc = 2
    NumEq = 2
    EdgeCap = 4
    MaxFrames = 3
    MaxRestarts = 1
INVARIANTS KeepsFramesApart
CHECK_DEADLOCK FALSE
