SPECIFICATION MCSpec
CONSTANTS
    Energies <- MCEnergies
    NegInfinity <- MCNegInfinity
    Levels <- MCLevels
    Rise = 6
    Fall = 7
    MaxItems = 5
    MaxRestarts = 1
INVARIANTS TypeOK MarksMaxima ExcursionsFollow FewFalseMarks
PROPERTY NothingHeldBack
CHECK_DEADLOCK FALSE
