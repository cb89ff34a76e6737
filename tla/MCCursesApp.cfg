SPECIFICATION Spec
CONSTANTS
    Page = 3
    Heights <- MCHeights
    Lists <- MCLists
    File = file
    Silence = silence
    Capacity = 3
    InCap = 2
    OutCap = 1
INVARIANTS TypeOK SelectedVisible PlaysActive DecoderFits
\* The program ends with a key or with an exception.
CHECK_DEADLOCK FALSE
