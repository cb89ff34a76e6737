SPECIFICATION Spec
CONSTANTS
    Page = 3
    Heights <- MCHeights
    Lists <- MCPrintedLists
    File = file
    Silence = silence
    Capacity = 3
    InCap = 1
    OutCap = 1
INVARIANTS PrintedSettingsFit
\* The program ends with a key or with an exception.
CHECK_DEADLOCK FALSE
