SPECIFICATION Spec
CONSTANTS
    NumVectors = 5
    NsLength = 3
    SymbolLength = 2
    Room = 3
INVARIANTS TypeOK ReceiverGetsVectors NullBeforePilot
PROPERTIES AllIsSent
CHECK_DEADLOCK FALSE
