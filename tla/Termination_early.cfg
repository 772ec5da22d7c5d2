CONSTANTS
    NumNodes = 2
    NumWorkers = 1
    InitialEvents <- AtFirst
    MaxSends = 1
SPECIFICATION Spec
INVARIANT NoEarlyTermination
CHECK_DEADLOCK FALSE
