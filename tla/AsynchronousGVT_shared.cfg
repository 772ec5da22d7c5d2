CONSTANTS
    NumNodes = 1
    NumWorkers = 2
    NumSchedulers = 1
    NumLPs = 3
    LpMigration = FALSE
    NodeOf <- OneNode
    QueueOf <- OneQueue
    InitialEvents <- StaggeredEvents
    SendTimes = {2, 3, 4}
    MaxSends = 2
    Infinity = 99
    MaxRounds = 2
    Prompt = TRUE
    FifoNodes = TRUE
SPECIFICATION Spec
INVARIANTS GVTIsLowerBound
CHECK_DEADLOCK FALSE
