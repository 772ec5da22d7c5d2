CONSTANTS
    NumNodes = 2
    NumWorkers = 2
    NumSchedulers = 1
    NumLPs = 2
    LpMigration = FALSE
    NodeOf <- NodePerLP
    QueueOf <- OneQueue
    InitialEvents <- LastHasEvent
    SendTimes = {2}
    MaxSends = 1
    Infinity = 99
    MaxRounds = 2
    Prompt = TRUE
    Settled = TRUE
    Terminates = TRUE
SPECIFICATION Spec
PROPERTY ImplementsGVTService
INVARIANTS NoWhiteInTransit WorkersStopped
CHECK_DEADLOCK FALSE
