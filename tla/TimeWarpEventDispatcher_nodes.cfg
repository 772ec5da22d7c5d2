CONSTANTS
    NumLPs = 2
    NumSchedulers = 2
    NumWorkers = 2
    Partition <- OneQueuePerLP
    LpMigration = FALSE
    Infinity = 99
    MaxSimTime = 5
    InitialSends <- EchoInitial
    Sends <- EchoSends
    StatePeriod = 2
    Remote = TRUE
    Fifo = FALSE
    MaxEvents = 20
    GvtTimes = {3, 5}
    Message <- EchoUniverse
SPECIFICATION LogSpec
PROPERTY ImplementsGVTService
INVARIANTS HistoryInv StateIsReproducible CommittedIsSequential NoOrphan
CHECK_DEADLOCK FALSE
