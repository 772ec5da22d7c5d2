CONSTANTS
    NumLPs = 2
    NumSchedulers = 2
    NumWorkers = 2
    Partition <- OneQueuePerLP
    LpMigration = TRUE
    Infinity = 99
    MaxSimTime = 6
    InitialSends <- BehindInitial
    Sends <- BehindSends
    StatePeriod = 2
    Remote = FALSE
    Fifo = TRUE
    MaxEvents = 20
    GvtTimes = {2, 4, 6}
    Message <- BehindUniverse
SPECIFICATION LogSpec
INVARIANT HistoryInv
PROPERTIES CommittedIsNotCancelled ImplementsClient EventuallyTerminates
CHECK_DEADLOCK FALSE
