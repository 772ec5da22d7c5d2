CONSTANTS
    NumLPs = 2
    NumSchedulers = 2
    NumWorkers = 3
    Partition <- SharedQueue
    LpMigration = TRUE
    Infinity = 99
    Message <- TieAndLateMessages
SPECIFICATION ClientFairSpec
INVARIANTS IInv ScheduledOnce ProcessedInOrder CancelFindsItsEvent NoEventLost
PROPERTIES NoRollbackPastHorizon EventuallyDrained
CHECK_DEADLOCK FALSE
