CONSTANTS
    NumNodes = 3
    NumWorkers = 2
    InitialEvents <- AtFirst
    MaxSends = 2
SPECIFICATION FairSpec
INVARIANTS OneToken StateFollowsThreads
PROPERTY EventuallyTerminates
CHECK_DEADLOCK FALSE
