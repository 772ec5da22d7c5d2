CONSTANTS
    NumProcesses = 2
    LPCounts = {5}
    Settings <- DifferentSettings
    BlockSizes = {0, 1}
    MaxMovedLPs = 1
    MaxEvents = 1
    MaxCheckpoints = 1
    MaxCrashes = 1
SPECIFICATION FairSpec
INVARIANTS SetUpAgrees RestartedIsArchived
PROPERTY SetUpEnds
CHECK_DEADLOCK FALSE
