CONSTANTS
    NumNodes = 2
    max_aggregate = 2
    MaxMessages <- MostlyNode0
SPECIFICATION CommFairSpec
INVARIANTS NothingLostOrPassed
PROPERTY EventuallyHandled
CHECK_DEADLOCK FALSE
