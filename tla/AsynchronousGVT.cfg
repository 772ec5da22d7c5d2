CONSTANTS
    Infinity = 99
    MaxRounds = 2
    RingSends = 1
    ThreadSends = 2
    Prompt = TRUE
    FifoNodes = TRUE
SPECIFICATION FairSpec
INVARIANTS UpdateIsLowerBound FlagCountsWorkers ColorsAgree
PROPERTIES ImplementsGVTService ComputationEnds
CHECK_DEADLOCK FALSE
