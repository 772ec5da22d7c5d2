CONSTANTS
    Kinds = {"ladder", "splay"}
    NumLPs = 3
    MaxTime = 6
    NumEvents = 7
    MAX_RUNG_CNT = 3
    THRESHOLD = 2
SPECIFICATION Spec
INVARIANT EraseTellsPresence
CHECK_DEADLOCK FALSE
