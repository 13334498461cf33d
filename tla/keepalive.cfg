SPECIFICATION Spec
CONSTANTS
    KEEP_ALIVE_SECS = 120
    KEEP_ALIVE_TIMEOUT_SECS = 842
    Late = 2
    Delay = 20
    MaxLost = 5
INVARIANTS
    LossesTolerated
    OrphansEnd
CHECK_DEADLOCK FALSE
