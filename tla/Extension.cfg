SPECIFICATION Spec
CONSTANTS
    Jobs = {j1, j2}
    Idle = 1
    LastInput = 3
    MaxUnlocks = 2
    MayStop = TRUE
SYMMETRY Symmetry
INVARIANTS
    TypeOK
    RemovedForGood
    TimerArmed
    UnlockFormAnswers
PROPERTIES
    NeverUsedIdle
CHECK_DEADLOCK FALSE
