\* Three attempts at a time, the code's five failures, a lock of two ticks.
CONSTANTS
    Reqs = {r1, r2, r3}
    MaxFails = 5
    LockFor = 2
SPECIFICATION FairSpec
INVARIANTS TypeOK GuessesPerLock
PROPERTIES LockLifts
