SPECIFICATION FairSpec
CONSTANTS
    Ids = {i1, i2}
    Passwords = {p1, p2}
    Tasks = {t1, t2}
    MaxOps = 3
    MayFail = TRUE
    MayQuit = TRUE
INVARIANTS
    TypeOK
    MemoryMatchesFile
    PasswordSettled
PROPERTIES
    StaysLocked
    RightPasswordOpens
CHECK_DEADLOCK FALSE
