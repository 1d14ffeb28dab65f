SPECIFICATION FairSpec
CONSTANTS
    Accounts = {a1, a2}
    Passwords = {p1, p2}
    Tasks = {t1, t2}
    MaxOps = 3
    None = None
INVARIANTS
    TypeOK
    VaultIsSessions
    StoredWasAccepted
PROPERTIES
    FormAnswers
CHECK_DEADLOCK FALSE
