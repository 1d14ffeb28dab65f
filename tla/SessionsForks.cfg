\* No failures and no clock: how far one token can fork, and what a started
\* handler must get done.
CONSTANTS
    Users = {u1}
    NoUser = NoUser
    Reqs = {r1, r2}
    RefreshTTL = 0
    AccessTTL = 1
    MaxTokens = 4
    MaxTime = 0
    MaxRevokes = 2
    MayFail = FALSE
    MayCrash = FALSE
SPECIFICATION FairSpec
CHECK_DEADLOCK FALSE
INVARIANTS ForksBounded
PROPERTIES ReuseEndsFamily
