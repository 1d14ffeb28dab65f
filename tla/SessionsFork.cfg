\* Two refreshes of one token at the same time.
CONSTANTS
    Users = {u1}
    NoUser = NoUser
    Reqs = {r1, r2}
    RefreshTTL = 2
    AccessTTL = 1
    MaxTokens = 3
    MaxTime = 0
    MaxRevokes = 1
    MayFail = FALSE
    MayCrash = FALSE
SPECIFICATION Spec
CHECK_DEADLOCK FALSE
INVARIANTS SingleSuccessor
