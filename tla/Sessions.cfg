\* Two requests at a time, one user, store errors and restarts.
CONSTANTS
    Users = {u1}
    NoUser = NoUser
    Reqs = {r1, r2}
    RefreshTTL = 1
    AccessTTL = 1
    MaxTokens = 3
    MaxTime = 2
    MaxRevokes = 2
    MayFail = TRUE
    MayCrash = TRUE
SPECIFICATION Spec
SYMMETRY Symmetry
CHECK_DEADLOCK FALSE
INVARIANTS TypeOK RotationLineage RevocationComplete AccessLapses ListMatchesRefresh
PROPERTIES NoResurrection RowsLeaveForCause
