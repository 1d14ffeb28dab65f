SPECIFICATION Spec
CONSTANTS
    Ids = {i1, i2}
    Notes = {n1, n2}
    Tasks = {t1, t2}
    MaxOps = 2
    MaxRemote = 1
    MaxImport = 1
    MayFail = TRUE
SYMMETRY Symmetry
INVARIANTS
    TypeOK
    DeletedStaysDeleted
    ListIsVault
    EditsKept
    LoadingEnds
CHECK_DEADLOCK FALSE
