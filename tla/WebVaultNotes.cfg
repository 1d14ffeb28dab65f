SPECIFICATION Spec
CONSTANTS
    Ids = {i1}
    Notes = {n1, n2}
    Tasks = {t1, t2}
    MaxOps = 2
    MaxRemote = 0
    MaxImport = 0
    MayFail = FALSE
PROPERTIES
    JustTheNotes
CHECK_DEADLOCK FALSE
