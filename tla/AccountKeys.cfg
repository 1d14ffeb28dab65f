SPECIFICATION Spec
CONSTANTS
    Devices = {d1, d2}
    Ids = {i1}
    Values = {v1, v2}
    Passwords = {p1, p2}
    MaxBundles = 2
    MaxCodes = 2
SYMMETRY Symmetry
INVARIANTS
    TypeOK
    CredentialsOpenVault
    NothingSkipped
    SharesOpen
PROPERTIES
    KeepsPromises
CHECK_DEADLOCK FALSE
