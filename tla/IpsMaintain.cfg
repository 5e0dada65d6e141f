SPECIFICATION Spec
CONSTANTS
    a = a
    b = b
    IpList <- MCIpList
    Tags = {v1, v2}
    None = None
    Pythons = {2, 3}
    UnknownIps = FALSE
    MaxCommit = 2
    MaxUser = 3
    MaxRuns = 3
CHECK_DEADLOCK FALSE
INVARIANT TypeOK
PROPERTIES RemovesOnlyClean StoredListReproduces PushesListedCommit
