SPECIFICATION Spec
CONSTANTS
    a = a
    b = b
    c = c
    pulp = pulp
    fork = fork
    inhouse = inhouse
    master = master
    hash = hash
    None = None
    Names <- MCNames
    Groups <- MCGroups
    Commits <- MCCommits
    DefaultGroup = pulp
    Github <- MCGithub
    RootList <- MCRootList
    Served <- MCServed
    RecursionLimit = 4
CHECK_DEADLOCK FALSE
INVARIANTS
    TypeOK
    DepsClosed
    BottomUp
    AskedOnConflict
