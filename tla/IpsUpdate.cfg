SPECIFICATION FairSpec
CONSTANTS
    a = a
    b = b
    own = own
    fork = fork
    other = other
    Branch = Branch
    None = None
    Torn = Torn
    Ips <- MCIps
    Remotes <- MCRemotes
    IpLists <- MCIpLists
    NoSrcFiles = {}
    MaxCommit = 2
    MaxUser = 1
    MaxCrash = 1
INVARIANTS
    TypeOK
    NoErrorMeansCurrent
    LaunchedFindsPaths
    ReferencedScriptsExist
PROPERTIES
    NoWorkLost
    RunTerminates
