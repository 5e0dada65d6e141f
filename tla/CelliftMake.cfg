SPECIFICATION MakeSpec
CONSTANTS
    Raise = Raise
    NoModule = NoModule
    None = None
    Targets = {"vanilla", "cellift", "glift"}
    Pickled <- MCPickled
    ToRemove <- MCToRemove
    Builds <- MCBuilds
    Failing <- Scripts
    Recompiles = TRUE
    MaxEdits = 2
    MaxRuns = 2
INVARIANTS
    TypeOK
    MadeIsWellFormed
    MadeIsCurrent
CHECK_DEADLOCK FALSE
