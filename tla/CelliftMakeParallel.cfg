SPECIFICATION MakeSpec
CONSTANTS
    Raise = Raise
    NoModule = NoModule
    None = None
    Targets = {"cellift", "glift"}
    Pickled <- MCPickled
    ToRemove <- MCToRemove
    Builds <- ParallelBuilds
    Failing <- Scripts
    Recompiles = FALSE
    MaxEdits = 2
    MaxRuns = 2
INVARIANTS
    MadeIsWellFormed
CHECK_DEADLOCK FALSE
