SPECIFICATION FairSpec
CONSTANTS
    N_CONTEXT = 2
    Cores = {c1, c2}
    Values = {zero, v1}
    Zero = zero
    NoValue = NoValue
    NoCore = NoCore
    JobIds = 4
INVARIANTS
    TypeOK
    OffloadIsExclusive
    PendingWithinContexts
    StatusMarksPending
    JobIdsNameJobs
    FinishedCounterMissesOne
PROPERTIES
    ImplementsJobQueue
    JobsEnd
