SPECIFICATION FairSpec
CONSTANTS
    Task = {t1, t2}
    Observer = {o1, o2}
    MaxConcurrent = 1
    Graces = {TRUE, FALSE}
    Deadlines = {t1}
INVARIANTS
    CapRespected
    FinishedMeansEnded
PROPERTIES
    OutcomesKept
    CancelFinishes
    WaitReturns
