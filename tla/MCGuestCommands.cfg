SPECIFICATION FairSpec
CONSTANTS
    p1 = p1
    Process = {p1}
    File = {}
    None = None
    MaxGuestConnections = 3
    MaxMishaps = 1
    Permits = 1
    WaitPermits = 1
    Capacity = 1
INVARIANTS
    NoRequestLost
    FinishedMeansGone
    CleanupBeforeShutdown
    NoWakeupLost
PROPERTIES
    ShutdownCompletes
    ProcessesReclaimed
