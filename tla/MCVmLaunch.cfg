SPECIFICATION Spec
CONSTANTS
    Disk <- MCDisk
    Machines <- MCMachines
    Requests <- MCRequests
    ArtifactLen = 2
    MaxMishaps = 2
    MaxAttempts = 2
    MaxLaunches = 2
INVARIANTS
    ReadyMeansServing
    
    ObserverTellsOutcome
    OutputWholeOrUntouched
PROPERTIES
    DataKept
    LaunchEnds
