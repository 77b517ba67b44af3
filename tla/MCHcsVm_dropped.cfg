SPECIFICATION Spec
CONSTANTS
    VM = {a}
    Path = {p}
    User = User
    Free = Free
    NumDisks = 1
    MaxFiles = 2
    MaxUserOps = 1
    MaxFaults = 1
    MAX_CLEANUP_ATTEMPTS = 3
    Policies = {"Error", "ReuseAndKeep"}
    Nics = {TRUE}
    UserRaces = FALSE
    DropsInFlight = TRUE
INVARIANT NoSilentLeak
