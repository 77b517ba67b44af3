SPECIFICATION Spec
CONSTANTS
    MAX_BOOT_CONFIG_FRAME = 23
    MAX_AUTH_FRAME = 32
    MAX_COMMAND_FRAME = 32
    MAX_DNS_SERVERS = 2
    MAX_DISKS = 2
    MAX_MOUNT_PATH_BYTES = 2
    MAX_BOOTSTRAP_ARGS = 2
    MAX_BOOTSTRAP_STRING_BYTES = 10
    MAX_BOOTSTRAP_ARTIFACT_BYTES = 4
    ADDRESS_BITS = 4
    NAT_DNS_SERVERS = 1
    Roots = {"C:"}
    Vhdx = {"a.vhdx", "b.vhdx", "c.vhdx"}
    Directories <- MCDirectories
    Plans <- MCPlans
    Results <- MCResults
    Other <- MCOther
    Noise = {0, 1, 2}
    Runs <- AllRuns
    Launches <- MCLaunches
    MAX_CAPTURE_LIMIT = 6
    PipeCapacity = 1
    LinkCapacity = 2
    MaxMishaps = 0
CHECK_DEADLOCK FALSE
INVARIANT WaitHasNoTimeout
