CONSTANTS
    b1 = b1
    b2 = b2
    b3 = b3
    p1 = p1
    p2 = p2
    Builder = {b1, b2, b3}
    Process <- MCProcess
    Nobody = Nobody
    Names = {"modules", "k"}
    BzImages = {7, 8}
    NestedTars <- NoNested
    MAX_SYMLINK_RESOLUTION_DEPTH = 4
    Tars <- MCTars
    Sources <- MCSources
    Scenarios <- HardlinkScenarios
    References <- MCReferences
    Dotted = {"registry-1.docker.io"}
    Components = {"img", "library", "team"}
    Tags = {"latest", "old"}
    Documents <- MCDocuments
    LinkKind <- MCLinkKind
    LinkSize <- MCLinkSize
    BodySize <- MCBodySize
    Arch = "amd64"
    U32 = 10
    MAX_CONFIG_BYTES = 5
    CATALOG_TOML <- MCCatalog
    DEFAULT_CONFIG <- MCDefaultConfig
    DEFAULT_KERNEL <- MCDefaultKernel
    Requested <- MCRequested
    Compiler <- MCCompiler
    DEFAULT_HOST = "registry-1.docker.io"
    MaxMishaps = 2
SPECIFICATION Spec
INVARIANT SharedBodySurvives
