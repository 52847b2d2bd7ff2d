SPECIFICATION FairAttemptSpec
CONSTANTS
    Timeout = 2
    SocketTimeout = 1
    ResolverTime = 3
    Addresses = 1
    Limit = 1
    MaxRequests = 5
    Streams <- MCStreams
    Names = {"h", "g"}
    ServerNames = {"h", "g"}
    Secrets <- MCSecrets
    MaxLine = 3
    MaxChunk = 3
    NoName = "none"
    Nameless = "none"
    Unusable = "unusable"
    Addressed = {"ip1", "ip2"}
    Regions = {"r1", "r2"}
    Endpoint = "ip1"
    Selected = {"g"}
    Catalogs <- MCCatalogs
    NewKey = "new"
    Old = "old"
    Retained <- MCRetained
INVARIANTS
    AlarmStaysInside
    RequestIsBounded
    AcceptedIsWhole
    LinesAreWhole
    NameIsLastReported
    SecretsAreMasked
    AttemptTypeOK
    SavedIsRun
    DiscardedIsNotRun
PROPERTIES
    MetadataDescribesServer
    RecoveryEnds
