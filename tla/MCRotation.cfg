SPECIFICATION FairSpec
CONSTANTS
    a = a
    b = b
    c = c
    home = home
    far = far
    Unknown = Unknown
    Malformed = Malformed
    NoEndpoint = NoEndpoint
    Endpoints <- MCEndpoints
    Dead = {}
    Regions <- MCRegions
    Catalogs <- MCCatalogs
    MaxRestarts = 2
INVARIANTS
    SelectionIsBest
PROPERTIES
    EveryEndpointGetsItsTurn
