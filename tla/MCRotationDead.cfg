SPECIFICATION FairSpec
CONSTANTS
    a = a
    b = b
    c = c
    home = home
    far = far
    Unknown = Unknown
    Malformed = Malformed
    NoEndpoint = NoEndpoint
    Endpoints <- MCEndpoints
    Dead <- MCDead
    Regions <- MCRegions
    Catalogs <- MCOneRegion
    MaxRestarts = 2
PROPERTY EveryEndpointGetsItsTurn
