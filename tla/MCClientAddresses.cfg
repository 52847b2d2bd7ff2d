SPECIFICATION RequestSpec
CONSTANTS
    Timeout = 2
    SocketTimeout = 3
    ResolverTime = 0
    Addresses = 2
    Limit = 1
    MaxRequests = 1
INVARIANT TotalDeadline
