SPECIFICATION Spec
CONSTANTS
    v1 = v1
    v2 = v2
    v3 = v3
    e1 = e1
    e2 = e2
    None = None
    Torn = Torn
    Versions <- MCVersions
    Endpoint <- MCEndpoint
    StorageFaults = {}
    MaxFaults = 1
INVARIANT ReadyMarksCompletePair
CHECK_DEADLOCK FALSE
