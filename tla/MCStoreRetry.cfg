SPECIFICATION Spec
CONSTANTS
    v1 = v1
    v2 = v2
    v3 = v3
    e1 = e1
    e2 = e2
    None = None
    Torn = Torn
    Versions <- MCVersions
    Endpoint <- MCEndpoint
    StorageFaults = {"resolve"}
    MaxFaults = 2
INVARIANT InterruptedSaveCanBeFinished
CHECK_DEADLOCK FALSE
