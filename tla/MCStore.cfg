SPECIFICATION FairSpec
CONSTANTS
    v1 = v1
    v2 = v2
    v3 = v3
    e1 = e1
    e2 = e2
    None = None
    Torn = Torn
    Versions <- MCVersions
    Endpoint <- MCEndpoint
    StorageFaults = {"resume", "start", "candidate", "mismatch", "reject"}
    MaxFaults = 3
INVARIANTS
    MixedPairIsJournaled
    ReadyHoldsOneVersion
PROPERTIES
    PublishIsAtomic
    PublishedFromJournal
    PendingKeptUntilSaved
    MixedPairIsRepaired
CHECK_DEADLOCK FALSE
