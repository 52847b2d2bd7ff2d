SPECIFICATION FairSpec
CONSTANTS
    v1 = v1
    v2 = v2
    v3 = v3
    None = None
    Incomplete = Incomplete
    Broken = Broken
    Versions <- MCVersions
    Bounds <- OneStorageErrorAndReload
PROPERTY GluetunComesUp
