SPECIFICATION FairSpec
CHECK_DEADLOCK FALSE
CONSTANTS
    MaxImage = 2
    MaxKills = 3
    MaxBreaks = 1
    MaxSaves = 1
INVARIANTS
    HealthyIsPrepared
    SavedIsReused
PROPERTIES
    GluetunStartsOnValidPair
    SavedPairIsServed
