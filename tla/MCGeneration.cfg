SPECIFICATION FairSpec
CONSTANTS
    None = None
    Timeout = 2
    Grace = 1
    Overrun = 2
    MaxAttempts = 2
    MaxExits = 1
INVARIANTS
    OneInvocationAtATime
    TokenIsOwn
    DeadlineIsShared
PROPERTIES
    AttemptEnds
    ExitedAreCollected
CHECK_DEADLOCK FALSE
