SPECIFICATION Spec
CONSTANTS
    FailureSeconds = 2
    Cooldowns = {2, 7}
    Interval = 1
    MaxDelay = 5
    ProbeTime = 1
    RecoverTime = 1
    MaxTime = 18
    NoTime = NoTime
INVARIANTS
    OutageIsAnswered
PROPERTIES
    AttemptsAreSpaced
    AttemptNeedsOutage
    DelayDoublesToOneHour
CHECK_DEADLOCK FALSE
