CONSTANTS
    Calls = {c1, c2, c3}
    Notices = {n1}
    Limit = 1
    Minute = 2
    Ttl = 3
    MaxDelay = 1
    MaxNow = 3
    MaxRetries = 1
SPECIFICATION FairSpec
CONSTRAINT Focus
CHECK_DEADLOCK FALSE
INVARIANTS
    WithinLimits
    ShutdownLosesNothing
PROPERTY ShutdownEnds
