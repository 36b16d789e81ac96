CONSTANTS
    s1 = s1
    Subs = {s1}
    Deliveries = {d1}
    SubOf <- MCSubOf
    Calls = {r1, r2}
    Workers = {w1, w2}
    Null = Null
    MaxAttempts = 2
    MaxSecrets = 3
    MaxRetries = 2
    MaxCrashes = 1
SPECIFICATION Spec
CONSTRAINT Focus
SYMMETRY Symmetry
CHECK_DEADLOCK FALSE
INVARIANTS
    TypeOK
    RowFollowsAnswers
    AttemptsAreKept
    RepeatsBounded
    RetryHolds
