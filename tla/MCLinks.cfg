CONSTANTS
    Attempts = {a1, a2, a3}
    NoAttempt = NoAttempt
    MaxFaults = 2
SPECIFICATION Spec
SYMMETRY Symmetry
CHECK_DEADLOCK FALSE
INVARIANTS
    TypeOK
    OrdersBounded
    UnrecordedBounded
    RedeemedIsOrdered
