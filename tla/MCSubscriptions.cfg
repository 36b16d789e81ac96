CONSTANTS
    Charges = {c1, c2}
    NoCharge = NoCharge
    Attempts = {a1, a2}
    Workers = {w1, w2}
    MaxFaults = 1
SPECIFICATION Spec
SYMMETRY Symmetry
CONSTRAINT Focus
CHECK_DEADLOCK FALSE
INVARIANTS
    TypeOK
    EffectsBounded
    ChargesAreRecorded
    EndIsMirrored
PROPERTY KeepsPromise
