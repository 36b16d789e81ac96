CONSTANTS
    Tenants = {t1, t2}
    Creations = {c1, c2, c3}
    Removals = {d1, d2, d3}
    Nothing = Nothing
    MaxFaults = 2
SPECIFICATION Spec
SYMMETRY Symmetry
CHECK_DEADLOCK FALSE
INVARIANTS
    TypeOK
    AnswersAgree
    OrphansBounded
    StaleBounded
    RemovalsHold
