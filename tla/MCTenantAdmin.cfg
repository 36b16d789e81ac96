CONSTANTS
    Calls = {r1, r2}
    Names = {n1}
    FeeMessages <- MCFeeMessages
    Keys = {k1, k2, k3}
    Accounts = {a1}
    Logos = {l1}
    Null = Null
    Unset = Unset
SPECIFICATION Spec
SYMMETRY Symmetry
CHECK_DEADLOCK FALSE
INVARIANTS
    TypeOK
    RetiredKeysStayDead
    AnsweredKeysHold
PROPERTIES
    ColumnsChangeByRequest
    DeletionIsFinal
