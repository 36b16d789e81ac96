CONSTANTS
    Rows <- MCRows
    MaxStamp = 3
    AskedSizes <- MCAskedSizes
    DefaultSize = 2
    LargestSize = 3
    MaxChanges = 2
SPECIFICATION Spec
CHECK_DEADLOCK FALSE
INVARIANTS
    CursorIsExact
    OffsetDrifts
