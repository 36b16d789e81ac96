CONSTANTS
    Rows <- MCRows
    MaxStamp = 3
    AskedSizes <- MCAskedSizes
    DefaultSize = 2
    LargestSize = 3
    MaxChanges = 2
SPECIFICATION FairSpec
CHECK_DEADLOCK FALSE
PROPERTY EveryListingEnds
