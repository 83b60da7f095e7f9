CONSTANTS
    Ids = {0, 1, 2, 3, 4, 5, 6, 7, 8, 9}
    Contents <- MCContents
    Fits <- MCFits
    None = None
    Letters <- MCLetters
    Slices <- MCSlices
    MaxSets = 4
    MaxSlices = 2
    Flood = 3
SPECIFICATION FixSpec
CHECK_DEADLOCK FALSE
INVARIANTS
    UsesNewest
    FixturesPass
    OrderIrrelevant
    NewestKept
