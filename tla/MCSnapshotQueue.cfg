SPECIFICATION FairSpec
CONSTANTS
    Observer = {o1, o2}
    Allocation = {a1, a2}
    Generation = {1}
    Length = {345600}
    Policy = {"coherent-model", "cached"}
    Run = {mine}
    MyRun = mine
    None = None
    MaxAllocations = 2
    MaxPins = 2
    MaxJobs = 2
    MaxSnapshots = 1
INVARIANTS
    SnapshotTrue
PROPERTIES
    SnapshotEnds
CHECK_DEADLOCK FALSE
