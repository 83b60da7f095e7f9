CONSTANTS
    Vectors <- MCVectors
    Rows <- MCRows
    MaxStarts <- MCMaxStarts

SPECIFICATION FairSpec

INVARIANTS
    CompleteIsWhole
    StopsAtFirst
    RunsAgree

PROPERTIES
    NoRecovery
    WorkerEnds

CHECK_DEADLOCK FALSE
