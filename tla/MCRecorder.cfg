SPECIFICATION Spec
CONSTANTS
    c1 = c1
    c2 = c2
    NoCtx = NoCtx
    Ctx = {c1, c2}
    Pid = {1, 2}
    Pictures = 2
    First = 2
    Last = 2
    Capacity = 5
    MaxRun = 2
    MaxContext = 2
    MaxJobs = 3
    MaxAttempted = 6
SYMMETRY Symmetry
INVARIANTS
    CleanSealIsComplete
    CleanSealIsWhole
    PinnedUnchanged
