CONSTANTS
    Expected = 3
    MaxRefs = 1
    ReqFds = {r1, r2}
    OutBufs = {o1, o2}
    CapBufs = {0, 1}
    Stamps = {t1, t2, t3}
    Streams <- MCStreams
    Window = {3}
    Selections <- MCSelections
SPECIFICATION RunSpec
SYMMETRY MCSymmetry
VIEW MCView
INVARIANTS WritersAreTrue JoinIsTrue JoinedIsCollected
CHECK_DEADLOCK FALSE
