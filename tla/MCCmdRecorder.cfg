SPECIFICATION Spec
CONSTANTS
    c1 = c1
    c2 = c2
    NoCtx = NoCtx
    Ctx = {c1, c2}
    Pid = {1, 2}
    Pictures = 3
    First = 2
    Last = 3
    Words = 5
    Site = {SCL_OFF}
    SCL_OFF = SCL_OFF
    MaxRun = 2
    MaxContext = 3
    MaxPushed = 8
    MaxPictures = 4
SYMMETRY Symmetry
VIEW View
INVARIANTS
    CleanWindowIsWhole
