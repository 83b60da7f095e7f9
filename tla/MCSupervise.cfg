CONSTANTS
    Pictures <- MCPictures
    First <- MCFirst
    Last <- MCLast
    MaxRun <- MCMaxRun
    MaxContext <- MCMaxContext

SPECIFICATION FairSpec

INVARIANTS
    AcceptedIsComplete
    DecodesUnderCapture

PROPERTIES
    ClearedOnlyDurable
    Returns
    ChildEnds

CHECK_DEADLOCK FALSE
