CONSTANTS
    p1 = p1
    p2 = p2
    NoProc = NoProc
    Kernel <- MCKernel
    Proc <- MCProc
    Upstream <- MCUpstream
    MaxVersion <- MCMaxVersion
    MaxFaults <- MCMaxFaults
    MaxStarts <- MCMaxStarts

SPECIFICATION Spec

SYMMETRY Symmetry

INVARIANTS
    IndexFresh

PROPERTIES
    SkipIsCurrent
