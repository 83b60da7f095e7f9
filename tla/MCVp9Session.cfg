CONSTANTS
    b1 = b1
    b2 = b2
    NoBuf = NoBuf
    Buf <- MCBuf
    Size <- MCSize
    OutputSize <- MCOutputSize
    Backing <- MCBacking
    BitDepth <- MCBitDepth
    TS_SCALE <- MCTsScale
    MaxSlots <- MCMaxSlots
    MaxGeneration <- MCMaxGeneration
    MaxTs <- MCMaxTs

SPECIFICATION Spec

SYMMETRY Symmetry

INVARIANTS
    SlotsAgree
    LookupHits

PROPERTIES
    TimestampStable

CHECK_DEADLOCK FALSE
