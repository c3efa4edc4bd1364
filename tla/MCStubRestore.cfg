CONSTANTS
    Tilings <- MCTilings
    Gofumpt <- MCGofumpt
    MaxSlices = 3
SPECIFICATION FairSpec
INVARIANTS
    IInv
    VerifiedRestores
    EachSliceOnce
    GoTextKept
    AdjacentStayAdjacent
    VerbatimKept
    AlignedRoundTrip
PROPERTIES
    Ends
CHECK_DEADLOCK FALSE
