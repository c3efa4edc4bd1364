CONSTANTS
    Sources <- MCSources
    Depths = {0, 1}
    Gofumpt <- MCGofumpt
    MaxTokens = 2
    MaxPieces = 3
    MaxBody = 2
SPECIFICATION FairSpec
INVARIANTS
    BlocksBalanced
    SameSlices
    StructureKept
    LinesOnlyLag
PROPERTIES
    Ends
CHECK_DEADLOCK FALSE
