CONSTANTS
    Sources <- MCSources
    Depths = {0, 1}
    Gofumpt <- MCGofumpt
    MaxTokens = 0
    MaxPieces = 2
    MaxBody = 1
SPECIFICATION FairSpec
INVARIANTS
    ParsedTiles
CHECK_DEADLOCK FALSE
