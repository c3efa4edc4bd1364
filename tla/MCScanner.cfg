CONSTANTS
    Sources <- MCSources
    MaxInterior = 5
    MaxPieces = 4
    MaxMentions = 3
SPECIFICATION FairSpec
INVARIANTS
    TilesSource
    SentinelsUnique
    LiteralsMaximal
    NoHiddenDelimiter
    BlockRegions
    StandaloneAlone
    IInv
PROPERTIES
    Partitions
    Returns
CHECK_DEADLOCK FALSE
