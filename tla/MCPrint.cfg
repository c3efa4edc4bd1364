CONSTANTS
    Sources <- MCSources
    MaxTags = 3
    MaxNested = 5
    MaxWords = 3
SPECIFICATION Spec
INVARIANTS
    PrintedParses
    SameTree
    Stable
PROPERTIES
    TrimReach
CHECK_DEADLOCK FALSE
