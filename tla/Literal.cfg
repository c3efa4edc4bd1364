CONSTANTS
    Templates <- MCTemplates
    Data <- MCData
    MaxRounds = 2
    MaxRemoved = 2
    MaxRegions = 2
    MaxLines = 4
    Margin = 1
    MaxSlices = 3
SPECIFICATION Spec
INVARIANTS
    MapsToLiteral
CHECK_DEADLOCK FALSE
