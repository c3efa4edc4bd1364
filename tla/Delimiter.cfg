CONSTANTS
    Tilings <- MCTilings
    Gofumpt <- Faithful
    MaxSlices = 2
SPECIFICATION Spec
INVARIANT NoNewDelimiter
CHECK_DEADLOCK FALSE
