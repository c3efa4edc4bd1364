CONSTANTS
    Texts <- MCTexts
    MaxLines = 3
    MaxPlain = 4
SPECIFICATION FairSpec
INVARIANTS
    Idempotent
    OnlyIndents
    BalancedWithoutOpaque
PROPERTIES
    Ends
CHECK_DEADLOCK FALSE
