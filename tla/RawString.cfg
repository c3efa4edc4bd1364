CONSTANTS
    Texts <- RawTexts
    MaxLines = 3
    MaxPlain = 4
SPECIFICATION FairSpec
INVARIANT RawStringsKept
CHECK_DEADLOCK FALSE
