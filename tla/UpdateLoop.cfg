SPECIFICATION Spec
CONSTANTS
    NumCrtc = 3
    MaxScanouts = 2
    NumBo = 5
    RectChoices <- MCRects
    CanFail = TRUE
INVARIANTS
    TypeOK
    LoopComputesUpdate
    CountsHolders
    LookupKept
PROPERTY
    Terminates
CHECK_DEADLOCK FALSE
