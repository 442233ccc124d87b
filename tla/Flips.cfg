SPECIFICATION Spec
CONSTANTS
    NumCrtc = 2
    MaxScanouts = 2
    NumBo = 9
    NumWindow = 2
    NumPixmap = 3
    NumCmd = 2
    InitRect <- Cloned
    RectChoices <- HalvesAndWhole
    Widths = {1,2}
    Env = {"overlap", "destroy", "destroy_pending", "regenerate","modeset","clone","resize"}
    Faults = {"page_flip"}
INVARIANTS
    TypeOK
    EventsMatchSwapCount
    PendingFlipsCounts
    RefsCountHolders
    NoDanglingBo
VIEW View
