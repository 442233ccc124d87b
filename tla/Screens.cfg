SPECIFICATION Spec
CONSTANTS
    NumCrtc = 2
    MaxScanouts = 2
    NumBo = 7
    NumWindow = 2
    NumPixmap = 4
    NumCmd = 1
    InitRect <- SideBySide
    RectChoices <- Halves
    Widths = {}
    Env = {"stack", "modeset", "unplug"}
    Faults = {"flip_copy", "page_flip"}
INVARIANTS
    ShowsLatest
    ReadsLatest
    BackBufferOffScreen
VIEW View
