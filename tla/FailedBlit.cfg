SPECIFICATION Spec
CONSTANTS
    NumCrtc = 1
    MaxScanouts = 1
    NumBo = 5
    NumWindow = 1
    NumPixmap = 1
    NumCmd = 1
    InitRect <- LeftOnly
    RectChoices <- JustL
    Widths = {}
    Env = {"stack"}
    Faults = {"blit_crtc"}
INVARIANT NoDanglingBo
VIEW View
CHECK_DEADLOCK FALSE
