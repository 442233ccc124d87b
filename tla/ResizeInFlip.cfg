SPECIFICATION Spec
CONSTANTS
    NumCrtc = 1
    MaxScanouts = 1
    NumBo = 5
    NumWindow = 1
    NumPixmap = 1
    NumCmd = 1
    InitRect <- LeftOnly
    RectChoices <- JustL
    Widths = {1,2}
    Env = {"resize","resize_flip"}
    Faults = {}
INVARIANT FlipModeFrontIsSlot
VIEW View
CHECK_DEADLOCK FALSE
