SPECIFICATION Spec
CONSTANTS
    NumCrtc = 2
    MaxScanouts = 2
    NumBo = 6
    NumWindow = 1
    NumPixmap = 2
    NumCmd = 2
    InitRect <- Cloned
    RectChoices <- JustL
    Widths = {}
    Env = {"overlap", "stack", "modeset", "destroy", "destroy_pending"}
    Faults = {"blit_copy", "blit_crtc", "flip_copy", "flip_crtc", "read_copy", "page_flip", "alloc"}
INVARIANT FlipsOnlyInFlipMode
PROPERTIES
    WaitReturns
    AnsweredOnce
CHECK_DEADLOCK FALSE
