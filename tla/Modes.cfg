SPECIFICATION Spec
CONSTANTS
    NumCrtc = 1
    MaxScanouts = 2
    NumBo = 6
    NumWindow = 1
    NumPixmap = 2
    NumCmd = 2
    InitRect <- WholeScreen
    RectChoices <- HalvesAndWhole
    Widths = {}
    Env = {"stack", "move", "modeset", "unplug", "disable"}
    Faults = {"flip_copy", "page_flip"}
INVARIANTS
    Lit
    ValidFollowsMode
    FlipModeFrontIsSlot
PROPERTY FlipValidates
VIEW View
