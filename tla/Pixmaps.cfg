SPECIFICATION Spec
CONSTANTS
    NumWindow = 1
    NumPixmap = 3
    MaxPlain = 1
    NumBo = 5
    NumSize = 2
    Env = {"redirect", "resize"}
    Failing <- MCFailing
INVARIANTS
    TypeOK
    PixmapsHeld
    BosReferenced
    KernelBuffers
    BosFit
    DrawsInBack
VIEW View
CHECK_DEADLOCK FALSE
