SPECIFICATION Spec
CONSTANTS
    Others <- MCOthers
    Failing = {"access", "copy", "blit"}
INVARIANTS
    CountsAccesses
    KernelAgrees
    OnlyLandingMovesBo
    OnlyLandingAsserts
CHECK_DEADLOCK FALSE
