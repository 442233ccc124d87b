SPECIFICATION Spec
CONSTANTS
    Buffers <- MCBuffers
    Cpp = 2
INVARIANTS
    InBounds
    CopiesOverlap
CHECK_DEADLOCK FALSE
