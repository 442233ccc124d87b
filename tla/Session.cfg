CONSTANTS
    NumSection = 2
    NumCrtc = 2
    NumOutput = 1
    MaxGen = 2
    MaxProps = 2
    Values = {v1, v2}
    Junk = junk
    Ignored = {1}
    Unhandled = {}
    Failing <- MCFailing
SPECIFICATION SessionSpec
INVARIANTS
    TypeOK
    HeldAtRest
    HooksWhileUp
    MasterWithVT
    FreedOnce
    AnswerIsReal
    HotplugSeen
PROPERTY
    QueryEnds
CHECK_DEADLOCK FALSE
