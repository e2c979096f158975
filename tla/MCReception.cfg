CONSTANTS
    Frames <- MCFrames
    SockBuffer = 2
    MaxStops = 1
    Logging = TRUE
    AgeCheck = TRUE
    DENMs = TRUE
SPECIFICATION FairSpec
INVARIANTS
    TypeOK
    FramesJudged
    
    StopDrains
PROPERTY StopHeard
CHECK_DEADLOCK FALSE
