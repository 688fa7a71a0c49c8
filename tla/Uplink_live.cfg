SPECIFICATION FairSpec
CONSTANTS
    b1 = b1
    b2 = b2
    f1 = f1
    f2 = f2
    s1 = s1
    s2 = s2
    Bus = {b1, b2}
    FrameID = {f1}
    Signal = {s1}
    Decodes <- MCDecodesLive
    Latch <- MCLatchLive
    CanRxCap = 1
    GpsRxCap = 1
    MaxFrames = 2
    MaxFixes = 2
PROPERTIES
    Fresh
CHECK_DEADLOCK FALSE
