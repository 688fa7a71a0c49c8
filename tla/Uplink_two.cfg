SPECIFICATION Spec
CONSTANTS
    b1 = b1
    b2 = b2
    f1 = f1
    f2 = f2
    s1 = s1
    s2 = s2
    Bus = {b1, b2}
    FrameID = {f1, f2}
    Signal = {s1, s2}
    Decodes <- MCDecodesTwo
    Latch <- MCLatchTwo
    CanRxCap = 2
    GpsRxCap = 1
    MaxFrames = 2
    MaxFixes = 1
INVARIANTS
    TypeOK
    Lossless
    SnapshotFaithful
PROPERTIES
    NeverOlder
    ImplementsLatchView
CHECK_DEADLOCK FALSE
