SPECIFICATION Spec
CONSTANTS
    a = a
    b = b
    c = c
    d = d
    Urls <- MCUrls
    SurfaceOf <- MCSurfaceOf
    MaxMoves = 1
    MaxClicks = 3
    MaxFaults = 1
INVARIANT
    FetchButtonWorks
CHECK_DEADLOCK FALSE
