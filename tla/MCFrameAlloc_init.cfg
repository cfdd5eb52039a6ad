CONSTANTS
    t1 = t1
    t2 = t2
    Threads <- TwoThreads
    NumFrames <- ThreeFrames
    MaxReserve <- TwoReserve
    InitMarksEveryFrame = FALSE
    ScanFromCurrent = TRUE
SPECIFICATION Spec
INVARIANT FulfillSucceeds
