CONSTANTS
    t1 = t1
    t2 = t2
    t3 = t3
    NullThread = NullThread
    Null <- NullThread
    Threads <- TwoThreads
    GuardLatchCleared = TRUE
SPECIFICATION Spec
INVARIANT WaiterNodeLive
