CONSTANTS
    t1 = t1
    t2 = t2
    t3 = t3
    NullThread = NullThread
    Null <- NullThread
    Threads <- ThreeThreads
    GuardLatchCleared = TRUE
SPECIFICATION Spec
INVARIANT TypeOK
INVARIANT MutualExclusion
INVARIANT NoStrandedWaiter
PROPERTY HandoffToOldest
PROPERTY QueuedWaiterEventuallyLocks
PROPERTY UnlockReturns
