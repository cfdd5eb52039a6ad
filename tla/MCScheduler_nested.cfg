CONSTANTS
    t1 = t1
    t2 = t2
    t3 = t3
    NullThread = NullThread
    Threads <- TwoThreads
    Null <- NullThread
    GuardLatchCleared = TRUE
    DescheduleAdvancesInline = FALSE
    GuardDisablesInterrupts = TRUE
SPECIFICATION Spec
INVARIANT NoScheduleSelfWait
