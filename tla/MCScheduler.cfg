CONSTANTS
    t1 = t1
    t2 = t2
    t3 = t3
    NullThread = NullThread
    Threads <- ThreeThreads
    Null <- NullThread
    GuardLatchCleared = TRUE
    DescheduleAdvancesInline = TRUE
    GuardDisablesInterrupts = TRUE
SPECIFICATION Spec
INVARIANT TypeOK
INVARIANT ScheduledIffInRing
INVARIANT CursorInRing
INVARIANT RunningIsScheduled
PROPERTY WokenThreadRuns
