CONSTANTS
    r1 = r1
    r2 = r2
    r3 = r3
    w1 = w1
    w2 = w2
    NullThread = NullThread
    Readers <- ThreeReaders
    Writers <- TwoWriters
    Null <- NullThread
    QueueGuardHeldAcrossBlock = FALSE
SPECIFICATION Spec
INVARIANT TypeOK
INVARIANT RWExclusion
INVARIANT StatusMatchesHolders
INVARIANT WriterPreference
INVARIANT ListenerQueued
INVARIANT NoLostReadWakeup
PROPERTY WriterProgress
