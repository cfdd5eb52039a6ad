CONSTANTS
    r1 = r1
    r2 = r2
    r3 = r3
    w1 = w1
    w2 = w2
    NullThread = NullThread
    Readers <- TwoReaders
    Writers <- TwoWriters
    Null <- NullThread
    QueueGuardHeldAcrossBlock = TRUE
SPECIFICATION Spec
PROPERTY WriterProgress
CHECK_DEADLOCK FALSE
