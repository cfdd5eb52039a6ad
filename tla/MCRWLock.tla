----------------------------- MODULE MCRWLock -----------------------------
EXTENDS RWLock

CONSTANTS r1, r2, r3, w1, w2, NullThread

TwoReaders == {r1, r2}
TwoWriters == {w1, w2}
ThreeReaders == {r1, r2, r3}
=============================================================================
