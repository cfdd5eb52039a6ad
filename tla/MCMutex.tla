------------------------------ MODULE MCMutex ------------------------------
EXTENDS Mutex, TLC

CONSTANTS t1, t2, t3, NullThread

\* Three threads: a holder, a waiter being handed the lock, and a third
\* that registers or calls tryLock during the handoff.
ThreeThreads == {t1, t2, t3}

\* Two threads suffice for the holder/waiter races.
TwoThreads == {t1, t2}
=============================================================================
