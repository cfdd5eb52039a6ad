---------------------------- MODULE MCScheduler ----------------------------
EXTENDS Scheduler

CONSTANTS t1, t2, t3, NullThread

ThreeThreads == {t1, t2, t3}
TwoThreads == {t1, t2}
=============================================================================
