---------------------------- MODULE AbstractRWLock ----------------------------
(***************************************************************************)
(* What the reader/writer lock of src/sync/rwlock.rs promises (spec 4.6):  *)
(* any number of ReadGuards or one WriteGuard at a time, and a WriteGuard  *)
(* that can be downgraded to a ReadGuard without letting a writer in.     *)
(* The RWLock module implements it (RWLock!RefinesAbstractRWLock); the     *)
(* ThreadCollection module uses it as the lock of a collection.            *)
(***************************************************************************)
CONSTANTS Threads, Null

VARIABLES
    readers,   \* the threads holding a ReadGuard
    writer     \* the thread holding the WriteGuard, or Null

lockVars == <<readers, writer>>

Init == readers = {} /\ writer = Null

\* lockRead returns a ReadGuard.
AcquireRead(t) ==
    /\ writer = Null /\ t \notin readers
    /\ readers' = readers \cup {t}
    /\ UNCHANGED writer

\* lockWrite returns a WriteGuard.
AcquireWrite(t) ==
    /\ writer = Null /\ readers = {}
    /\ writer' = t
    /\ UNCHANGED readers

\* A ReadGuard is dropped.
ReleaseRead(t) ==
    /\ t \in readers
    /\ readers' = readers \ {t}
    /\ UNCHANGED writer

\* A WriteGuard is dropped.
ReleaseWrite(t) ==
    /\ writer = t
    /\ writer' = Null
    /\ UNCHANGED readers

\* downgradeRWLock: the WriteGuard becomes a ReadGuard in one step.
Downgrade(t) ==
    /\ writer = t
    /\ writer' = Null
    /\ readers' = {t}

Next ==
    \E t \in Threads :
        \/ AcquireRead(t) \/ AcquireWrite(t)
        \/ ReleaseRead(t) \/ ReleaseWrite(t) \/ Downgrade(t)

Spec == Init /\ [][Next]_lockVars
=============================================================================
