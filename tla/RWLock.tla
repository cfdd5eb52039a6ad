------------------------------- MODULE RWLock -------------------------------
(***************************************************************************)
(* The reader/writer lock of src/sync/rwlock.rs, composed with the two     *)
(* condition variables of src/sync/cond.rs it waits on.                    *)
(*                                                                         *)
(* Readers call lockRead and drop the ReadGuard; writers call lockWrite,   *)
(* and drop the WriteGuard or downgrade it to a ReadGuard.  The status     *)
(* Mutex is an atomic lock held by statusOwner (its own protocol is        *)
(* checked in the Mutex module).  A cond wait is the four steps of         *)
(* waitForCond: take the queue mutex and register (CondEnter), sleep in    *)
(* blockUntil until the flag is set (CondWake; the Scheduler module checks *)
(* that a signalled waiter runs again), re-lock the user mutex and return  *)
(* (CondRelock).  A guard drop that signals keeps the status mutex until   *)
(* the cond call is over (Signal).                                         *)
(***************************************************************************)
EXTENDS Naturals, FiniteSets

CONSTANTS Readers, Writers, Null, QueueGuardHeldAcrossBlock

ASSUME Readers \cap Writers = {} /\ Null \notin Readers \cup Writers

Threads == Readers \cup Writers

CV == INSTANCE Cond

Conds == {"canRead", "canWrite"}

VARIABLES
    pc,           \* where each thread is
    statusOwner,  \* holder of the status Mutex, or Null
    readerCount,  \* RWLockStatus::readerCount
    wwait,        \* RWLockStatus::writerWaitlistSize
    mode,         \* RWLockStatus::mode
    cond,         \* canRead and canWrite, as Cond values
    wake,         \* doNotDeschedule of each thread's QueueNode
    sig,          \* the cond call a guard drop is making, and where it returns
    waitedOn      \* ghost: writers waiting when a reader took the status mutex

vars == <<pc, statusOwner, readerCount, wwait, mode, cond, wake, sig, waitedOn>>

PCs == {"idle", "r_check", "w_check", "cw_enter", "cw_block", "cw_relock",
        "reading", "writing", "dg_drop", "sig"}

\* The cond a thread waits on, and the loop test it goes back to.
CondOf(t) == IF t \in Readers THEN "canRead" ELSE "canWrite"
CheckOf(t) == IF t \in Readers THEN "r_check" ELSE "w_check"

\* Writers counted in writerWaitlistSize: inside lockWrite, past line 108.
WaitingWriters ==
    {w \in Writers : pc[w] \in {"w_check", "cw_enter", "cw_block", "cw_relock"}}

\* Threads holding a ReadGuard (a downgraded writer included) or a
\* WriteGuard.
HoldsRead(t) ==
    \/ pc[t] \in {"reading", "dg_drop"}
    \/ pc[t] = "sig" /\ sig[t].ret = "reading"
Readings == {t \in Threads : HoldsRead(t)}
Writings == {t \in Threads : pc[t] = "writing"}

TypeOK ==
    /\ pc \in [Threads -> PCs]
    /\ statusOwner \in Threads \cup {Null}
    /\ readerCount \in Nat /\ wwait \in Nat
    /\ mode \in {"Read", "Write"}
    /\ \A c \in Conds : cond[c].owner \in Threads \cup {Null}
    /\ wake \in [Threads -> BOOLEAN]
    /\ waitedOn \in [Readers -> SUBSET Writers]

\* No cond call under way.
NoCall == [cv |-> "canRead", all |-> FALSE, ret |-> "idle"]

\* RWLock::new (48-59) and Cond::new for both conds.
Init ==
    /\ pc = [t \in Threads |-> "idle"]
    /\ statusOwner = Null
    /\ readerCount = 0 /\ wwait = 0 /\ mode = "Read"
    /\ cond = [c \in Conds |-> CV!NewCond(Threads)]
    /\ wake = [t \in Threads |-> FALSE]
    /\ sig = [t \in Threads |-> NoCall]
    /\ waitedOn = [r \in Readers |-> {}]

\* status.lock() can return: the status mutex is free.
StatusFree == statusOwner = Null

----------------------------------------------------------------------------
(* Mutants                                                                 *)

\* lockRead's loop test without the write-mode half.
ReadCheckIgnoresMode(t) ==
    /\ pc[t] = "r_check"
    /\ IF wwait > 0
       THEN /\ pc' = [pc EXCEPT ![t] = "cw_enter"]
            /\ UNCHANGED <<statusOwner, readerCount, mode>>
       ELSE /\ readerCount' = readerCount + 1
            /\ mode' = "Read"
            /\ statusOwner' = Null
            /\ pc' = [pc EXCEPT ![t] = "reading"]
    /\ UNCHANGED <<wwait, cond, wake, sig, waitedOn>>

\* WriteGuard drop that leaves the mode at Write.
WriteGuardDropKeepsMode(t, from, ret) ==
    /\ pc[t] = from
    /\ StatusFree /\ statusOwner' = t
    /\ sig' = [sig EXCEPT ![t] =
                 IF wwait > 0 THEN [cv |-> "canWrite", all |-> FALSE, ret |-> ret]
                 ELSE [cv |-> "canRead", all |-> TRUE, ret |-> ret]]
    /\ pc' = [pc EXCEPT ![t] = "sig"]
    /\ UNCHANGED <<readerCount, wwait, mode, cond, wake, waitedOn>>

\* downgradeRWLock that forgets to count the new reader.
DowngradeNoCount(t) ==
    /\ pc[t] = "writing"
    /\ StatusFree
    /\ mode' = "Read"
    /\ pc' = [pc EXCEPT ![t] = "dg_drop"]
    /\ UNCHANGED <<statusOwner, readerCount, wwait, cond, wake, sig, waitedOn>>

\* lockRead's loop test without the writer-waitlist half.
ReadCheckIgnoresWaitlist(t) ==
    /\ pc[t] = "r_check"
    /\ IF mode = "Write"
       THEN /\ pc' = [pc EXCEPT ![t] = "cw_enter"]
            /\ UNCHANGED <<statusOwner, readerCount, mode>>
       ELSE /\ readerCount' = readerCount + 1
            /\ mode' = "Read"
            /\ statusOwner' = Null
            /\ pc' = [pc EXCEPT ![t] = "reading"]
    /\ UNCHANGED <<wwait, cond, wake, sig, waitedOn>>

----------------------------------------------------------------------------
(* lockRead and lockWrite (79-120)                                         *)

\* lockRead, line 80: the status mutex is taken.
ReadLock(t) ==
    /\ t \in Readers /\ pc[t] = "idle"
    /\ StatusFree /\ statusOwner' = t
    /\ pc' = [pc EXCEPT ![t] = "r_check"]
    /\ waitedOn' = [waitedOn EXCEPT ![t] = WaitingWriters]
    /\ UNCHANGED <<readerCount, wwait, mode, cond, wake, sig>>

\* lockRead, 87-96: wait on canRead while a writer writes or waits, else
\* count the reader in and return the guard (the status guard drops).
ReadCheck(t) ==
    /\ pc[t] = "r_check"
    /\ IF mode = "Write" \/ wwait > 0
       THEN /\ pc' = [pc EXCEPT ![t] = "cw_enter"]
            /\ UNCHANGED <<statusOwner, readerCount, mode>>
       ELSE /\ readerCount' = readerCount + 1
            /\ mode' = "Read"
            /\ statusOwner' = Null
            /\ pc' = [pc EXCEPT ![t] = "reading"]
    /\ UNCHANGED <<wwait, cond, wake, sig, waitedOn>>

\* lockWrite, 101-108: the status mutex is taken and the writer counted.
WriteLock(t) ==
    /\ t \in Writers /\ pc[t] = "idle"
    /\ StatusFree /\ statusOwner' = t
    /\ wwait' = wwait + 1
    /\ pc' = [pc EXCEPT ![t] = "w_check"]
    /\ UNCHANGED <<readerCount, mode, cond, wake, sig, waitedOn>>

\* lockWrite, 110-119: wait on canWrite while anyone writes or reads, else
\* leave the waitlist and take write mode.
WriteCheck(t) ==
    /\ pc[t] = "w_check"
    /\ IF mode = "Write" \/ readerCount > 0
       THEN /\ pc' = [pc EXCEPT ![t] = "cw_enter"]
            /\ UNCHANGED <<statusOwner, wwait, mode, waitedOn>>
       ELSE /\ wwait' = wwait - 1
            /\ mode' = "Write"
            /\ statusOwner' = Null
            /\ pc' = [pc EXCEPT ![t] = "writing"]
            /\ waitedOn' = [r \in Readers |-> waitedOn[r] \ {t}]
    /\ UNCHANGED <<readerCount, cond, wake, sig>>

----------------------------------------------------------------------------
(* waitForCond (cond.rs:124-172), on the thread's cond                    *)

\* 126-144: take the queue mutex, queue the node with its flag false,
\* release the status mutex.
CondEnter(t) ==
    /\ pc[t] = "cw_enter"
    /\ CV!QueueFree(cond[CondOf(t)])
    /\ cond' = [cond EXCEPT ![CondOf(t)] = CV!Register(@, t)]
    /\ wake' = [wake EXCEPT ![t] = FALSE]
    /\ statusOwner' = Null
    /\ pc' = [pc EXCEPT ![t] = "cw_block"]
    /\ UNCHANGED <<readerCount, wwait, mode, sig, waitedOn>>

\* 163-164: blockUntil returns once the flag is set.
CondWake(t) ==
    /\ pc[t] = "cw_block" /\ wake[t]
    /\ pc' = [pc EXCEPT ![t] = "cw_relock"]
    /\ UNCHANGED <<statusOwner, readerCount, wwait, mode, cond, wake, sig, waitedOn>>

\* 171-172: mutex.lock(), then the queue guard drops on return; back to
\* the caller's loop test.
CondRelock(t) ==
    /\ pc[t] = "cw_relock"
    /\ StatusFree /\ statusOwner' = t
    /\ cond' = [cond EXCEPT ![CondOf(t)] = CV!Finish(@, t)]
    /\ wake' = [wake EXCEPT ![t] = FALSE]
    /\ pc' = [pc EXCEPT ![t] = CheckOf(t)]
    /\ UNCHANGED <<readerCount, wwait, mode, sig, waitedOn>>

----------------------------------------------------------------------------
(* Guard drops and downgrade (152-199)                                     *)

\* Drop for ReadGuard (154-164): one reader fewer; the last one signals
\* canWrite before the status guard drops.
ReadUnlock(t) ==
    /\ pc[t] = "reading"
    /\ StatusFree
    /\ statusOwner' = IF readerCount - 1 = 0 THEN t ELSE Null
    /\ readerCount' = readerCount - 1
    /\ IF readerCount - 1 = 0
       THEN /\ pc' = [pc EXCEPT ![t] = "sig"]
            /\ sig' = [sig EXCEPT ![t] = [cv |-> "canWrite", all |-> FALSE, ret |-> "idle"]]
       ELSE /\ pc' = [pc EXCEPT ![t] = "idle"]
            /\ UNCHANGED sig
    /\ UNCHANGED <<wwait, mode, cond, wake, waitedOn>>

\* Drop for WriteGuard (169-184), returning to ret: read mode, then signal
\* one waiting writer, or broadcast to the readers if none waits.
WriteGuardDrop(t, from, ret) ==
    /\ pc[t] = from
    /\ StatusFree /\ statusOwner' = t
    /\ mode' = "Read"
    /\ sig' = [sig EXCEPT ![t] =
                 IF wwait > 0 THEN [cv |-> "canWrite", all |-> FALSE, ret |-> ret]
                 ELSE [cv |-> "canRead", all |-> TRUE, ret |-> ret]]
    /\ pc' = [pc EXCEPT ![t] = "sig"]
    /\ UNCHANGED <<readerCount, wwait, cond, wake, waitedOn>>

WriteUnlock(t) == WriteGuardDrop(t, "writing", "idle")

\* downgradeRWLock (192-199): count the writer as a reader in read mode
\* under the status mutex; the consumed WriteGuard then drops (DowngradeDrop).
Downgrade(t) ==
    /\ pc[t] = "writing"
    /\ StatusFree
    /\ readerCount' = readerCount + 1
    /\ mode' = "Read"
    /\ pc' = [pc EXCEPT ![t] = "dg_drop"]
    /\ UNCHANGED <<statusOwner, wwait, cond, wake, sig, waitedOn>>

DowngradeDrop(t) == WriteGuardDrop(t, "dg_drop", "reading")

\* The cond call of a guard drop (signalCond or broadcastCond): take the
\* queue mutex, signal, drop the queue guard, then the status guard.
Signal(t) ==
    /\ pc[t] = "sig"
    /\ CV!QueueFree(cond[sig[t].cv])
    /\ LET r == IF sig[t].all THEN CV!BroadcastCond(cond[sig[t].cv])
                ELSE CV!SignalCond(cond[sig[t].cv])
       IN  /\ cond' = [cond EXCEPT ![sig[t].cv] = r.cond]
           /\ wake' = [u \in Threads |-> wake[u] \/ u \in r.woken]
    /\ statusOwner' = Null
    /\ pc' = [pc EXCEPT ![t] = sig[t].ret]
    /\ sig' = [sig EXCEPT ![t] = NoCall]
    /\ UNCHANGED <<readerCount, wwait, mode, waitedOn>>

Next ==
    \E t \in Threads :
        \/ ReadLock(t) \/ ReadCheck(t) \/ WriteLock(t) \/ WriteCheck(t)
        \/ CondEnter(t) \/ CondWake(t) \/ CondRelock(t)
        \/ ReadUnlock(t) \/ WriteUnlock(t) \/ Downgrade(t) \/ DowngradeDrop(t)
        \/ Signal(t)

\* What a thread does once it has called into the lock, or holds a guard
\* that it will drop.  Each step but CondWake waits only for a mutex that
\* is free again and again; the Mutex hands a released lock to its oldest
\* waiter (HandoffToOldest), so a waiting thread is not passed over
\* forever: strong fairness.
Step(t) ==
    \/ ReadCheck(t) \/ WriteCheck(t)
    \/ CondEnter(t) \/ CondWake(t) \/ CondRelock(t)
    \/ ReadUnlock(t) \/ WriteUnlock(t) \/ DowngradeDrop(t)
    \/ Signal(t)

Fairness == \A t \in Threads : SF_vars(Step(t))

Spec == Init /\ [][Next]_vars /\ Fairness

----------------------------------------------------------------------------
(* Properties                                                              *)

\* Readers and a writer never hold the lock together, and writers hold it
\* one at a time, whatever the interleaving of lock calls, cond waits,
\* wakeups that find the condition false again, and downgrades.
RWExclusion ==
    /\ Cardinality(Writings) <= 1
    /\ Writings # {} => Readings = {}

\* The status record matches the threads: readerCount is the number of
\* ReadGuards, writerWaitlistSize the number of writers inside lockWrite,
\* and the mode is Write exactly while a WriteGuard is held.
StatusMatchesHolders ==
    /\ readerCount = Cardinality(Readings)
    /\ wwait = Cardinality(WaitingWriters)
    /\ (mode = "Write") <=> (Writings # {})

\* Spec 4.6 and section 8, writer preference: a reader that took the
\* status mutex while a writer was waiting does not get a ReadGuard before
\* that writer has had its WriteGuard.
WriterPreference ==
    \A r \in Readers : HoldsRead(r) => waitedOn[r] = {}

\* A listener's node is on its cond's queue (and reachable through its
\* links) exactly while the listener sleeps with its flag unset: signal and
\* broadcast remove every node they wake, and a node is queued only by its
\* own waiter.
ListenerQueued ==
    \A c \in Conds, t \in Threads :
        LET q == cond[c].queue IN
        (q.inQ[t] /\ t \in CV!VQ!Reachable(q))
            <=> (CondOf(t) = c /\ pc[t] = "cw_block" /\ ~wake[t])

\* No reader sleeps on canRead without someone bound to broadcast it: a
\* writer writes or waits, or a WriteGuard drop is on its way to its cond
\* call.
NoLostReadWakeup ==
    \A r \in Readers :
        (pc[r] = "cw_block" /\ ~wake[r]) =>
            \/ mode = "Write" \/ wwait > 0
            \/ \E w \in Writers : pc[w] = "dg_drop"
            \/ \E w \in Writers : pc[w] = "sig" /\ sig[w].cv = "canRead"

\* A writer waiting in lockWrite means some writer eventually writes: the
\* last ReadGuard drop and every WriteGuard drop signal canWrite.
WriterProgress == (WaitingWriters # {}) ~> (Writings # {})
=============================================================================
