------------------------------- MODULE Mutex -------------------------------
(***************************************************************************)
(* The FIFO mutex of src/sync/mutex.rs: lock (slow and fast path), the     *)
(* non-blocking tryLock and the unlock that hands the lock to the first    *)
(* waiter, run by a set of kernel threads on one preemptive CPU.          *)
(*                                                                         *)
(* A mutex is two OwnedLocks (waitLock around the waitlist, mutexLock      *)
(* around the data) and the intrusive waitlist of WaitListNodes, each      *)
(* pinned on its thread's stack.  A thread has one such node per call of   *)
(* lock; the node is named by its thread, and hasLock[t] is the flag of   *)
(* the node at that stack slot (a later lock call reuses the slot).        *)
(*                                                                         *)
(* Preemption can happen between any two steps; a step is one atomic       *)
(* operation of an OwnedLock or a section run while holding waitLock      *)
(* whose effects no other thread can see before waitLock is released.     *)
(* A failed tryLock followed by yieldThread is a retry of the same step;   *)
(* whom the CPU is yielded to is the interleaving itself.                 *)
(***************************************************************************)
EXTENDS Naturals, Sequences

CONSTANTS Threads, Null, GuardLatchCleared

ASSUME Null \notin Threads

VQ == INSTANCE VariableQueue
OL == INSTANCE OwnedLock

VARIABLES
    pc,          \* where each thread is in lock / unlock
    waitLock,    \* Mutex::waitList, the OwnedLock status/owner/latch
    mutexLock,   \* Mutex::mutexLock
    waitList,    \* the MutexWaitList head and the links of the nodes
    hasLock,     \* WaitListNode::hasLock of the node on each stack
    nextRunner,  \* the waiter an unlocker has taken off the waitlist
    order        \* ghost: threads in the order they joined the waitlist

vars == <<pc, waitLock, mutexLock, waitList, hasLock, nextRunner, order>>

PCs == {"idle", "lock_wl", "lock_check", "lock_spin", "lock_got",
        "lock_remove_wl", "lock_remove", "cs",
        "ul_wl", "ul_check", "ul_transfer", "ul_signal"}

LockType == [status : BOOLEAN, owner : Threads \cup {Null},
             guardCreated : BOOLEAN]

TypeOK ==
    /\ pc \in [Threads -> PCs]
    /\ waitLock \in LockType
    /\ mutexLock \in LockType
    /\ waitList.front \in Threads \cup {Null}
    /\ waitList.back \in Threads \cup {Null}
    /\ waitList.inQ \in [Threads -> BOOLEAN]
    /\ hasLock \in [Threads -> BOOLEAN]
    \* nextRunner is the local reference of mutex.rs:256, a non-null
    \* &WaitListNode that exists only during the handoff.
    /\ \A t \in Threads :
         nextRunner[t] \in IF pc[t] \in {"ul_transfer", "ul_signal"}
                           THEN Threads ELSE {Null}
    /\ order \in Seq(Threads)

\* Mutex::new (mutex.rs:45-52).
Init ==
    /\ pc = [t \in Threads |-> "idle"]
    /\ waitLock = OL!NewOwnedLock
    /\ mutexLock = OL!NewOwnedLock
    /\ waitList = VQ!EmptyQueue(Threads)
    /\ hasLock = [t \in Threads |-> FALSE]
    /\ nextRunner = [t \in Threads |-> Null]
    /\ order = << >>

Goto(t, from, to) ==
    /\ pc[t] = from
    /\ pc' = [pc EXCEPT ![t] = to]

\* Drop the thread from the ghost arrival order.
Leave(s, t) == SelectSeq(s, LAMBDA x : x # t)

----------------------------------------------------------------------------
(* Mutants                                                                 *)

\* Registration at the front of the waitlist instead of the tail.
LockRegisterAtFront(t) ==
    /\ pc[t] = "lock_check"
    /\ LET r == OL!TryLock(mutexLock, t)
           empty == VQ!QTail(waitList) = Null
       IN  /\ ~(empty /\ r.ok)
           /\ mutexLock' = IF empty THEN r.lock ELSE mutexLock
    /\ waitList' = VQ!InsertFront(waitList, t)
    /\ waitLock' = OL!Release(waitLock)
    /\ order' = Append(order, t)
    /\ pc' = [pc EXCEPT ![t] = "lock_spin"]
    /\ UNCHANGED <<hasLock, nextRunner>>

\* The handoff that reads front_ptr again after the remove!, taking the
\* next waiter (or none) instead of the one removed.
UnlockHandOffFrontAfterRemove(t) ==
    /\ pc[t] = "ul_check"
    /\ VQ!QFront(waitList) # Null
    /\ LET q1 == VQ!Remove(waitList, VQ!QFront(waitList))
           nr == VQ!QFront(q1)
       IN  /\ waitList' = q1
           /\ nextRunner' = [nextRunner EXCEPT ![t] = nr]
           /\ order' = Leave(order, Head(order))
    /\ waitLock' = OL!Release(waitLock)
    /\ pc' = [pc EXCEPT ![t] = "ul_transfer"]
    /\ UNCHANGED <<mutexLock, hasLock>>

\* The handoff that keeps the waitlist guard (drop(waitList) of line 261
\* forgotten).
UnlockHandOffKeepsWaitLock(t) ==
    /\ pc[t] = "ul_check"
    /\ LET nr == VQ!QFront(waitList) IN
         /\ nr # Null
         /\ waitList' = VQ!Remove(waitList, nr)
         /\ nextRunner' = [nextRunner EXCEPT ![t] = nr]
         /\ order' = Leave(order, nr)
    /\ pc' = [pc EXCEPT ![t] = "ul_transfer"]
    /\ UNCHANGED <<waitLock, mutexLock, hasLock>>

\* The handoff signalled without transferring mutexLock to the waiter.
UnlockTransferSkipped(t) ==
    /\ Goto(t, "ul_transfer", "ul_signal")
    /\ UNCHANGED <<waitLock, mutexLock, waitList, hasLock, nextRunner, order>>

----------------------------------------------------------------------------
(* Mutex::lock (mutex.rs:113-188)                                          *)

\* A WaitListNode is built on the stack with hasLock false (114-121).
Lock(t) ==
    /\ Goto(t, "idle", "lock_wl")
    /\ hasLock' = [hasLock EXCEPT ![t] = FALSE]
    /\ UNCHANGED <<waitLock, mutexLock, waitList, nextRunner, order>>

\* OwnedLock::waitForLock on the waitlist lock (owned_lock.rs:102-141): a
\* failed tryLock yields and retries, so failure leaves t where it is.
WaitForWaitLock(t, from, to) ==
    /\ pc[t] = from
    /\ LET r == OL!TryLock(waitLock, t) IN
         /\ waitLock' = r.lock
         /\ pc' = [pc EXCEPT ![t] = IF r.ok THEN to ELSE from]
    /\ UNCHANGED <<mutexLock, waitList, hasLock, nextRunner, order>>

\* Waitlist empty and mutexLock taken: drop the waitlist lock and return
\* (125-133).
LockFast(t) ==
    /\ pc[t] = "lock_check"
    /\ VQ!QTail(waitList) = Null
    /\ LET r == OL!TryLock(mutexLock, t) IN
         /\ r.ok
         /\ mutexLock' = r.lock
    /\ waitLock' = OL!Release(waitLock)
    /\ pc' = [pc EXCEPT ![t] = "cs"]
    /\ UNCHANGED <<waitList, hasLock, nextRunner, order>>

\* Otherwise insert the node at the tail and drop the waitlist lock
\* (134-146).  The tryLock of line 129 is only evaluated, with its side
\* effects, when the waitlist is empty.
LockRegister(t) ==
    /\ pc[t] = "lock_check"
    /\ LET r == OL!TryLock(mutexLock, t)
           empty == VQ!QTail(waitList) = Null
       IN  /\ ~(empty /\ r.ok)
           /\ mutexLock' = IF empty THEN r.lock ELSE mutexLock
    /\ waitList' = VQ!InsertTail(waitList, t)
    /\ waitLock' = OL!Release(waitLock)
    /\ order' = Append(order, t)
    /\ pc' = [pc EXCEPT ![t] = "lock_spin"]
    /\ UNCHANGED <<hasLock, nextRunner>>

\* Try to take mutexLock, yielding to its holder on failure (153-166).
LockSpin(t) ==
    /\ pc[t] = "lock_spin"
    /\ LET r == OL!TryLock(mutexLock, t) IN
         /\ mutexLock' = r.lock
         /\ pc' = [pc EXCEPT ![t] = IF r.ok THEN "lock_got" ELSE "lock_spin"]
    /\ UNCHANGED <<waitLock, waitList, hasLock, nextRunner, order>>

\* Lock obtained: without hasLock the thread believes it stole the lock
\* and must remove itself from the waitlist (168-186).
LockGot(t) ==
    /\ pc[t] = "lock_got"
    /\ pc' = [pc EXCEPT ![t] = IF hasLock[t] THEN "cs" ELSE "lock_remove_wl"]
    /\ UNCHANGED <<waitLock, mutexLock, waitList, hasLock, nextRunner, order>>

\* remove! of its own node, then drop the waitlist lock (173-179).
LockRemove(t) ==
    /\ Goto(t, "lock_remove", "cs")
    /\ waitList' = VQ!Remove(waitList, t)
    /\ waitLock' = OL!Release(waitLock)
    /\ order' = Leave(order, t)
    /\ UNCHANGED <<mutexLock, hasLock, nextRunner>>

\* Mutex::tryLock (mutex.rs:190-200): succeeds only if the waitlist lock
\* is free, the waitlist empty and mutexLock free; the waitlist guard is
\* dropped in every case where it was obtained.
MutexTryLock(t) ==
    /\ pc[t] = "idle"
    /\ LET r1 == OL!TryLock(waitLock, t)
           empty == VQ!QTail(waitList) = Null
           r2 == OL!TryLock(mutexLock, t)
       IN  \/ /\ ~r1.ok
              /\ waitLock' = r1.lock
              /\ UNCHANGED <<pc, mutexLock>>
           \/ /\ r1.ok /\ ~(empty /\ r2.ok)
              /\ waitLock' = OL!Release(r1.lock)
              /\ mutexLock' = IF empty THEN r2.lock ELSE mutexLock
              /\ UNCHANGED pc
           \/ /\ r1.ok /\ empty /\ r2.ok
              /\ waitLock' = OL!Release(r1.lock)
              /\ mutexLock' = r2.lock
              /\ pc' = [pc EXCEPT ![t] = "cs"]
    /\ UNCHANGED <<waitList, hasLock, nextRunner, order>>

----------------------------------------------------------------------------
(* Drop for MutexGuard (mutex.rs:236-268)                                  *)

\* Leaving the critical section drops the guard.
Unlock(t) ==
    /\ Goto(t, "cs", "ul_wl")
    /\ UNCHANGED <<waitLock, mutexLock, waitList, hasLock, nextRunner, order>>

\* No waiter: release mutexLock, then the waitlist guard goes out of scope
\* (241-249).
UnlockRelease(t) ==
    /\ pc[t] = "ul_check"
    /\ VQ!QFront(waitList) = Null
    /\ mutexLock' = OL!Release(mutexLock)
    /\ waitLock' = OL!Release(waitLock)
    /\ pc' = [pc EXCEPT ![t] = "idle"]
    /\ UNCHANGED <<waitList, hasLock, nextRunner, order>>

\* A waiter: take the front node off the waitlist and drop the waitlist
\* lock (250-261).
UnlockHandOff(t) ==
    /\ pc[t] = "ul_check"
    /\ LET nr == VQ!QFront(waitList) IN
         /\ nr # Null
         /\ waitList' = VQ!Remove(waitList, nr)
         /\ nextRunner' = [nextRunner EXCEPT ![t] = nr]
         /\ order' = Leave(order, nr)
    /\ waitLock' = OL!Release(waitLock)
    /\ pc' = [pc EXCEPT ![t] = "ul_transfer"]
    /\ UNCHANGED <<mutexLock, hasLock>>

\* transferLockTo the waiter's thread (264).
UnlockTransfer(t) ==
    /\ Goto(t, "ul_transfer", "ul_signal")
    /\ mutexLock' = OL!TransferLockTo(mutexLock, nextRunner[t])
    /\ UNCHANGED <<waitLock, waitList, hasLock, nextRunner, order>>

\* Store true into the waiter's hasLock (265).
UnlockSignal(t) ==
    /\ Goto(t, "ul_signal", "idle")
    /\ hasLock' = [hasLock EXCEPT ![nextRunner[t]] = TRUE]
    /\ nextRunner' = [nextRunner EXCEPT ![t] = Null]
    /\ UNCHANGED <<waitLock, mutexLock, waitList, order>>

----------------------------------------------------------------------------

\* Everything a thread does once it is inside lock or unlock.
Step(t) ==
    \/ WaitForWaitLock(t, "lock_wl", "lock_check")
    \/ LockFast(t)
    \/ LockRegister(t)
    \/ LockSpin(t)
    \/ LockGot(t)
    \/ WaitForWaitLock(t, "lock_remove_wl", "lock_remove")
    \/ LockRemove(t)
    \/ Unlock(t)
    \/ WaitForWaitLock(t, "ul_wl", "ul_check")
    \/ UnlockRelease(t)
    \/ UnlockHandOff(t)
    \/ UnlockTransfer(t)
    \/ UnlockSignal(t)

Next == \E t \in Threads : Lock(t) \/ MutexTryLock(t) \/ Step(t)

\* Every thread the timer keeps preempting back in gets to run again, so a
\* thread that can continue inside lock or unlock eventually does; nobody
\* is obliged to call lock or tryLock.
Fairness == \A t \in Threads : WF_vars(Step(t))

Spec == Init /\ [][Next]_vars /\ Fairness

----------------------------------------------------------------------------
(* Properties                                                              *)

\* The thread is past a successful tryLock of mutexLock in lock, and has
\* not yet given it up in unlock.
Holds(t) ==
    pc[t] \in {"lock_got", "lock_remove_wl", "lock_remove", "cs",
               "ul_wl", "ul_check"}

\* Mutual exclusion, tied to the lock word: whoever holds the mutex is the
\* recorded owner of a set mutexLock, so no two threads hold it at once.
MutualExclusion ==
    \A t \in Threads : Holds(t) => mutexLock.status /\ mutexLock.owner = t

\* A thread spinning in lock for the mutex never faces a free mutexLock
\* that nobody will hand to it.  The comment of mutex.rs:99-104 expects a
\* waiter to find the mutex fully unlocked and steal it; this says the
\* unlock of lines 241-249 never releases the mutex under a waiter, so the
\* cleanup of lines 172-179 only runs in the window between the
\* transferLockTo and the hasLock store of lines 264-265.
NoStrandedWaiter ==
    \A t \in Threads : pc[t] = "lock_spin" => mutexLock.status

\* FIFO (spec section 4.4): the waiter an unlock hands the mutex to is the
\* one that joined the waitlist first among those still on it.
HandoffToOldest ==
    [][\A t \in Threads :
         (pc[t] = "ul_check" /\ pc'[t] = "ul_transfer")
            => order # << >> /\ nextRunner'[t] = Head(order)]_vars

\* A thread registered on the waitlist eventually owns the mutex.
QueuedWaiterEventuallyLocks ==
    \A t \in Threads : pc[t] = "lock_spin" ~> pc[t] = "cs"

\* A dropped MutexGuard eventually finishes unlocking.
UnlockReturns ==
    \A t \in Threads : pc[t] = "ul_wl" ~> pc[t] = "idle"

\* Spec section 5: the waker is done with a waiter's stack node before the
\* waiter resumes past its block point.  When the unlocker stores hasLock
\* (mutex.rs:265), the waiter is still inside lock.
WaiterNodeLive ==
    \A u \in Threads :
        pc[u] = "ul_signal" =>
            pc[nextRunner[u]] \in {"lock_spin", "lock_got", "lock_remove_wl",
                                   "lock_remove"}
=============================================================================
