----------------------------- MODULE Scheduler -----------------------------
(***************************************************************************)
(* The run ring of src/thread/scheduler.rs and the context switches of     *)
(* src/thread/context_switch.rs on one CPU, driven by threads that block   *)
(* in blockUntil (as waitForCond does), wake each other (as                *)
(* signalAndRemoveQueueNode does), yield to a given thread (as the lock    *)
(* spins do) and are preempted by the timer.                               *)
(*                                                                         *)
(* Only the current thread cur takes steps.  With GuardDisablesInterrupts *)
(* the timer may preempt only where no guard is alive (Tick), as spec 4.2 *)
(* intends; scheduleThread's lock and body are then two steps with no     *)
(* tick between them.  The ring is a                                      *)
(* VariableQueue value on the scheduleLink slot; next is the cursor;       *)
(* schedLock the OwnedLock of the Schedule.                                *)
(*                                                                         *)
(* The guard as written only counts (disable_interrupts.rs:15-49): the    *)
(* refCount == 0 branch of its drop is empty and nothing ever clears the   *)
(* interrupt flag.  GuardDisablesInterrupts = TRUE is the guard spec 4.2   *)
(* describes; FALSE is the code, in which the timer can fire inside any    *)
(* guarded region, the signaler's scheduleThread included.                 *)
(*                                                                         *)
(* descheduleThread (115-128) calls getNextThread while it holds the       *)
(* schedule lock; getNextThread takes the lock again and its wait          *)
(* function spins.  DescheduleAdvancesInline = FALSE is that code;         *)
(* TRUE advances the cursor under the lock already held, as spec 4.7       *)
(* describes ("if this was next, advance next").                          *)
(***************************************************************************)
EXTENDS Naturals

CONSTANTS Threads, Null, GuardLatchCleared, DescheduleAdvancesInline,
          GuardDisablesInterrupts

ASSUME Null \notin Threads /\ DescheduleAdvancesInline \in BOOLEAN
       /\ GuardDisablesInterrupts \in BOOLEAN

VQ == INSTANCE VariableQueue
OL == INSTANCE OwnedLock

VARIABLES
    cur,        \* _currentThread
    pc,         \* where each thread is
    ring,       \* ScheduleInner::queue with the scheduleLink of every TCB
    next,       \* ScheduleInner::next
    scheduled,  \* ThreadBlock::scheduled
    schedLock,  \* the Schedule's OwnedLock
    waiting,    \* the thread's QueueNode is on a cond queue
    wake,       \* QueueNode::doNotDeschedule of the thread's node
    target      \* the node a signaler has removed and is scheduling

vars == <<cur, pc, ring, next, scheduled, schedLock, waiting, wake, target>>

PCs == {"run", "pre_block", "signal_sched", "signal_locked", "block_check", "block_desched",
        "block_yield", "sched_spin"}

\* Interrupts are enabled: no DisabledInterruptsGuard is alive.
InterruptsOn == {"run", "pre_block", "signal_sched"}

\* Where the timer can fire: disableInterrupts and the guard's drop
\* (disable_interrupts.rs:15-49) only count, so unless the guard is taken
\* to work, everywhere but the ISR's own spin.
Preemptible ==
    IF GuardDisablesInterrupts THEN InterruptsOn ELSE PCs \ {"sched_spin"}

\* Inside waitForCond, between registering and returning.
Blocking == {"pre_block", "block_check", "block_desched", "block_yield"}

TypeOK ==
    /\ cur \in Threads
    /\ pc \in [Threads -> PCs]
    /\ ring.front \in Threads \cup {Null}
    /\ next \in Threads \cup {Null}
    /\ scheduled \in [Threads -> BOOLEAN]
    /\ waiting \in [Threads -> BOOLEAN]
    /\ wake \in [Threads -> BOOLEAN]
    /\ target \in [Threads -> Threads \cup {Null}]

\* One thread runs and is the only one scheduled, as after
\* scheduleThread(c) on an empty Schedule (80-100); every other thread is
\* descheduled inside waitForCond, its node on a cond queue.
Init ==
    /\ cur \in Threads
    /\ pc = [t \in Threads |-> IF t = cur THEN "run" ELSE "block_check"]
    /\ ring = VQ!InsertTail(VQ!EmptyQueue(Threads), cur)
    /\ next = cur
    /\ scheduled = [t \in Threads |-> t = cur]
    /\ schedLock = OL!NewOwnedLock
    /\ waiting = [t \in Threads |-> t # cur]
    /\ wake = [t \in Threads |-> FALSE]
    /\ target = [t \in Threads |-> Null]

----------------------------------------------------------------------------
(* Scheduler functions, as operators on the ring and cursor                *)

\* The cursor step of getNextThread (60-71): from n to its successor on
\* scheduleLink, or to the front when there is none (or no cursor).
Advance(r, n) ==
    IF n = Null \/ r.next[n] = Null THEN VQ!QFront(r) ELSE r.next[n]

\* scheduleThread (80-100) on the ring once the flag swap succeeded: the
\* first thread is tail-inserted and becomes next, any later one is
\* inserted right after next.
RingWith(r, n, u) ==
    IF n = Null THEN VQ!InsertTail(r, u) ELSE VQ!InsertAfter(r, n, u)

\* Mutant: a descheduleThread that leaves the cursor on the removed thread.
CursorAfterNoAdvance(r, n, t) == n

\* The cursor after descheduleThread removed t (118-122): getNextThread's
\* advance, read from t's own links, which remove leaves in place.
CursorAfter(r, n, t) == IF n = t THEN Advance(r, t) ELSE n

----------------------------------------------------------------------------
(* Mutants                                                                 *)

\* yieldThreadWithoutInterrupts without the None check of line 68.
BlockYieldNoNoneCheck(t) ==
    /\ t = cur /\ pc[t] = "block_yield"
    /\ LET r == next IN
         /\ next' = Advance(ring, next)
         /\ cur' = IF r = Null \/ scheduled[r] THEN r ELSE cur
    /\ schedLock' = OL!Release(OL!TryLock(schedLock, t).lock)
    /\ pc' = [pc EXCEPT ![t] = "block_check"]
    /\ UNCHANGED <<ring, scheduled, waiting, wake, target>>

\* blockUntil with "if" for "while": it returns after one yield.
BlockYieldThenReturn(t) ==
    /\ t = cur /\ pc[t] = "block_yield"
    /\ LET r == next IN
         /\ next' = Advance(ring, next)
         /\ cur' = IF r # Null /\ scheduled[r] THEN r ELSE cur
    /\ schedLock' = OL!Release(OL!TryLock(schedLock, t).lock)
    /\ pc' = [pc EXCEPT ![t] = "run"]
    /\ UNCHANGED <<ring, scheduled, waiting, wake, target>>

\* signalAndRemoveQueueNode that sets doNotDeschedule but never calls
\* scheduleThread.
SignalScheduleSkipped(t) ==
    /\ t = cur /\ pc[t] = "signal_locked"
    /\ schedLock' = OL!Release(schedLock)
    /\ pc' = [pc EXCEPT ![t] = "run"]
    /\ target' = [target EXCEPT ![t] = Null]
    /\ UNCHANGED <<cur, ring, next, scheduled, waiting, wake>>

\* descheduleThread that clears the flag but leaves the thread on the ring.
DescheduleKeepsRing(t) ==
    /\ t = cur /\ pc[t] = "block_desched"
    /\ scheduled' = [scheduled EXCEPT ![t] = FALSE]
    /\ schedLock' = IF scheduled[t]
                     THEN OL!Release(OL!TryLock(schedLock, t).lock)
                     ELSE schedLock
    /\ pc' = [pc EXCEPT ![t] = "block_yield"]
    /\ UNCHANGED <<cur, ring, next, waiting, wake, target>>

----------------------------------------------------------------------------
(* Steps of the current thread                                             *)

\* A timer tick where the timer can fire: yieldThread(None) (59-62,
\* 65-75, 81-91) through getNextThread.  If the interrupted thread holds
\* the schedule lock, getSchedule's wait (scheduler.rs:47-49) finds it
\* owned, with its guard alive, and spins without yielding, in a handler
\* nothing can preempt.
Tick(t) ==
    /\ t = cur /\ pc[t] \in Preemptible
    /\ LET l == OL!TryLock(schedLock, t) IN
       IF l.ok
       THEN /\ next' = Advance(ring, next)
            /\ cur' = IF next # Null /\ scheduled[next] THEN next ELSE cur
            /\ schedLock' = OL!Release(l.lock)
            /\ UNCHANGED pc
       ELSE /\ pc' = [pc EXCEPT ![t] = "sched_spin"]
            /\ UNCHANGED <<cur, next, schedLock>>
    /\ UNCHANGED <<ring, scheduled, waiting, wake, target>>

\* yieldThread(Some(u)) (59-62, 81-91), as the lock spins yield to the
\* owner: a switch only if u is scheduled; the cursor is not touched.
YieldTo(t, u) ==
    /\ t = cur /\ pc[t] = "run" /\ u # t
    /\ scheduled[u]
    /\ cur' = u
    /\ UNCHANGED <<pc, ring, next, scheduled, schedLock, waiting, wake, target>>

\* waitForCond up to blockUntil (cond.rs:124-144): node registered with
\* doNotDeschedule false, user mutex released.
Wait(t) ==
    /\ t = cur /\ pc[t] = "run"
    /\ waiting' = [waiting EXCEPT ![t] = TRUE]
    /\ wake' = [wake EXCEPT ![t] = FALSE]
    /\ pc' = [pc EXCEPT ![t] = "pre_block"]
    /\ UNCHANGED <<cur, ring, next, scheduled, schedLock, target>>

\* signalAndRemoveQueueNode, first part (cond.rs:185-206): remove u's node
\* and send_signal.
Signal(t, u) ==
    /\ t = cur /\ pc[t] = "run"
    /\ waiting[u]
    /\ waiting' = [waiting EXCEPT ![u] = FALSE]
    /\ wake' = [wake EXCEPT ![u] = TRUE]
    /\ target' = [target EXCEPT ![t] = u]
    /\ pc' = [pc EXCEPT ![t] = "signal_sched"]
    /\ UNCHANGED <<cur, ring, next, scheduled, schedLock>>

\* scheduleThread(u), called at cond.rs:209: getSchedule (80-81).
SignalLock(t) ==
    /\ t = cur /\ pc[t] = "signal_sched"
    /\ schedLock' = OL!TryLock(schedLock, t).lock
    /\ pc' = [pc EXCEPT ![t] = "signal_locked"]
    /\ UNCHANGED <<cur, ring, next, scheduled, waiting, wake, target>>

\* The rest of scheduleThread(u) (83-100): fails if u is still scheduled,
\* else sets the flag and links u into the ring; the guard drops.
SignalSchedule(t) ==
    /\ t = cur /\ pc[t] = "signal_locked"
    /\ LET u == target[t] IN
         IF scheduled[u]
         THEN UNCHANGED <<ring, next, scheduled>>
         ELSE /\ scheduled' = [scheduled EXCEPT ![u] = TRUE]
              /\ ring' = RingWith(ring, next, u)
              /\ next' = IF next = Null THEN u ELSE next
    /\ schedLock' = OL!Release(schedLock)
    /\ target' = [target EXCEPT ![t] = Null]
    /\ pc' = [pc EXCEPT ![t] = "run"]
    /\ UNCHANGED <<cur, waiting, wake>>

\* blockUntil's test of the flag (cond.rs:163-164, scheduler.rs:150-153).
BlockCheck(t) ==
    /\ t = cur /\ pc[t] \in {"pre_block", "block_check"}
    /\ pc' = [pc EXCEPT ![t] = IF wake[t] THEN "run" ELSE "block_desched"]
    /\ UNCHANGED <<cur, ring, next, scheduled, schedLock, waiting, wake, target>>

\* descheduleThread(self) (115-128): if the swap finds the flag set, take
\* the schedule lock, remove t from the ring and, if t is next, move the
\* cursor on.  In the code the move is a nested getNextThread, whose
\* getSchedule finds the lock owned by this thread with its guard alive
\* and spins for good (owned_lock.rs:129-134).
BlockDeschedule(t) ==
    /\ t = cur /\ pc[t] = "block_desched"
    /\ IF scheduled[t]
       THEN LET r1 == OL!TryLock(schedLock, t)
                ring1 == VQ!Remove(ring, t)
                nested == next = t /\ ~DescheduleAdvancesInline
            IN  /\ scheduled' = [scheduled EXCEPT ![t] = FALSE]
                /\ ring' = ring1
                /\ IF nested
                   THEN /\ schedLock' = OL!TryLock(r1.lock, t).lock
                        /\ pc' = [pc EXCEPT ![t] = "sched_spin"]
                        /\ UNCHANGED next
                   ELSE /\ next' = CursorAfter(ring1, next, t)
                        /\ schedLock' = OL!Release(r1.lock)
                        /\ pc' = [pc EXCEPT ![t] = "block_yield"]
       ELSE /\ pc' = [pc EXCEPT ![t] = "block_yield"]
            /\ UNCHANGED <<ring, next, scheduled, schedLock>>
    /\ UNCHANGED <<cur, waiting, wake, target>>

\* yieldThreadWithoutInterrupts(None) (65-75): getNextThread (57-74), then
\* yieldThreadTo (81-91) if it returned a scheduled thread; back to the
\* flag test of blockUntil's loop either way.
BlockYield(t) ==
    /\ t = cur /\ pc[t] = "block_yield"
    /\ LET r == next IN
         /\ next' = Advance(ring, next)
         /\ cur' = IF r # Null /\ scheduled[r] THEN r ELSE cur
    /\ schedLock' = OL!Release(OL!TryLock(schedLock, t).lock)
    /\ pc' = [pc EXCEPT ![t] = "block_check"]
    /\ UNCHANGED <<ring, scheduled, waiting, wake, target>>

\* The steps the CPU must go on taking once a thread is inside a
\* scheduler call.
Continue(t) ==
    \/ SignalLock(t)
    \/ SignalSchedule(t)
    \/ BlockCheck(t)
    \/ BlockDeschedule(t)
    \/ BlockYield(t)

Next ==
    \E t \in Threads :
        \/ Tick(t)
        \/ \E u \in Threads : YieldTo(t, u)
        \/ Wait(t)
        \/ \E u \in Threads : Signal(t, u)
        \/ Continue(t)

\* The timer keeps firing while interrupts are enabled.  A thread the CPU
\* is given again and again gets to take its next scheduler step: a timer
\* period is far longer than one such step, so a thread switched to is not
\* always preempted before it takes one.
Fairness ==
    /\ WF_vars(Tick(cur))
    /\ \A t \in Threads : SF_vars(Continue(t))

Spec == Init /\ [][Next]_vars /\ Fairness

----------------------------------------------------------------------------
(* Properties                                                              *)

\* Spec 4.7: a thread's scheduled flag is set exactly when it is on the run
\* ring, across flag swaps, inserts after the cursor and removals.
ScheduledIffInRing ==
    \A t \in Threads :
        scheduled[t] <=> (ring.inQ[t] /\ t \in VQ!Reachable(ring))

\* The cursor is on the ring whenever the ring is not empty, and null only
\* when it is; getNextThread never hands out a descheduled thread's stale
\* position.
CursorInRing ==
    IF VQ!QFront(ring) = Null THEN next = Null
    ELSE next \in VQ!Reachable(ring)

\* A thread running outside the scheduler's blocking loop is scheduled:
\* blockUntil only returns to its caller through a flag set by a signaler,
\* whose scheduleThread put the thread back.
RunningIsScheduled ==
    pc[cur] \in InterruptsOn => scheduled[cur]

\* Spec 4.5, scenario 6: a waiter whose doNotDeschedule was set is
\* eventually running its caller's code again, whether the signal came
\* before or after it descheduled itself.
WokenThreadRuns ==
    \A t \in Threads :
        (wake[t] /\ pc[t] \in Blocking) ~> (pc[t] = "run" /\ cur = t)

\* The CPU never spins on the schedule lock held by its own thread, whether
\* through descheduleThread's nested getNextThread or a timer interrupt
\* landing while a scheduler call holds the lock.
NoScheduleSelfWait ==
    \A t \in Threads : pc[t] # "sched_spin"
=============================================================================
