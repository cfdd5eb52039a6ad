# TLA+ models of the 410OS.rs kernel

This directory holds TLA+ models of the synchronisation and memory layers of
the kernel in `src/`. It also holds the TLC configurations that check them.
Every module is translated from the Rust source. Comments name the lines each
definition stands for, and `PROJECT.json` ("map") lists them.

## The system

The kernel runs kernel threads on a single preemptive CPU. The timer can
switch threads between any two instructions unless interrupts are
disabled. Its parts, from the bottom up:

| Part | Source | State | Operations |
|---|---|---|---|
| Intrusive queue | `variable_queue.rs` | `Head` (front, back); a `Link` (next, prev, in_queue) embedded in each element | insert_front/tail/after/before, remove, iter |
| Interrupt guard | `sync/disable_interrupts.rs` | per-thread nesting counter | disableInterrupts, guard drop (counting only) |
| OwnedLock | `sync/owned_lock.rs` | status flag, owner pointer, guardCreated latch | tryLock, waitForLock(With), transferLockTo, guard drop |
| Mutex | `sync/mutex.rs` | an OwnedLock around the waitlist; an OwnedLock around the data; waiter nodes on the waiters' stacks, each with a `hasLock` flag | lock, tryLock, guard drop (handoff) |
| Condition variable | `sync/cond.rs` | Mutex around a queue of stack nodes, each with `doNotDeschedule` | waitForCond, signalCond, broadcastCond |
| RWLock | `sync/rwlock.rs` | Mutex around (readerCount, writerWaitlistSize, mode); two condition variables | lockRead, lockWrite, guard drops, downgrade |
| Scheduler | `thread/scheduler.rs` | OwnedLock around the run ring (a queue on `scheduleLink`) and the `next` cursor; a `scheduled` flag per thread | getNextThread, scheduleThread, descheduleThread, blockUntil |
| Context switch | `thread/context_switch.rs`, `thread/continuation.rs` | current thread, saved continuations | yieldThread, yieldThreadTo, continueThread |
| Thread blocks | `thread.rs`, `thread/*.rs` | TCBs with three links, handles, active/free collections | insertThread, removeThread, lookups |
| Frame allocator | `vm/frame_alloc.rs` | Mutex around (region, currFrame, bytesFree); FREE bits in page entries | init, allocFrame, freeFrame, reserve/unreserve, fulfillReservedFrame |
| Virtual memory | `virtual_memory.rs`, `vm/*.rs` | page directory, tables, entry flag bits | map/free page and range, lookups, validation |
| Byte helpers | `byte_utils.rs` | none (pure functions over a word) | CONST_BIT_RANGE, TRIM_BITS, FILTER_BIT_RANGE, GET_BIT_RANGE, GET_BIT |
| Heap wrappers, hardware | `malloc_wrappers.rs`, `registers.rs`, `idt_entry.rs`, `kernel.rs` | none of their own | wrappers around external code and hardware |

How the parts interact:

- The Mutex is built from two OwnedLocks and an intrusive queue of waiter
  nodes. The scheduler is guarded by an OwnedLock whose wait function does
  not yield.
- The condition variable uses a Mutex for its queue. It blocks through the
  scheduler's `blockUntil`, and the signaler wakes the waiter with
  `scheduleThread`.
- The RWLock is a Mutex plus two condition variables.
- The frame allocator is protected by a Mutex. Virtual memory takes frames
  from the frame allocator.

## Hard behaviours

These come from the code, not from tests:

- The waiter nodes of the mutex and the condition variable live on the
  waiters' stacks. The waker must be done with a node before its owner
  returns.
- OwnedLock's `tryLock` is an xchg followed by an owner store. A latch
  (`guardCreated`) is meant to stop a second guard.
- A mutex handoff is a chain of steps: pop the waiter, drop the waitlist
  lock, transfer ownership, store `hasLock`. The waiter spins concurrently
  and reads `hasLock` when its tryLock succeeds.
- The interrupt guard disables nothing, so the scheduler lock can be held
  across a preemption.
- The allocator's reservation counter and its free bits can drift apart
  (partial failure, skipped frame, double free).
- A cond waiter is queued, releases the user mutex and blocks in three
  steps; a signal can fall between any two of them.
- A directory's mappings and the frames it holds can drift apart when one
  step of a map fails after another has succeeded.

`PROJECT.json` ("hazards") lists each one at its line. For each it gives the
properties that catch it, or why none does yet.

## Modules

| Module | Models |
|---|---|
| `VariableQueue` | The queue as pure operators over a value `[front, back, next, prev, inQ]`. There is one operator per `Head` method, written in the code's order of writes, including the insert_tail prev bug at line 134. `Walk` follows the next links, like `iter`. |
| `QueueMachine` | A state machine that applies the macros (`insert_front!` ...) to a queue per link slot. |
| `OwnedLock` | The lock as operators over `[status, owner, guardCreated]`: `TryLock`, `Release` (guard drop), `TransferLockTo`. The constant `GuardLatchCleared` picks the latch as written (never cleared, `FALSE`) or as intended (cleared when the guard ends, `TRUE`). |
| `Mutex` | Threads running `lock`, `tryLock` and the guard drop over one mutex. `pc[t]` records where thread `t` is. `waitLock` and `mutexLock` are the two OwnedLocks. `waitList` is a `VariableQueue` value over the threads' stack nodes, and `hasLock[t]` is the flag of `t`'s node. `nextRunner[t]` is the waiter an unlocker has popped. `order` is a ghost variable: the waitlist in insertion order. |
| `FrameAlloc` | The frame allocator over a region of `NumFrames` frames: `free` is the PAGE_FREE bit of each frame, `bytesFree` and `currFrame` are the allocator's fields (bytes counted in frames). Each function is one step, because it holds the allocator's Mutex for its whole body; `allocFrame` is two steps (`AllocReserve`, `AllocFulfill`) since it takes the mutex twice. `held` and `reserved` are ghost records of what each caller holds. The scan is the recursive `ScanFrom`. The constants `InitMarksEveryFrame` and `ScanFromCurrent` choose the code as written (`FALSE`) or spec 4.8 (`TRUE`) for the two defects. |
| `Scheduler` | One CPU: `cur` is `_currentThread`, and only `cur` takes steps. `ring` is a `VariableQueue` value on `scheduleLink`, `next` is the cursor, `scheduled` the per-thread flag and `schedLock` the schedule's OwnedLock. `waiting` and `wake` are each thread's cond node (on a queue, and `doNotDeschedule`); `target` is the node a signaler is rescheduling. `Tick` is a timer preemption (`yieldThread(None)`). It may occur at the points in `Preemptible`: only where no guard is alive when `GuardDisablesInterrupts` is `TRUE` (spec 4.2), and anywhere when it is `FALSE` (the code: the guard only counts). A tick that finds the schedule lock held by the interrupted thread spins in the handler (`sched_spin`). The actions are `Tick`, `YieldTo`, `Wait` (waitForCond up to blockUntil), `Signal`, then `SignalLock` and `SignalSchedule` (signalAndRemoveQueueNode, which has interrupts enabled before its scheduleThread; scheduleThread's getSchedule, then its body), and `BlockCheck`, `BlockDeschedule`, `BlockYield` (one iteration of blockUntil's loop). The constant `DescheduleAdvancesInline` picks the nested `getNextThread` of scheduler.rs:121 (`FALSE`) or spec 4.7's advance under the lock already held (`TRUE`). |
| `Cond` | The condition variable as operators over `[queue, owner]`: the listener queue (a `VariableQueue` value over the waiters' stack nodes) and the holder of its queue Mutex, taken as an atomic lock. `Register` (waitForCond 126-144), `Finish` (its return), `SignalCond` and `BroadcastCond` (a `FoldLeft` of `Remove` over the walk taken before any removal, as `iter` reads `next` eagerly). The constant `QueueGuardHeldAcrossBlock` picks the code (`TRUE`: the guard of line 137 lives until return) or spec 4.5 (`FALSE`). |
| `RWLock` | Readers and writers running lockRead, lockWrite, the two guard drops and downgradeRWLock over the status Mutex (`statusOwner`, atomic) and two `Cond` values. `pc[t]` is where t is; `cw_enter`/`cw_block`/`cw_relock` are the three steps of a waitForCond (queue and release, wait for the flag, re-lock); `sig` is a pending signal or broadcast of a guard drop. `waitedOn` is a ghost: the writers waiting when a reader called lockRead. |
| `VirtualMemory` | A task's page directory (`dirEntry`) and its tables (`pageEntry`, by linear page index) as `[addr, flags]` entries, with the flag arithmetic of `page_entry.rs` and `byte_utils.rs` in `Bitwise` over the bit numbers as CONSTANTS. `VMThread` runs mapMemoryRange and freeMemoryRange one loop pass per step (`MapRangeStep`, `FreeRangeStep`, the iterator moving by `nextAddress`), and freeMappedPage, getPhysicalAddress and setRangeFlags as single steps. Frames come from `FrameAlloc`, instantiated with its variables; `Other` allocates and frees frames of the same allocator in between. `asked` is a ghost: the rights each mapping, or the last setRangeFlags over the page, asked for. `CallerChecksUnmapped` and `TableAllocMayFail` choose the callers and heap. A page index is an address scaled down: its low `SlotBits` bits are the entry and the bits above the table, as bits 12..21 and 22..31 of an address are. `get_page_table`, `get_page` and `TABLE_ALIGN` are `ByteUtils` at that width (`W = IndexBits`), computed once for every index into `Split`; the table of a page and nextAddress's alignment test (`c = TABLE_ALIGN(c)`, vm/manager.rs:35) read `Split`. |
| `ByteUtils` | The bit-range helpers of `byte_utils.rs` as operators over a `W`-bit word: `CONST_BIT_RANGE` shifts all-ones left, complements against the all-ones word (`Bitwise`'s `Not` has no width) and shifts again, with the shift amount taken mod `W` as a release build does; `TRIM_BITS`, `FILTER_BIT_RANGE` and `GET_BIT_RANGE` mask with it. `FieldOf` is the arithmetic reference. |
| `AbstractRWLock` | The RWLock's interface as `ThreadCollection` uses it: a set of readers or one writer, taken and released atomically. |
| `ThreadCollection` | Thread blocks, their handles and `activeColl` used by several callers. `active` is a `VariableQueue` value on the `link` slot; `readers`/`writer` are the collection's lock, taken through `AbstractRWLock`; `refCount` is each block's count and `handles` the ThreadHandles each caller holds; `life` is the spec 3 lifecycle (unused, loaded, active, exited). `Create` (ThreadBlock::new and load), `WriteLock`, `Insert` (insertThread), `Exit` and `Remove` (Drop for Thread, removeThread), `Lookup` and `LookupStep` (getActiveThreadByTid, one element of the iteration per step), `CloneHandle`, `DropHandle`. A tid is modelled by the block it names. No code under `src/` calls insertThread; the callers follow the lifecycle of spec 3. `lock()` of the collection does not exist on RWLock; remove is taken as lockWrite and the lookup as lockRead. The collection's insert_tail is the code's (`VariableQueue`'s `InsertTail`). |
| `MCQueueMachine`, `MCMutex`, `MCFrameAlloc`, `MCScheduler`, `MCRWLock`, `MCVirtualMemory`, `MCThreadCollection` | Model values and bounds for TLC. |

How `Mutex` maps to the code. Each action is the code between two points
where another thread can observe a change:

- `Lock`: builds the node (113-121).
- `WaitForWaitLock`: one attempt of `waitForLock` on the waitlist lock. A
  failure followed by a yield is a retry of the same step.
- `LockFast` and `LockRegister`: the two branches of line 129, with the
  tryLock's side effects kept when the branch is not taken.
- `LockSpin`: one tryLock of the loop at 153-166.
- `LockGot`: the `hasLock` test at 172. `LockRemove`: the cleanup at
  173-179.
- `MutexTryLock`: lines 190-200.
- `Unlock`: leaves the critical section. `UnlockRelease`: 241-249.
- `UnlockHandOff` (250-261), `UnlockTransfer` (264) and `UnlockSignal`
  (265) are three separate steps, as in the code.

## Runs

| Run | Config | Expect | Shows |
|---|---|---|---|
| `queue_insert_tail` | `MCQueueMachine_tail.cfg` | violation | Three nodes on one link slot, every Head operation in every order. insert_tail on a queue of two sets the new element's prev to the front (variable_queue.rs:134); removing the new element then sets the front's next to null, and the old back stays flagged `in_queue` but unreachable (`InQueueIffReachable`, spec section 8). |
| `mutex_core` | `MCMutex.cfg` | pass | Three threads, with the latch cleared as intended. `MutualExclusion`: whoever holds the mutex is the owner recorded in a set `mutexLock`. `NoStrandedWaiter`: the mutex is never free while a registered waiter spins. `HandoffToOldest`: the unlocker hands the mutex to the oldest waiter. `QueuedWaiterEventuallyLocks`: every registered waiter eventually holds the mutex. `UnlockReturns`: every unlock completes. |
| `mutex_guard_latch` | `MCMutex_latch.cfg` | violation | With the latch as the code leaves it, one lock and one unlock suffice. The unlocker's `waitForLock` on the waitlist lock never succeeds again (owned_lock.rs:84). |
| `mutex_waiter_node` | `MCMutex_node.cfg` | violation | The unlocker reaches the `hasLock` store (mutex.rs:265) after the waiter has already returned from `lock` (mutex.rs:261 drops the waitlist lock too early). |
| `frame_init_marks_start` | `MCFrameAlloc_init.cfg` | violation | initFrameAllocator as written (line 55) marks one frame free for a region of three; the second allocFrame finds no frame for its reservation. |
| `scheduler_core` | `MCScheduler.cfg` | pass | Three threads, one running and two blocked on a cond, with the cursor advanced inline. `ScheduledIffInRing`: a thread's flag is set exactly when it is on the ring. `CursorInRing`: the cursor is on the ring, and null only when the ring is empty. `RunningIsScheduled`: a thread outside blockUntil's loop is scheduled. `WokenThreadRuns`: a waiter whose flag was set, before or after it descheduled itself, gets back to its caller. |
| `scheduler_nested_lock` | `MCScheduler_nested.cfg` | violation | descheduleThread as written: a lone running thread waits on a cond, is the cursor, and spins on the schedule lock it already holds (`NoScheduleSelfWait`). |
| `rwlock_core` | `MCRWLock.cfg` | pass | Three readers and two writers, with the cond queue guard dropped once the node is queued (spec 4.5). `RWExclusion`: a writer holds the lock alone. `StatusMatchesHolders`: readerCount, writerWaitlistSize and mode agree with what the threads are doing. `WriterPreference`: a reader that holds the lock was not let in past a writer already waiting when it called lockRead. `ListenerQueued`: a thread is on a cond's queue exactly while it sleeps there unsignalled. `NoLostReadWakeup`: a sleeping reader always has a writer that will wake it. `WriterProgress`: a waiting writer is eventually followed by a writer holding the lock. |
| `rwlock_cond_queue_guard` | `MCRWLock_queue_guard.cfg` | violation | With the queue guard held across blockUntil (cond.rs:137), a writer sleeping on canWrite keeps the queue mutex, the reader's unlock cannot signal it, and nobody progresses (`WriterProgress`). |
| `vm_frames` | `MCVirtualMemory.cfg` | pass | Two tables of two pages and three frames. The other thread runs every operation of the allocator (reservations of one or two frames, allocFrame in two halves, fulfil, free). `FramesAccounted`: the frames the task holds are exactly those its present entries map, each once. `FramesBacked` (`ReservationsBacked`): bytesFree plus outstanding reservations equals the frames marked free. `FulfillSucceeds`: whoever holds a reservation can be given a frame. `NoFrameTwice`: no frame is held by two callers or held while marked free. `FreeRangeClears`: freeMemoryRange leaves its whole range absent. `EntryIterCoversRange`: the entry iterator (`EntriesFrom`, stepping by `nextAddress`) visits every page of a range whose table is present. `AddressSplitExact`: at every address a range loop visits, get_page_table, get_page and TABLE_ALIGN, computed with the bit helpers, agree with division and remainder; the table range ends at the word's top bit as 22..32 does. This run uses the code's page bit numbers (virtual_memory.rs:52-57) and the rights of spec scenario 4, WRITABLE and WRITABLE | USER. Here callers map only unmapped ranges (as the kernel checks with isUnmappedAddr first) and the heap never fails; the configurations below lift each assumption. The allocator is as spec 4.8 describes it, so `FulfillSucceeds` here does not catch its two defects: the initialisation has its own run, and the scan its own configuration. |
| `thread_collection` | `MCThreadCollection.cfg` | pass | Three blocks and two callers, with the code's insert_tail. `RefCountIsHandles`: a block's refCount is the number of live handles to it, across handles taken by lookups, cloned and dropped by both callers. What the lookups return is not a passing property: insert_tail's defect makes them miss active threads (`MCThreadCollection_tail.cfg`). |
| `vm_user_rights` | `MCVirtualMemory_user_rights.cfg` | violation | With the code's bit numbers, PRESENT, WRITABLE and USER_ACCESS are all bit 0 (virtual_memory.rs:52-54): a page mapped WRITABLE only is user readable and user writable. Spec 9 puts them at bits 0, 1, 2, and scenario 4 says such a page is not user writable (`UserAccessAsAsked`). |

Further configurations, each of which TLC answers with a violation. They
show defects that `PROJECT.json` records as hazards:

- `MCThreadCollection_tail.cfg` (`FoundIffActive`: a lookup returns a
  handle exactly when its block is active). With insert_tail as written, three threads are inserted, the third exits, and a lookup of
  the second, which is still active, returns None: the remove of the third
  followed its wrong prev link and cut the second off the queue.
- `MCFrameAlloc_scan.cfg` (`FulfillSucceeds`). The scan as written
  (frame_alloc.rs:114-116) skips currFrame: allocate, allocate, free the
  second frame, allocate again, and the reservation is not honoured.
- `MCVirtualMemory_entry_iter.cfg` (`EntryIterCoversRange`).
  virtual_memory.rs:170 adds `nextAddress(...)` to the iterator's address,
  but nextAddress returns an address, not a distance (the line does not
  type-check as written, so `EntryIterAddsAddress` chooses the reading).
  Read as written, the iterator jumps past the rest of the range after
  one step and setRangeFlags leaves pages unchanged.
- `MCScheduler_guard.cfg` (`NoScheduleSelfWait`). With the interrupt guard
  as written (it only counts, disable_interrupts.rs:45), a signaler takes
  the schedule lock in scheduleThread, the timer fires, and the handler's
  getSchedule spins on the lock the interrupted thread holds. Nothing
  can preempt the handler, so the CPU hangs.
- `MCVirtualMemory_remap.cfg` (`FramesAccounted`). mapMemoryRange over a
  mapped page calls mapPage, not getPage as spec 4.9 says. insertPage
  overwrites the entry and the old frame is lost.
- `MCVirtualMemory_table_fail.cfg` (`FramesAccounted`). mapPage takes a
  frame, then the page-table allocation fails. `?` returns None with the
  frame still allocated (memory_alloc.rs:42).

What the passing mutex run establishes beyond the spec:

- The "steal" of mutex.rs:99-104 (a waiter finding the mutex fully unlocked)
  cannot happen. An unlock releases the mutex only while it holds the
  waitlist lock and sees an empty list.
- The `hasLock == false` cleanup (172-179) is reached only in the window
  between transfer and store. That window is exactly where
  `mutex_waiter_node` fails.

Every property of a passing run has a mutant in `PROJECT.json`: a plausible
slip in a mapped definition that TLC shows the property catches. The slips:

- `tryLock`'s xchg test inverted.
- `transferLockTo` dropping the guard.
- Registration at the front of the waitlist.
- The transfer skipped.
- The waitlist guard kept after a handoff.
- ThreadCollection slips: handle() counting down, a lookup handle built
  without handle().
- Scheduler slips: the None check of context_switch.rs:68 dropped, blockUntil
  with `if` for `while`, a signal that never calls scheduleThread, a
  deschedule that leaves the thread on the ring, and a deschedule that does
  not move the cursor off the removed thread.
- RWLock slips: a read check that ignores the mode, or ignores waiting
  writers; a write-guard drop that leaves the mode at Write; a downgrade
  that does not count the reader; a broadcast that wakes only the front
  listener; a queue remove that keeps the in-queue flag.
- VirtualMemory slips: mapPage without the `?` on the frame allocation;
  freeMappedPage that keeps the frame, or that unreserves instead of
  freeing; nextAddress that skips a table from an unaligned address.
- ByteUtils slip: CONST_BIT_RANGE one bit too wide (`end - start + 1`).

## Bounds

- Queue: three elements are the fewest with which an insert has two
  neighbours (insert_after and insert_before in the middle, insert_tail
  on a queue of two). With three, insert_tail's defect shows in four
  steps, so no passing run checks the queue on its own; with two, every
  property holds but the middle paths are never taken.
- Mutex: three threads are one holder, one waiter being handed the lock and
  a third that registers or calls tryLock during the handoff. That is the
  smallest setting in which FIFO order (two waiters) and a handoff race
  happen together. TLC explores all 41,622 states in about 10 seconds.
  There are no counters to bound. Every lock and unlock can repeat forever,
  and the state space is finite.
- Frame allocator: three frames are the fewest in which the scan both
  wraps past regionEnd and can meet currFrame as the only free frame; two
  clients let one act between the halves of the other's allocFrame;
  reservations of two frames mix multi-frame reservations with allocFrame.
  bytesFree and the reservations are bounded by the region, so no state
  constraint is needed. The allocator's passing properties are checked in
  `vm_frames`, where its clients are the directory and another thread.
- Scheduler: three threads give a ring of two while a third is blocked,
  so a woken thread can be inserted after a cursor that is not the front,
  and a deschedule can remove the cursor from the middle of the ring. The
  state space is finite (21,681 states, a few seconds) with no bound.
  Starting with one thread running and the others blocked on a cond is a
  state the kernel reaches. The waiters are then brought in by signals,
  as make_runnable would do.
- RWLock: three readers and two writers (105,873 states, about 40 s) give a
  reader arriving while another reads and a writer waits, and two writers
  so one waits while the other writes or downgrades. The state space is
  finite. A waiter's stack node goes out of scope when waitForCond returns,
  so `Finish` clears its links, the flag is reset at re-lock, and a
  delivered signal is cleared: a fresh node is built on the next wait, so
  these values are dead and resetting them only merges states that the
  code cannot tell apart.
- ThreadCollection: the insert_tail defect needs a queue of two and a
  third element removed behind it, so three blocks; two callers let a
  lookup walk the queue while the other inserts or removes (the lock
  orders them, but its acquisition is interleaved); two handles per caller
  and block let a clone and a drop happen on a handle a lookup gave.
- VirtualMemory: two tables of two pages give ranges that cross a table
  boundary and a free loop that meets an absent table; three frames for
  four pages let a range run out of frames in the middle; the other
  thread can take the last frame between two passes of a range loop
  (143,052 states, about 10 seconds; two tables of four entries take
  TLC past seven minutes). The allocator here has both of its
  defects repaired (the frame runs show them), so that what fails is the
  directory code. The page index is a 2-bit word, one entry bit and one
  table bit, so `AddressSplitExact` checks the helpers on ranges that
  start at bit 0, end at the top bit, and are one bit wide, the three
  shapes of the code's ranges 12..22 and 22..32; a wider index would
  need more tables and pages than the run can afford.

## Fairness

### Mutex

`Fairness == \A t : WF_vars(Step(t))`. `Step(t)` is everything a thread does
once inside `lock` or the guard drop. The timer keeps preempting, and every
ready thread is scheduled again, so a thread that can continue eventually
does. No thread is obliged to call `lock` or `tryLock` (`Lock` and
`MutexTryLock` carry no fairness), so an idle thread may stay idle.

Weak fairness suffices. A spinning thread's tryLock only fails while another
thread holds the lock, and that holder is itself weakly fair. No run needs
strong fairness.

### Scheduler

`Fairness == WF_vars(Tick(cur)) /\ \A t : SF_vars(Continue(t))`.

- The timer keeps firing, so a preemption eventually happens while
  interrupts stay enabled.
- `Continue(t)` is the rest of a scheduler call t is inside: blockUntil's
  loop, or the scheduleThread of a signal. It is only enabled while t holds
  the CPU, and t can lose the CPU to a tick before it steps. So it is
  enabled only intermittently, and weak fairness would let TLC build a
  behaviour in which a woken waiter is switched to and preempted forever
  without one step. A timer period is far longer than one scheduler step,
  so a thread that is switched to again and again does take its next step.
  Strong fairness per thread states exactly that.
- `Wait`, `Signal` and `YieldTo` carry no fairness. No thread is obliged to
  block, wake anyone or yield.

### RWLock

`Fairness == \A t : SF_vars(Step(t))`. `Step(t)` is every step of a thread
inside a lock call or a guard drop. The status Mutex hands itself to its
oldest waiter (`HandoffToOldest` in the Mutex run), so a thread that keeps
asking for it is eventually given it, even though other threads take it
in between. In the model the mutex is atomic, and its step is enabled only
while the mutex is free, that is, intermittently; strong fairness is what
the FIFO handoff provides. lockRead, lockWrite and downgrade carry no
fairness: no thread has to take the lock.

VirtualMemory and ThreadCollection check no liveness, and their runs assume no
fairness.

## Not modelled (yet) and the plan

Done: the intrusive queue, OwnedLock, Mutex, the frame allocator, the
scheduler with the yields of context_switch.rs, the condition variable,
the RWLock, the active thread collection
with handles, and the task side of virtual memory. Not yet modelled:

- In the scheduler: `getScheduledThreadByTid`, a read-only lookup, and
  `make_runnable`, which has no return on its main path.
- In the thread blocks: `freeColl` (nothing inserts into it), the
  `from_raw_parts`/`to_raw_parts` conversions (unused), `setSuspendedState`
  and the field accessors, which change no state a property reads.
- The Drop methods of Cond and RWLock. They run at destruction and only
  print a diagnostic.
- In virtual memory:
  - DirectMapping and initVirtualMemory, which serve only the kernel
    directory and end in `todo!()`.
  - PageDirectory's Drop.
  - Page::new, freePage and copyPage.
  - isUnmappedAddr and readableStringLen. They read the hardware accessed
    bit and user bytes.
  - The TLB invalidation and zeroing branches. The Safe entry points
    assert that the directory is not current, so those branches never run.
  - The copy-on-write branches. They are modelled but never taken, because
    nothing in `src/` creates a copy-on-write entry; no property is about
    them.
  - mapMemoryRange's failure arm (memory_alloc.rs:90) does not compile:
    `None => Err(addr - 1)` is of type Result beside a Some arm of type ().
    `MapRangeStep` gives it the meaning the doc comment and the Some arm's
    `return` state, a return of the error, and no property rests on that
    choice.
  - virtual_memory.rs:170 does not type-check either; `EntryIterAddsAddress`
    selects a reading, and `vm_frames` takes the doc comment's.
  - No abstract specification: the queue cannot be shown to refine a
    sequence queue, since the code's insert_tail does not; and the RWLock
    refinement to `AbstractRWLock` added nothing to `RWExclusion`, because
    the abstract lock also allows release-then-acquire where the code
    downgrades.

Plan for the next sittings:

1. Two threads of one task working on the same directory. No lock in
   `vm/` serialises them.

Left out for good:

- Context switching and continuations: register-level assembly.
- The interrupt guard's counter: nothing reads it. Its effect, that it
  disables nothing, is `GuardDisablesInterrupts = FALSE` in `Scheduler`.
- The heap wrappers: a mutex around external code.
- Hardware registers, IDT encoding, the boot entry point.
- Of the byte helpers: UPDATE_BIT and UPDATE_BIT_RANGE, whose bodies end
  without returning the value they compute (they return `()`) and which
  nothing calls, and MSB and LSB, which nothing calls. `get_page`
  (vm_internal.rs:22) also ends in `;`; the model gives it the value it
  is meant to have. A range as wide as the word, a shift by the width
  (a panic in a debug build), is asked for by no caller.

The timer interrupt handler is not in `src/`. In `Mutex` and `FrameAlloc`,
preemption is the interleaving of thread steps. In `Scheduler` it is `Tick`,
which calls `yieldThread(None)` as spec section 5 describes. The passing
runs let `Tick` occur only where no guard is alive, as spec 4.2 intends.
The guard as written disables nothing (disable_interrupts.rs:45);
`MCScheduler_guard.cfg` checks the code's guard.
