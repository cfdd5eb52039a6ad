--------------------------- MODULE ThreadCollection ---------------------------
(***************************************************************************)
(* Thread blocks, their handles and the collection of active threads       *)
(* (src/thread.rs, src/thread/thread.rs, thread_collection.rs,             *)
(* manager.rs), used by several kernel threads at once.                    *)
(*                                                                         *)
(* activeColl is a ThreadCollection: a VariableQueue threaded through the  *)
(* link slot of each ThreadBlock, behind an RWLock, taken here through its *)
(* abstract specification (AbstractRWLock).  A                             *)
(* block is identified by its address; tids are unique (spec 3), so a tid  *)
(* is modelled by the block it names.                                      *)
(*                                                                         *)
(* No code under src/ calls insertThread yet; the callers create threads   *)
(* and let them exit as the lifecycle of spec 3 says: a block is loaded    *)
(* and inserted into the active collection, and its owned Thread is later  *)
(* dropped, which removes it (manager.rs:15-20).  removeThread and         *)
(* getActiveThreadByTid call a lock() that RWLock does not define; remove  *)
(* mutates the queue through the guard, so it is taken as lockWrite, and   *)
(* the lookup, which only reads, as lockRead.                              *)
(***************************************************************************)
EXTENDS Naturals, FiniteSets, FiniteSetsExt

CONSTANTS
    Blocks,        \* thread block addresses
    Callers,       \* kernel threads calling the thread API
    Null,
    MaxHandles     \* handles one caller holds to one block

ASSUME Null \notin Blocks

VQ == INSTANCE VariableQueue

VARIABLES
    active,    \* activeColl.queue: its Head and the link slot of each block
    readers, writer,   \* activeColl's RWLock
    refCount,  \* ThreadBlock::refCount
    handles,   \* the ThreadHandles each caller holds, per block
    life,      \* where each block is in its lifecycle
    pc,        \* where each caller is
    target,    \* the block a caller inserts, removes or looks up
    cursor     \* the element getActiveThreadByTid's iteration is at

vars == <<active, readers, writer, refCount, handles, life, pc, target, cursor>>

Lock == INSTANCE AbstractRWLock WITH Threads <- Callers

Lives == {"unused", "loaded", "active", "exited"}

TypeOK ==
    /\ active.front \in Blocks \cup {Null} /\ active.back \in Blocks \cup {Null}
    /\ active.inQ \in [Blocks -> BOOLEAN]
    /\ readers \subseteq Callers /\ writer \in Callers \cup {Null}
    /\ refCount \in [Blocks -> Nat]
    /\ handles \in [Callers -> [Blocks -> 0..MaxHandles]]
    /\ life \in [Blocks -> Lives]
    /\ pc \in [Callers -> {"idle", "ins_lock", "ins", "rm_lock", "rm", "find"}]
    /\ target \in [Callers -> Blocks \cup {Null}]
    /\ cursor \in [Callers -> Blocks \cup {Null}]

\* activeColl is ThreadCollection::new() (manager.rs:5-6,
\* thread_collection.rs:16-20); no block is loaded yet and no handle exists.
Init ==
    /\ active = VQ!EmptyQueue(Blocks)
    /\ Lock!Init
    /\ refCount = [b \in Blocks |-> 0]
    /\ handles = [c \in Callers |-> [b \in Blocks |-> 0]]
    /\ life = [b \in Blocks |-> "unused"]
    /\ pc = [c \in Callers |-> "idle"]
    /\ target = [c \in Callers |-> Null]
    /\ cursor = [c \in Callers |-> Null]

----------------------------------------------------------------------------
(* Operators                                                               *)

\* The handles held to block b by all callers.
LiveHandles(b) ==
    MapThenSumSet(LAMBDA c : handles[c][b], Callers)

\* Mutant: getActiveThreadByTid that builds the handle without handle().
HandleUncounted(c, b) ==
    /\ handles' = [handles EXCEPT ![c][b] = @ + 1]
    /\ UNCHANGED refCount

\* Mutant: handle() with fetch_sub for fetch_add.
HandleDecrement(c, b) ==
    /\ refCount' = [refCount EXCEPT ![b] = @ - 1]
    /\ handles' = [handles EXCEPT ![c][b] = @ + 1]

\* ThreadBlock::handle (thread.rs:76-81): count one more reference.
Handle(c, b) ==
    /\ refCount' = [refCount EXCEPT ![b] = @ + 1]
    /\ handles' = [handles EXCEPT ![c][b] = @ + 1]

\* Mutant: Drop for Thread that forgets the removal.
RemoveSkipped(q, e) == q

\* ThreadCollection::removeThread's remove! (thread_collection.rs:29-32).
RemoveThread(q, e) == VQ!Remove(q, e)

----------------------------------------------------------------------------
(* Actions of caller c                                                     *)

\* ThreadBlock::new and load (thread/thread.rs:26-69), then insertThread
\* (thread_collection.rs:23-26) up to lockWrite.
Create(c, b) ==
    /\ pc[c] = "idle" /\ life[b] = "unused"
    /\ life' = [life EXCEPT ![b] = "loaded"]
    /\ refCount' = [refCount EXCEPT ![b] = 0]
    /\ pc' = [pc EXCEPT ![c] = "ins_lock"]
    /\ target' = [target EXCEPT ![c] = b]
    /\ UNCHANGED <<active, readers, writer, handles, cursor>>

\* lockWrite of insertThread or removeThread returns the WriteGuard.
WriteLock(c) ==
    /\ pc[c] \in {"ins_lock", "rm_lock"}
    /\ Lock!AcquireWrite(c)
    /\ pc' = [pc EXCEPT ![c] = IF pc[c] = "ins_lock" THEN "ins" ELSE "rm"]
    /\ UNCHANGED <<active, refCount, handles, life, target, cursor>>

\* insertThread: insert_tail! on link; the guard drops on return.
Insert(c) ==
    /\ pc[c] = "ins"
    /\ active' = VQ!InsertTail(active, target[c])
    /\ Lock!ReleaseWrite(c)
    /\ life' = [life EXCEPT ![target[c]] = "active"]
    /\ pc' = [pc EXCEPT ![c] = "idle"]
    /\ target' = [target EXCEPT ![c] = Null]
    /\ UNCHANGED <<refCount, handles, cursor>>

\* Drop for Thread (manager.rs:15-20) of an active thread c owns:
\* removeThread up to its lock.
Exit(c, b) ==
    /\ pc[c] = "idle" /\ life[b] = "active"
    /\ \A d \in Callers : pc[d] \in {"rm_lock", "rm"} => target[d] # b
    /\ pc' = [pc EXCEPT ![c] = "rm_lock"]
    /\ target' = [target EXCEPT ![c] = b]
    /\ UNCHANGED <<active, readers, writer, refCount, handles, life, cursor>>

\* removeThread (thread_collection.rs:29-32): remove! under the lock.
Remove(c) ==
    /\ pc[c] = "rm"
    /\ active' = RemoveThread(active, target[c])
    /\ Lock!ReleaseWrite(c)
    /\ life' = [life EXCEPT ![target[c]] = "exited"]
    /\ pc' = [pc EXCEPT ![c] = "idle"]
    /\ target' = [target EXCEPT ![c] = Null]
    /\ UNCHANGED <<refCount, handles, cursor>>

\* getActiveThreadByTid (manager.rs:23-33), for the tid of block b: take
\* the lock and start the iteration at the front.
Lookup(c, b) ==
    /\ pc[c] = "idle" /\ handles[c][b] < MaxHandles
    /\ Lock!AcquireRead(c)
    /\ pc' = [pc EXCEPT ![c] = "find"]
    /\ target' = [target EXCEPT ![c] = b]
    /\ cursor' = [cursor EXCEPT ![c] = VQ!QFront(active)]
    /\ UNCHANGED <<active, writer, refCount, handles, life>>

\* One element of the iteration: the end of the queue returns None, a
\* matching tid returns curr.handle(), any other element moves on along
\* its link; returning drops the guard.
LookupStep(c) ==
    /\ pc[c] = "find"
    /\ LET x == cursor[c] IN
       IF x = Null \/ x = target[c]
       THEN /\ IF x = Null THEN UNCHANGED <<refCount, handles>>
                ELSE Handle(c, x)
            /\ Lock!ReleaseRead(c)
            /\ pc' = [pc EXCEPT ![c] = "idle"]
            /\ target' = [target EXCEPT ![c] = Null]
            /\ cursor' = [cursor EXCEPT ![c] = Null]
       ELSE /\ cursor' = [cursor EXCEPT ![c] = active.next[x]]
            /\ UNCHANGED <<readers, refCount, handles, pc, target>>
    /\ UNCHANGED <<active, writer, life>>

\* Clone for ThreadHandle (thread.rs:91-95): another handle().
CloneHandle(c, b) ==
    /\ pc[c] = "idle" /\ 0 < handles[c][b] /\ handles[c][b] < MaxHandles
    /\ Handle(c, b)
    /\ UNCHANGED <<active, readers, writer, life, pc, target, cursor>>

\* Drop for ThreadHandle (thread.rs:97-101).
DropHandle(c, b) ==
    /\ pc[c] = "idle" /\ handles[c][b] > 0
    /\ refCount' = [refCount EXCEPT ![b] = @ - 1]
    /\ handles' = [handles EXCEPT ![c][b] = @ - 1]
    /\ UNCHANGED <<active, readers, writer, life, pc, target, cursor>>

Next ==
    \E c \in Callers :
        \/ WriteLock(c) \/ Insert(c) \/ Remove(c) \/ LookupStep(c)
        \/ \E b \in Blocks :
            \/ Create(c, b) \/ Exit(c, b) \/ Lookup(c, b)
            \/ CloneHandle(c, b) \/ DropHandle(c, b)

Spec == Init /\ [][Next]_vars

----------------------------------------------------------------------------
(* Properties                                                              *)

\* getActiveThreadByTid finds a thread exactly when it is active: a lookup
\* that returns, after any history of inserts at the tail, exits from any
\* position and other lookups, hands out a handle to the block just when
\* the block was inserted and has not been removed.
FoundIffActive ==
    [][\A c \in Callers :
        (pc[c] = "find" /\ pc'[c] = "idle") =>
            ((handles'[c][target[c]] > handles[c][target[c]])
                <=> life[target[c]] = "active")]_vars

\* Spec 3: a block's reference count is the number of live handles to it,
\* across handles taken by lookups, cloned and dropped by any caller.
RefCountIsHandles ==
    \A b \in Blocks : refCount[b] = LiveHandles(b)
=============================================================================
