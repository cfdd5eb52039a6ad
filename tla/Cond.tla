-------------------------------- MODULE Cond --------------------------------
(***************************************************************************)
(* The condition variable of src/sync/cond.rs, as pure operators over a    *)
(* cond value [queue, owner]: the listener queue (a VariableQueue value    *)
(* over the waiters' stack nodes, one node per thread) and the holder of   *)
(* the Mutex that protects it.  The Mutex is taken as an atomic lock: its  *)
(* mutual exclusion and FIFO handoff are checked in the Mutex module.      *)
(*                                                                         *)
(* waitForCond takes the queue guard at line 137 and never drops it: the   *)
(* guard lives until the function returns, across blockUntil and the       *)
(* re-lock of the user mutex.  QueueGuardHeldAcrossBlock = TRUE is that    *)
(* code; FALSE drops the guard once the node is queued, as spec 4.5 means  *)
(* ("acquire the waitlist lock, tail-insert, release the user mutex,       *)
(* block").                                                               *)
(***************************************************************************)
EXTENDS Naturals, Sequences

LOCAL SE == INSTANCE SequencesExt

CONSTANTS Null, QueueGuardHeldAcrossBlock

ASSUME QueueGuardHeldAcrossBlock \in BOOLEAN

VQ == INSTANCE VariableQueue

\* Cond::new (78-82): an empty listener queue, its mutex free.
NewCond(Elems) == [queue |-> VQ!EmptyQueue(Elems), owner |-> Null]

\* The queue mutex can be taken by t now.
QueueFree(c) == c.owner = Null

\* waitForCond, lines 126-144, once queue.lock() has returned: the node of
\* t is tail-inserted with doNotDeschedule false (set by the caller) and
\* the user mutex released (by the caller); the queue guard is kept or not.
Register(c, t) ==
    [c EXCEPT !.queue = VQ!InsertTail(@, t),
              !.owner = IF QueueGuardHeldAcrossBlock THEN t ELSE Null]

\* The end of waitForCond (171-172): the queue guard, if t still has it,
\* is dropped once mutex.lock() has returned, and t's stack node goes out
\* of scope (the next wait builds a fresh one with Link::new).
Finish(c, t) ==
    [c EXCEPT !.owner = IF @ = t THEN Null ELSE @,
              !.queue.next[t] = Null, !.queue.prev[t] = Null]

\* signalCond (220-226) with signalAndRemoveQueueNode (185-209): the front
\* listener, if any, is removed and has its flag set.  The result is the
\* cond left behind and the set of threads signalled.
SignalCond(c) ==
    IF VQ!QFront(c.queue) = Null THEN [woken |-> {}, cond |-> c]
    ELSE [woken |-> {VQ!QFront(c.queue)},
          cond  |-> [c EXCEPT !.queue = VQ!Remove(@, VQ!QFront(@))]]

\* Mutant: broadcastCond that signals only the front listener.
BroadcastFrontOnly(c) == SignalCond(c)

\* broadcastCond (231-237): every listener met by iter, in order, is
\* removed and signalled.  iter reads a node's next link before the body
\* removes the node (variable_queue.rs:243-247), so the walk is the one
\* taken before any removal.
BroadcastCond(c) ==
    [woken |-> VQ!Reachable(c.queue),
     cond  |-> [c EXCEPT !.queue = SE!FoldLeft(VQ!Remove, @, VQ!Walk(@))]]
=============================================================================
