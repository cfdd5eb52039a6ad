---------------------------- MODULE QueueMachine ----------------------------
(***************************************************************************)
(* A client that applies every operation of src/variable_queue.rs, in any  *)
(* order and with any elements, to the heads of several queues that share  *)
(* the same elements through distinct link slots, as a ThreadBlock is      *)
(* linked into a thread collection (link), the schedule (scheduleLink)     *)
(* and its task (taskLink) at once (thread/thread_internal.rs:150-165).    *)
(* Each action is one call of a Head method; the methods are sequential    *)
(* code run under the lock of the structure owning the head, so a call is  *)
(* one step.                                                               *)
(***************************************************************************)
EXTENDS VariableQueue

CONSTANTS Elems, Slots

ASSUME Null \notin Elems

\* q[s] is the head of the queue threaded through link slot s together with
\* that slot of every element.
VARIABLE q

QueueType ==
    [front : Elems \cup {Null}, back : Elems \cup {Null},
     next : [Elems -> Elems \cup {Null}], prev : [Elems -> Elems \cup {Null}],
     inQ : [Elems -> BOOLEAN]]

TypeOK == q \in [Slots -> QueueType]

Init == q = [s \in Slots |-> EmptyQueue(Elems)]

DoInsertFront(s, e)     == q' = [q EXCEPT ![s] = InsertFront(@, e)]
DoInsertTail(s, e)      == q' = [q EXCEPT ![s] = InsertTail(@, e)]
DoInsertAfter(s, p, e)  == q' = [q EXCEPT ![s] = InsertAfter(@, p, e)]
DoInsertBefore(s, p, e) == q' = [q EXCEPT ![s] = InsertBefore(@, p, e)]
DoRemove(s, e)          == q' = [q EXCEPT ![s] = Remove(@, e)]

Next ==
    \E s \in Slots, e \in Elems :
        \/ DoInsertFront(s, e)
        \/ DoInsertTail(s, e)
        \/ DoRemove(s, e)
        \/ \E p \in Elems : DoInsertAfter(s, p, e) \/ DoInsertBefore(s, p, e)

Spec == Init /\ [][Next]_q

----------------------------------------------------------------------------
(* Properties                                                              *)

\* Spec section 8: an element's in_queue flag is set exactly when the
\* element can be reached from the head by next links.  A set flag with no
\* path to the element is a waiter or thread the queue has lost; insertion
\* of it is then refused forever (insert_* test in_queue first).
InQueueIffReachable ==
    \A s \in Slots, e \in Elems : q[s].inQ[e] <=> e \in Reachable(q[s])
=============================================================================
