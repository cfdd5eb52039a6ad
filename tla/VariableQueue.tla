--------------------------- MODULE VariableQueue ---------------------------
(***************************************************************************)
(* The intrusive doubly-linked queue of src/variable_queue.rs, as pure     *)
(* operators over a queue value.                                           *)
(*                                                                         *)
(* A queue value q joins the Head<Elem> (queueFront, queueBack) with the   *)
(* Link<Elem> of every element for the one link slot the queue uses       *)
(* (next, prev, inQueue).  Elements are identified by the address of the   *)
(* node that embeds the link; a model value stands for each address and    *)
(* Null for the null pointer.  Every operator returns the queue value the  *)
(* code leaves behind, the order of the code's writes included.            *)
(***************************************************************************)
EXTENDS Naturals, Sequences, FiniteSets

CONSTANT Null

\* Head::new and Link::new (variable_queue.rs:28-46): empty head, unlinked
\* elements.
EmptyQueue(Elems) ==
    [front |-> Null, back |-> Null,
     next  |-> [e \in Elems |-> Null],
     prev  |-> [e \in Elems |-> Null],
     inQ   |-> [e \in Elems |-> FALSE]]

\* Head::front, Head::tail (variable_queue.rs:51-67).
QFront(q) == q.front
QTail(q)  == q.back

----------------------------------------------------------------------------
(* Mutants: plausible slips in the code below, used to test that the      *)
(* properties of the runs can tell them apart from the code.               *)

\* remove that never clears the in_queue flag.
RemoveKeepFlag(q, e) ==
    IF q.inQ[e]
    THEN LET p == q.prev[e]
             n == q.next[e]
             q1 == IF p = Null THEN [q EXCEPT !.front = n]
                   ELSE [q EXCEPT !.next[p] = n]
         IN  IF n = Null THEN [q1 EXCEPT !.back = p]
             ELSE [q1 EXCEPT !.prev[n] = p]
    ELSE q

----------------------------------------------------------------------------

\* Head::insert_front (variable_queue.rs:103-126).  A no-op when the
\* element's link is already in use.
InsertFront(q, e) ==
    IF q.inQ[e] THEN q
    ELSE LET nx == [q.next EXCEPT ![e] = q.front]
             pv == IF q.front = Null THEN [q.prev EXCEPT ![e] = Null]
                   ELSE [q.prev EXCEPT ![e] = Null, ![q.front] = e]
         IN  [q EXCEPT !.front = e,
                       !.back  = IF q.front = Null THEN e ELSE q.back,
                       !.next  = nx, !.prev = pv, !.inQ[e] = TRUE]

\* Head::insert_tail (variable_queue.rs:128-151).  The element's prev link
\* is set from queueFront (line 134), as the code does.
InsertTail(q, e) ==
    IF q.inQ[e] THEN q
    ELSE LET q1 == [q EXCEPT !.next[e] = Null, !.prev[e] = q.front]
         IN  IF q.back = Null
             THEN [q1 EXCEPT !.front = e, !.back = e, !.inQ[e] = TRUE]
             ELSE [q1 EXCEPT !.next[q.back] = e, !.back = e, !.inQ[e] = TRUE]

\* Head::insert_after (variable_queue.rs:153-176): e goes right after the
\* queued element p.
InsertAfter(q, p, e) ==
    IF q.inQ[p] /\ ~q.inQ[e]
    THEN LET succ == q.next[p]
             q1 == [q EXCEPT !.prev[e] = p, !.next[e] = succ]
         IN  IF succ = Null
             THEN [q1 EXCEPT !.next[p] = e, !.back = e, !.inQ[e] = TRUE]
             ELSE [q1 EXCEPT !.prev[succ] = e, !.next[p] = e, !.inQ[e] = TRUE]
    ELSE q

\* Head::insert_before (variable_queue.rs:178-201): e goes right before the
\* queued element p.
InsertBefore(q, p, e) ==
    IF q.inQ[p] /\ ~q.inQ[e]
    THEN LET pred == q.prev[p]
             q1 == [q EXCEPT !.prev[e] = pred, !.next[e] = p]
         IN  IF pred = Null
             THEN [q1 EXCEPT !.prev[p] = e, !.front = e, !.inQ[e] = TRUE]
             ELSE [q1 EXCEPT !.next[pred] = e, !.prev[p] = e, !.inQ[e] = TRUE]
    ELSE q

\* Head::remove (variable_queue.rs:203-230).  The element's own links are
\* left as they were; the neighbours are relinked in the code's order.
Remove(q, e) ==
    IF q.inQ[e]
    THEN LET p == q.prev[e]
             n == q.next[e]
             q0 == [q EXCEPT !.inQ[e] = FALSE]
             q1 == IF p = Null THEN [q0 EXCEPT !.front = n]
                   ELSE [q0 EXCEPT !.next[p] = n]
         IN  IF n = Null THEN [q1 EXCEPT !.back = p]
             ELSE [q1 EXCEPT !.prev[n] = p]
    ELSE q

\* Head::iter (variable_queue.rs:233-258): the elements met by following
\* next links from the front.  The walk is cut after one step more than
\* there are elements, so a corrupted (cyclic) chain still yields a value.
RECURSIVE WalkFrom(_, _, _)
WalkFrom(q, x, fuel) ==
    IF x = Null \/ fuel = 0 THEN << >>
    ELSE <<x>> \o WalkFrom(q, q.next[x], fuel - 1)

Walk(q) == WalkFrom(q, q.front, Cardinality(DOMAIN q.inQ) + 1)

\* The elements reached by the walk.
Reachable(q) == {Walk(q)[i] : i \in 1..Len(Walk(q))}

=============================================================================
