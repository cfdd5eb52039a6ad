--------------------------- MODULE MCQueueMachine ---------------------------
EXTENDS QueueMachine, TLC

CONSTANTS e1, e2, e3, NullPtr, link

\* Three queue nodes: insert_tail on a queue of two elements.
ThreeElems == {e1, e2, e3}

\* One link slot, for the run that shows insert_tail's damage.
OneLink == {link}
=============================================================================
