------------------------- MODULE MCThreadCollection -------------------------
EXTENDS ThreadCollection

CONSTANTS b1, b2, b3, c1, c2, NullBlock

\* Three blocks: a thread inserted behind two others, the case in which
\* insert_tail's prev link differs from the back of the queue.
ThreeBlocks == {b1, b2, b3}
TwoCallers == {c1, c2}
TwoHandles == 2
=============================================================================
