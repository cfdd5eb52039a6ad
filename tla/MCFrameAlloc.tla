---------------------------- MODULE MCFrameAlloc ----------------------------
EXTENDS FrameAlloc, TLC

CONSTANTS t1, t2

\* Two threads, so that one can free or fulfil between the two halves of
\* the other's allocFrame.
TwoThreads == {t1, t2}

\* Three frames: the scan wraps, passes regionEnd and can find currFrame
\* as the only free frame.
ThreeFrames == 3

\* A reservation of more than one frame next to single-frame allocFrames.
TwoReserve == 2
=============================================================================
