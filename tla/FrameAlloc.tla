----------------------------- MODULE FrameAlloc -----------------------------
(***************************************************************************)
(* The physical frame allocator of src/vm/frame_alloc.rs, used by several  *)
(* kernel threads at once.                                                 *)
(*                                                                         *)
(* The region is NumFrames frames; frame i stands for the physical address *)
(* regionStart + i * PAGE_SIZE, and byte counts are kept in frames (every  *)
(* count the code handles is a multiple of PAGE_SIZE).  free[i] is the     *)
(* PAGE_FREE bit of that frame's entry in the kernel directory.            *)
(*                                                                         *)
(* Every function holds the allocator's Mutex for its whole body, so each *)
(* is one step (the Mutex module checks the mutual exclusion this relies   *)
(* on).  allocFrame takes the mutex twice, once in reserveFrames and once  *)
(* in fulfillReservedFrame, and is two steps.                              *)
(*                                                                         *)
(* Two constants choose between the code as written (FALSE) and what spec  *)
(* section 4.8 describes (TRUE):                                           *)
(*   InitMarksEveryFrame: initFrameAllocator marks each frame of the       *)
(*     region free; the code marks the entry of start on every iteration   *)
(*     (line 55).                                                          *)
(*   ScanFromCurrent: fulfillReservedFrame examines currFrame first; the   *)
(*     code starts one page after it and stops on reaching it (114-116).  *)
(***************************************************************************)
EXTENDS Naturals, FiniteSets

LOCAL Fun == INSTANCE Functions
LOCAL FSE == INSTANCE FiniteSetsExt

CONSTANTS Threads, NumFrames, MaxReserve, InitMarksEveryFrame, ScanFromCurrent

ASSUME NumFrames \in Nat \ {0} /\ MaxReserve \in Nat \ {0}
ASSUME InitMarksEveryFrame \in BOOLEAN /\ ScanFromCurrent \in BOOLEAN

Frames == 0..NumFrames - 1

\* None, the result of a scan that finds no free frame.
NoFrame == NumFrames + 1

VARIABLES
    free,       \* PAGE_FREE bit of each frame's page entry
    bytesFree,  \* FrameAllocatorInner::bytesFree, in frames
    currFrame,  \* FrameAllocatorInner::currFrame
    pc,         \* "alloc_fulfill" between the two halves of allocFrame
    held,       \* ghost: frames each thread has been given and not freed
    reserved    \* ghost: reservations each thread holds and has not used

vars == <<free, bytesFree, currFrame, pc, held, reserved>>

TypeOK ==
    /\ free \in [Frames -> BOOLEAN]
    /\ bytesFree \in 0..NumFrames
    /\ currFrame \in Frames
    /\ pc \in [Threads -> {"idle", "alloc_fulfill"}]
    /\ held \in [Threads -> SUBSET Frames]
    /\ reserved \in [Threads -> 0..NumFrames]

\* initFrameAllocator(start, end) (44-58), run at boot before any other
\* thread uses the allocator.
Init ==
    /\ free = [f \in Frames |-> InitMarksEveryFrame \/ f = 0]
    /\ bytesFree = NumFrames
    /\ currFrame = 0
    /\ pc = [t \in Threads |-> "idle"]
    /\ held = [t \in Threads |-> {}]
    /\ reserved = [t \in Threads |-> 0]

----------------------------------------------------------------------------
(* fulfillReservedFrame's search (111-133)                                 *)

\* One page on, back to regionStart once regionEnd is reached (126-129).
NextFrame(c) == IF c + 1 >= NumFrames THEN 0 ELSE c + 1

\* The loop of lines 116-130 from curr until it reaches stop.  The first
\* address examined, currFrame + PAGE_SIZE, can be regionEnd itself, whose
\* entry lies outside the region and is never marked free.
RECURSIVE ScanFrom(_, _, _)
ScanFrom(fr, curr, stop) ==
    IF curr = stop THEN NoFrame
    ELSE IF curr \in Frames /\ fr[curr] THEN curr
    ELSE ScanFrom(fr, NextFrame(curr), stop)

\* The frame fulfillReservedFrame hands out, or NoFrame.
Found(fr, c) ==
    IF ScanFromCurrent /\ fr[c] THEN c ELSE ScanFrom(fr, c + 1, c)

----------------------------------------------------------------------------
(* Mutants                                                                 *)

TakeFrameKeepFree(t) ==
    LET f == Found(free, currFrame) IN
      IF f = NoFrame THEN UNCHANGED <<free, currFrame, held>>
      ELSE /\ currFrame' = f
           /\ held' = [held EXCEPT ![t] = @ \cup {f}]
           /\ UNCHANGED free

----------------------------------------------------------------------------
(* Operations                                                              *)

\* The body of reserveFrames(n) (88-97): succeeds iff bytesFree >= n; a
\* failure changes nothing and returns Err.
ReserveFrames(t, n) ==
    /\ bytesFree >= n
    /\ bytesFree' = bytesFree - n
    /\ reserved' = [reserved EXCEPT ![t] = @ + n]

\* reserveFrames called directly (through reserveAddressMapping).
Reserve(t, n) ==
    /\ pc[t] = "idle"
    /\ ReserveFrames(t, n)
    /\ UNCHANGED <<free, currFrame, pc, held>>

\* unreserveFrames(n) (100-104), by a caller giving back n of its own
\* reservations.
Unreserve(t, n) ==
    /\ pc[t] = "idle"
    /\ n \in 1..reserved[t]
    /\ bytesFree' = bytesFree + n
    /\ reserved' = [reserved EXCEPT ![t] = @ - n]
    /\ UNCHANGED <<free, currFrame, pc, held>>

\* The body of fulfillReservedFrame (111-133): clear PAGE_FREE of the frame
\* found and make it currFrame; return None when the scan finds nothing.
TakeFrame(t) ==
    LET f == Found(free, currFrame) IN
      IF f = NoFrame THEN UNCHANGED <<free, currFrame, held>>
      ELSE /\ free' = [free EXCEPT ![f] = FALSE]
           /\ currFrame' = f
           /\ held' = [held EXCEPT ![t] = @ \cup {f}]

\* fulfillReservedFrame called on a reservation of the caller's.  The
\* reservation is used up whether or not a frame is found.
Fulfill(t) ==
    /\ pc[t] = "idle"
    /\ reserved[t] > 0
    /\ TakeFrame(t)
    /\ reserved' = [reserved EXCEPT ![t] = @ - 1]
    /\ UNCHANGED <<bytesFree, pc>>

\* allocFrame, first half (63): reserveFrames(1); on failure return None.
AllocReserve(t) ==
    /\ pc[t] = "idle"
    /\ ReserveFrames(t, 1)
    /\ pc' = [pc EXCEPT ![t] = "alloc_fulfill"]
    /\ UNCHANGED <<free, currFrame, held>>

\* allocFrame, second half (64): fulfillReservedFrame.
AllocFulfill(t) ==
    /\ pc[t] = "alloc_fulfill"
    /\ TakeFrame(t)
    /\ reserved' = [reserved EXCEPT ![t] = @ - 1]
    /\ pc' = [pc EXCEPT ![t] = "idle"]
    /\ UNCHANGED bytesFree

\* freeFrame(f) (71-84) of a frame the caller was given.  Frames outside
\* the region only produce a diagnostic.
FreeFrame(t, f) ==
    /\ pc[t] = "idle"
    /\ f \in held[t]
    /\ free' = [free EXCEPT ![f] = TRUE]
    /\ bytesFree' = bytesFree + 1
    /\ held' = [held EXCEPT ![t] = @ \ {f}]
    /\ UNCHANGED <<currFrame, pc, reserved>>

Next ==
    \E t \in Threads :
        \/ \E n \in 1..MaxReserve : Reserve(t, n)
        \/ \E n \in 1..MaxReserve : Unreserve(t, n)
        \/ Fulfill(t)
        \/ AllocReserve(t)
        \/ AllocFulfill(t)
        \/ \E f \in Frames : FreeFrame(t, f)

Spec == Init /\ [][Next]_vars

----------------------------------------------------------------------------
(* Properties                                                              *)

\* Spec 4.8: every byte counted free or reserved is backed by a frame whose
\* PAGE_FREE bit is set, so the counter and the directory agree across any
\* mix of reserve, unreserve, fulfill, allocFrame and freeFrame calls.
ReservationsBacked ==
    bytesFree + Fun!SumFunction(reserved) = FSE!Quantify(Frames, LAMBDA f : free[f])

\* Spec 4.8: fulfillReservedFrame returns None only if reservations were
\* not honoured.  Whenever a thread holds a reservation, including the one
\* allocFrame made between its two halves, the scan finds a frame.
FulfillSucceeds ==
    (\E t \in Threads : reserved[t] > 0) => Found(free, currFrame) # NoFrame

\* No frame is handed to two callers, and a frame in use is not marked free.
NoFrameTwice ==
    \A t, u \in Threads :
        /\ t # u => held[t] \cap held[u] = {}
        /\ \A f \in held[t] : ~free[f]
=============================================================================
