----------------------------- MODULE OwnedLock -----------------------------
(***************************************************************************)
(* The owner-tracking lock of src/sync/owned_lock.rs, as pure operators    *)
(* over a lock value [status, owner, guardCreated].                        *)
(*                                                                         *)
(* tryLock is one step: the xchg on status, the store of the owner, the    *)
(* load of the owner and the latch test.  Between the xchg and the owner   *)
(* store another thread can only read a null owner and fail, which is what *)
(* it does when it reads the real owner too, so nothing observable is      *)
(* lost.  The same holds for the two stores of the guard's drop.          *)
(*                                                                         *)
(* The code never clears guardCreated (it is written only at line 84).    *)
(* GuardLatchCleared = FALSE models exactly that.  GuardLatchCleared =     *)
(* TRUE models the latch as the type intends it: cleared when the guard    *)
(* stops existing, on drop and on transferLockTo (which forgets it); the   *)
(* modules of the rest of the synchronisation layer are checked with it,   *)
(* because with the latch as written no lock can be taken twice.           *)
(***************************************************************************)
CONSTANTS Null, GuardLatchCleared

ASSUME GuardLatchCleared \in BOOLEAN

\* OwnedLock::new (owned_lock.rs:53-60).
NewOwnedLock == [status |-> FALSE, owner |-> Null, guardCreated |-> FALSE]

----------------------------------------------------------------------------
(* Mutants                                                                 *)

\* tryLock with the test of the xchg result inverted (the "!" of line 78
\* lost): the owner is overwritten when the flag was already set.
TryLockSwapInverted(l, t) ==
    LET l1 == [l EXCEPT !.status = TRUE,
                        !.owner = IF l.status THEN t ELSE l.owner]
        granted == l1.owner = t /\ ~l1.guardCreated
    IN  [lock |-> IF granted THEN [l1 EXCEPT !.guardCreated = TRUE] ELSE l1,
         ok |-> granted, holder |-> l1.owner]

\* transferLockTo that drops the guard (releasing the flag) instead of
\* forgetting it.
TransferDropsGuard(l, t) ==
    [status |-> FALSE, owner |-> t,
     guardCreated |-> l.guardCreated /\ ~GuardLatchCleared]

----------------------------------------------------------------------------

\* OwnedLock::tryLock (owned_lock.rs:36-43, 77-89).  The result carries the
\* lock value left behind, whether a guard was returned, and the owner the
\* caller read (the Err payload).
TryLock(l, t) ==
    LET acquired == ~l.status
        l1 == IF acquired THEN [l EXCEPT !.status = TRUE, !.owner = t] ELSE l
        granted == l1.owner = t /\ ~l1.guardCreated
    IN  [lock |-> IF granted THEN [l1 EXCEPT !.guardCreated = TRUE] ELSE l1,
         ok |-> granted, holder |-> l1.owner]

\* Drop for OwnedLockGuard (owned_lock.rs:45-49, 173-179): clear the owner,
\* then release the flag.
Release(l) ==
    [status |-> FALSE, owner |-> Null,
     guardCreated |-> l.guardCreated /\ ~GuardLatchCleared]

\* OwnedLockGuard::transferLockTo (owned_lock.rs:148-152): the flag stays
\* set and the owner becomes t; the guard is forgotten.
TransferLockTo(l, t) ==
    [l EXCEPT !.owner = t, !.guardCreated = @ /\ ~GuardLatchCleared]
=============================================================================
