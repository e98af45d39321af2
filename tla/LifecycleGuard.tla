--------------------------- MODULE LifecycleGuard ---------------------------
(***************************************************************************)
(* server/state_machine.go: the guard that the in-process server and the   *)
(* gRPC client each put in front of the application.  Its three words are  *)
(* an atomic lifecycle state, a mutex for the sequential calls and an      *)
(* atomic flag for the concurrent ones.                                    *)
(*                                                                         *)
(* Every operator is one atomic step of the code.  Locking is merged with  *)
(* the load that follows it (a lock commutes with the steps of others to   *)
(* its right) and a store with the unlock that follows it (an unlock       *)
(* commutes to its left); the load and the store of AcquireExecute and     *)
(* AcquireCommit stay two steps, because FailHandshake may store between   *)
(* them without holding the mutex.  A panic is an operator of its own:     *)
(* its guard is the condition under which the code panics.                 *)
(***************************************************************************)

VARIABLES
    state,          \* LifecycleGuard.state, an atomic lifecycleState
    seqMu,          \* LifecycleGuard.seqMu, "locked" or "unlocked"
    handshakeDone   \* LifecycleGuard.handshakeDone

guardVars == <<state, seqMu, handshakeDone>>

lifecycleState == {"Init", "Ready", "Executing", "Executed", "Committing"}

GuardTypeOK ==
    /\ state \in lifecycleState
    /\ seqMu \in {"locked", "unlocked"}
    /\ handshakeDone \in BOOLEAN

NewLifecycleGuard ==
    /\ state = "Init"
    /\ seqMu = "unlocked"
    /\ handshakeDone = FALSE

(* A new guard takes the place of the old one. *)
Renew ==
    /\ state' = "Init"
    /\ seqMu' = "unlocked"
    /\ handshakeDone' = FALSE

-----------------------------------------------------------------------------
(* Handshake: a compare-and-swap, outside the mutex. *)

AcquireHandshake ==
    /\ state = "Init"
    /\ state' = "Ready"
    /\ UNCHANGED <<seqMu, handshakeDone>>

AcquireHandshakePanics ==
    /\ state # "Init"
    /\ UNCHANGED guardVars

CompleteHandshake ==
    /\ handshakeDone' = TRUE
    /\ UNCHANGED <<state, seqMu>>

FailHandshake ==
    /\ state' = "Init"
    /\ UNCHANGED <<seqMu, handshakeDone>>

-----------------------------------------------------------------------------
(* ExecuteBlock and Commit: lock, load and compare, store, ... , unlock. *)

AcquireFrom(expected) ==
    /\ seqMu = "unlocked"
    /\ state = expected
    /\ seqMu' = "locked"
    /\ UNCHANGED <<state, handshakeDone>>

AcquirePanics(expected) ==
    /\ seqMu = "unlocked"
    /\ state # expected
    /\ UNCHANGED guardVars

AcquireStore(next) ==
    /\ state' = next
    /\ UNCHANGED <<seqMu, handshakeDone>>

Release(next) ==
    /\ state' = next
    /\ seqMu' = "unlocked"
    /\ UNCHANGED handshakeDone

(* A mutated form: a failed block rolls the guard back to Init. *)
FailExecuteToInit == Release("Init")

AcquireExecute == AcquireFrom("Ready")
AcquireExecutePanics == AcquirePanics("Ready")
AcquireExecuteStore == AcquireStore("Executing")
CompleteExecute == Release("Executed")
FailExecute == Release("Ready")

AcquireCommit == AcquireFrom("Executed")
AcquireCommitPanics == AcquirePanics("Executed")
AcquireCommitStore == AcquireStore("Committing")
CompleteCommit == Release("Ready")

-----------------------------------------------------------------------------
(* The concurrent calls only read. *)

CheckConcurrent == handshakeDone

IsReady == state = "Ready"

=============================================================================
