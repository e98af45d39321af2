------------------------------- MODULE Server -------------------------------
(***************************************************************************)
(* server/server.go: the server that wraps an application with lifecycle   *)
(* enforcement and capability routing.  The engine's goroutines call it    *)
(* concurrently; local/local.go forwards each call to it unchanged, and    *)
(* its As methods hand the engine the application itself, whose methods    *)
(* the engine then calls past the server (DirectEnter).                    *)
(*                                                                         *)
(* A call is a short program counter of its goroutine: where the code may  *)
(* be interleaved (a contended mutex, an atomic word, the application)     *)
(* there is a step of its own.  The application is external: it may        *)
(* succeed or fail in every call, and keeps the height it has staged and   *)
(* the height it has committed.  A panic ends the call that panics, as it  *)
(* does for an engine that recovers it.                                    *)
(*                                                                         *)
(* Left out: payloads, and Server.lastExecHeight, which is written by      *)
(* ExecuteBlock and never read.                                            *)
(***************************************************************************)
EXTENDS LifecycleGuard, Naturals

CONSTANTS
    Callers,        \* the engine's goroutines
    Heights,        \* block heights; 0 stands for "no block"
    Implemented,    \* capabilities whose interface the application implements
    Declarations,   \* capability sets the application may declare
    Methods,        \* methods of the server that the engine calls
    HandshakeFirst, \* TRUE: the engine awaits Handshake before other calls
    AppMayPanic     \* TRUE: application methods may panic

Capabilities == {"ProposalControl", "VoteExtensions", "StateSync",
                 "Simulation", "MempoolObserver"}

(* The optional methods that only test whether the interface is there. *)
OptionalMethods == {"BuildProposal", "VerifyProposal", "ExtendVote",
                    "VerifyExtension", "AvailableSnapshots",
                    "ExportSnapshot", "ImportSnapshot"}

ObserverMethods == {"OnBatchCertified", "OnBlockConstructed"}
ConcurrentMethods == {"CheckTx", "Query", "Simulate"}
SequencedMethods == {"ExecuteBlock", "Commit"}

AllMethods == {"Handshake"} \cup SequencedMethods \cup ConcurrentMethods
                \cup ObserverMethods \cup OptionalMethods

(* The interface a method belongs to. *)
InterfaceOf(m) ==
    CASE m \in {"BuildProposal", "VerifyProposal"} -> "ProposalControl"
      [] m \in {"ExtendVote", "VerifyExtension"} -> "VoteExtensions"
      [] m \in {"AvailableSnapshots", "ExportSnapshot", "ImportSnapshot"} -> "StateSync"
      [] m = "Simulate" -> "Simulation"
      [] m \in ObserverMethods -> "MempoolObserver"
      [] OTHER -> "Lifecycle"

ASSUME ServerAssumption ==
    /\ Heights \subseteq Nat \ {0}
    /\ Implemented \subseteq Capabilities
    /\ Declarations \subseteq SUBSET Capabilities
    /\ Methods \subseteq AllMethods
    /\ HandshakeFirst \in BOOLEAN
    /\ AppMayPanic \in BOOLEAN

VARIABLES
    op,             \* method each goroutine is in, "none" between calls
    pc,             \* where in that method it is
    height,         \* block height argument of its ExecuteBlock, else 0
    ret,            \* result of its last call; in Commit, the result to be returned
    caps,           \* Server.caps
    lastOutcome,    \* Server.lastOutcome: height of the block it is for, 0 for nil
    appStaged,      \* the application: height staged by ExecuteBlock, 0 for none
    appCommitted    \* the application: height persisted by Commit or ImportSnapshot

callVars == <<op, pc, height, ret>>
appVars == <<appStaged, appCommitted>>
vars == <<guardVars, callVars, caps, lastOutcome, appVars>>

Locations == {"idle", "lock", "store", "app", "direct", "outcome", "complete", "gate"}

New ==
    /\ NewLifecycleGuard
    /\ op = [g \in Callers |-> "none"]
    /\ pc = [g \in Callers |-> "idle"]
    /\ height = [g \in Callers |-> 0]
    /\ ret = [g \in Callers |-> "none"]
    /\ caps = {}
    /\ lastOutcome = 0
    /\ appStaged = 0
    /\ appCommitted = 0

-----------------------------------------------------------------------------
(* The shape of a call. *)

At(g, m, where) == op[g] = m /\ pc[g] = where

(* The engine's side: with HandshakeFirst it makes other calls only once    *)
(* its Handshake has succeeded.                                             *)
Calls(g, m) ==
    /\ pc[g] = "idle"
    /\ m \in Methods
    /\ HandshakeFirst => m = "Handshake" \/ handshakeDone

Enter(g, m, h, where) ==
    /\ Calls(g, m)
    /\ op' = [op EXCEPT ![g] = m]
    /\ pc' = [pc EXCEPT ![g] = where]
    /\ height' = [height EXCEPT ![g] = h]
    /\ ret' = [ret EXCEPT ![g] = "none"]

Goto(g, where, r) ==
    /\ pc' = [pc EXCEPT ![g] = where]
    /\ ret' = [ret EXCEPT ![g] = r]
    /\ UNCHANGED <<op, height>>

Return(g, r) ==
    /\ op' = [op EXCEPT ![g] = "none"]
    /\ pc' = [pc EXCEPT ![g] = "idle"]
    /\ height' = [height EXCEPT ![g] = 0]
    /\ ret' = [ret EXCEPT ![g] = r]

(* A call that ends in the step in which it begins. *)
Immediate(g, m, r) == Calls(g, m) /\ Return(g, r)

-----------------------------------------------------------------------------
(* Handshake. *)

(* A mutated form: the compare-and-swap as a plain store. *)
HandshakeAlwaysAcquires(g) ==
    /\ Enter(g, "Handshake", 0, "app")
    /\ state' = "Ready"
    /\ UNCHANGED <<seqMu, handshakeDone, caps, lastOutcome, appVars>>

HandshakeEnter(g) ==
    /\ Enter(g, "Handshake", 0, "app")
    /\ AcquireHandshake
    /\ UNCHANGED <<caps, lastOutcome, appVars>>

HandshakeRefused(g) ==
    /\ Immediate(g, "Handshake", "panic")
    /\ AcquireHandshakePanics
    /\ UNCHANGED <<caps, lastOutcome, appVars>>

(* A mutated form: declarations are trusted. *)
TrustDeclared(declared) == TRUE

(* Every declared capability must be implemented; the converse only warns. *)
discoverCapabilities(declared) == declared \subseteq Implemented

(* The application answers with an error or with the capabilities it declares. *)
HandshakeAnswered(g) ==
    /\ At(g, "Handshake", "app")
    /\ \E appErr \in BOOLEAN, declared \in Declarations :
        \/ /\ appErr \/ ~discoverCapabilities(declared)
           /\ FailHandshake
           /\ Return(g, "err")
           /\ UNCHANGED caps
        \/ /\ ~appErr /\ discoverCapabilities(declared)
           /\ caps' = declared
           /\ Goto(g, "complete", "none")
           /\ UNCHANGED guardVars
    /\ UNCHANGED <<lastOutcome, appVars>>

HandshakeComplete(g) ==
    /\ At(g, "Handshake", "complete")
    /\ CompleteHandshake
    /\ Return(g, "ok")
    /\ UNCHANGED <<caps, lastOutcome, appVars>>

-----------------------------------------------------------------------------
(* ExecuteBlock. *)

ExecuteEnter(g) ==
    /\ \E h \in Heights : Enter(g, "ExecuteBlock", h, "lock")
    /\ UNCHANGED <<guardVars, caps, lastOutcome, appVars>>

(* A mutated form: the state is checked, the mutex is not taken. *)
ExecuteWithoutLock(g) ==
    /\ At(g, "ExecuteBlock", "lock")
    /\ state = "Ready"
    /\ Goto(g, "store", "none")
    /\ UNCHANGED <<guardVars, caps, lastOutcome, appVars>>

ExecuteAcquire(g) ==
    /\ At(g, "ExecuteBlock", "lock")
    /\ AcquireExecute
    /\ Goto(g, "store", "none")
    /\ UNCHANGED <<caps, lastOutcome, appVars>>

ExecuteRefused(g) ==
    /\ At(g, "ExecuteBlock", "lock")
    /\ AcquireExecutePanics
    /\ Return(g, "panic")
    /\ UNCHANGED <<caps, lastOutcome, appVars>>

ExecuteStore(g) ==
    /\ At(g, "ExecuteBlock", "store")
    /\ AcquireExecuteStore
    /\ Goto(g, "app", "none")
    /\ UNCHANGED <<caps, lastOutcome, appVars>>

(* A mutated form: an error is handled as an outcome. *)
ExecuteIgnoresError(g) ==
    /\ At(g, "ExecuteBlock", "app")
    /\ \E ok \in BOOLEAN : appStaged' = IF ok THEN height[g] ELSE appStaged
    /\ Goto(g, "outcome", "none")
    /\ UNCHANGED <<guardVars, caps, lastOutcome, appCommitted>>

(* A mutated form: the error path does not release the mutex. *)
ExecuteErrorKeepsLock(g) ==
    /\ At(g, "ExecuteBlock", "app")
    /\ \/ /\ appStaged' = height[g]
          /\ Goto(g, "outcome", "none")
          /\ UNCHANGED guardVars
       \/ /\ appStaged' \in {appStaged, height[g]}
          /\ state' = "Ready"
          /\ Return(g, "err")
          /\ UNCHANGED <<seqMu, handshakeDone>>
    /\ UNCHANGED <<caps, lastOutcome, appCommitted>>

(* An error of ExecuteBlock: any error, or a HaltError, which the server     *)
(* passes on as it is.                                                       *)
ExecuteErrors == {"err", "halt"}

(* On success the block is staged; on error it may or may not be. *)
ExecuteAnswered(g) ==
    /\ At(g, "ExecuteBlock", "app")
    /\ \/ /\ appStaged' = height[g]
          /\ Goto(g, "outcome", "none")
          /\ UNCHANGED guardVars
       \/ /\ appStaged' \in {appStaged, height[g]}
          /\ FailExecute
          /\ \E e \in ExecuteErrors : Return(g, e)
    /\ UNCHANGED <<caps, lastOutcome, appCommitted>>

(* A mutated form: the outcome is noted for the height after the block's. *)
ExecuteOutcomeOffByOne(g) ==
    /\ At(g, "ExecuteBlock", "outcome")
    /\ lastOutcome' = height[g] + 1
    /\ Goto(g, "complete", "none")
    /\ UNCHANGED <<guardVars, caps, appVars>>

ExecuteOutcome(g) ==
    /\ At(g, "ExecuteBlock", "outcome")
    /\ lastOutcome' = height[g]
    /\ Goto(g, "complete", "none")
    /\ UNCHANGED <<guardVars, caps, appVars>>

ExecuteComplete(g) ==
    /\ At(g, "ExecuteBlock", "complete")
    /\ CompleteExecute
    /\ Return(g, "ok")
    /\ UNCHANGED <<caps, lastOutcome, appVars>>

-----------------------------------------------------------------------------
(* Commit: an error of the application takes the same path as success. *)

CommitEnter(g) ==
    /\ Enter(g, "Commit", 0, "lock")
    /\ UNCHANGED <<guardVars, caps, lastOutcome, appVars>>

(* A mutated form: Commit is let in whatever the state. *)
CommitInAnyState(g) ==
    /\ At(g, "Commit", "lock")
    /\ seqMu = "unlocked"
    /\ seqMu' = "locked"
    /\ Goto(g, "store", "none")
    /\ UNCHANGED <<state, handshakeDone, caps, lastOutcome, appVars>>

CommitAcquire(g) ==
    /\ At(g, "Commit", "lock")
    /\ AcquireCommit
    /\ Goto(g, "store", "none")
    /\ UNCHANGED <<caps, lastOutcome, appVars>>

CommitRefused(g) ==
    /\ At(g, "Commit", "lock")
    /\ AcquireCommitPanics
    /\ Return(g, "panic")
    /\ UNCHANGED <<caps, lastOutcome, appVars>>

CommitStore(g) ==
    /\ At(g, "Commit", "store")
    /\ AcquireCommitStore
    /\ Goto(g, "app", "none")
    /\ UNCHANGED <<caps, lastOutcome, appVars>>

(* The application persists what it has staged, and may forget the staging  *)
(* area, or fails; Commit is documented to be atomic, so a failure persists *)
(* nothing.                                                                 *)
CommitAnswered(g) ==
    /\ At(g, "Commit", "app")
    /\ \/ /\ appCommitted' = appStaged
          /\ appStaged' \in {0, appStaged}
          /\ Goto(g, "outcome", "ok")
       \/ /\ Goto(g, "outcome", "err")
          /\ UNCHANGED appVars
    /\ UNCHANGED <<guardVars, caps, lastOutcome>>

(* A mutated form: the outcome is forgotten only when Commit succeeded. *)
CommitKeepsOutcomeOnError(g) ==
    /\ At(g, "Commit", "outcome")
    /\ lastOutcome' = IF ret[g] = "ok" THEN 0 ELSE lastOutcome
    /\ Goto(g, "complete", ret[g])
    /\ UNCHANGED <<guardVars, caps, appVars>>

CommitOutcome(g) ==
    /\ At(g, "Commit", "outcome")
    /\ lastOutcome' = 0
    /\ Goto(g, "complete", ret[g])
    /\ UNCHANGED <<guardVars, caps, appVars>>

CommitComplete(g) ==
    /\ At(g, "Commit", "complete")
    /\ CompleteCommit
    /\ Return(g, ret[g])
    /\ UNCHANGED <<caps, lastOutcome, appVars>>

-----------------------------------------------------------------------------
(* Concurrent, observer and optional methods. *)

(* The presence of a method's interface, discovered by New. *)
Supported(m) == InterfaceOf(m) \in Implemented \cup {"Lifecycle"}

(* Go to the application if the guard allows concurrent calls, else panic. *)
ConcurrentEnter(g, m) ==
    /\ m \in ConcurrentMethods
    /\ Supported(m)
    /\ IF CheckConcurrent THEN Enter(g, m, 0, "app") ELSE Immediate(g, m, "panic")
    /\ UNCHANGED <<guardVars, caps, lastOutcome, appVars>>

(* caps is read without synchronisation: while a Handshake is between its   *)
(* write of caps and its atomic store, a reader may see either value.       *)
CapsRead ==
    {c \in {caps, {}} : c = caps \/ \E k \in Callers : At(k, "Handshake", "complete")}

(* A mutated form: a callback goes to the application without the guard. *)
ObserverUngated(g, m) ==
    /\ m \in ObserverMethods
    /\ \E seen \in CapsRead :
        IF InterfaceOf(m) \in seen /\ Supported(m)
          THEN Enter(g, m, 0, "app")
          ELSE Immediate(g, m, "ok")
    /\ UNCHANGED <<guardVars, caps, lastOutcome, appVars>>

ObserverEnter(g, m) ==
    /\ m \in ObserverMethods
    /\ \E seen \in CapsRead :
        IF InterfaceOf(m) \in seen /\ Supported(m)
          THEN Enter(g, m, 0, "gate")
          ELSE Immediate(g, m, "ok")
    /\ UNCHANGED <<guardVars, caps, lastOutcome, appVars>>

ObserverGate(g) ==
    /\ pc[g] = "gate"
    /\ IF CheckConcurrent THEN Goto(g, "app", "none") ELSE Return(g, "panic")
    /\ UNCHANGED <<guardVars, caps, lastOutcome, appVars>>

(* No guard and no capability: only the presence of the interface is tested. *)
OptionalEnter(g, m) ==
    /\ m \in OptionalMethods
    /\ Supported(m)
    /\ Enter(g, m, 0, "app")
    /\ UNCHANGED <<guardVars, caps, lastOutcome, appVars>>

(* Without the interface the two verification methods accept by default and  *)
(* the others fail.                                                          *)
OptionalUnsupported(g, m) ==
    /\ m \in OptionalMethods \cup {"Simulate"}
    /\ ~Supported(m)
    /\ Immediate(g, m, IF m \in {"VerifyProposal", "VerifyExtension"} THEN "ok" ELSE "err")
    /\ UNCHANGED <<guardVars, caps, lastOutcome, appVars>>

(* AsProposalControl, ..., AsMempoolObserver for the capabilities that the  *)
(* caller reads: not nil.                                                   *)
AsInterface(cap, seen) == cap \in seen /\ cap \in Implemented

(* What the As methods return is the application, so a method called on it   *)
(* passes neither the guard nor the server.  Asking and calling are one      *)
(* step: caps is written once, so an engine that keeps what it was given can *)
(* call no more than one that asks again.                                    *)
DirectEnter(g, m) ==
    /\ InterfaceOf(m) # "Lifecycle"
    /\ \E seen \in CapsRead : AsInterface(InterfaceOf(m), seen)
    /\ Enter(g, m, 0, "direct")
    /\ UNCHANGED <<guardVars, caps, lastOutcome, appVars>>

(* The application answers a call that takes no part in the lifecycle; an   *)
(* imported snapshot replaces the committed state.                          *)
AppAnswers(g) ==
    /\ pc[g] \in {"app", "direct"}
    /\ op[g] \notin SequencedMethods \cup {"Handshake"}
    /\ \E r \in {"ok", "err"} :
        /\ Return(g, r)
        /\ IF op[g] = "ImportSnapshot" /\ r = "ok"
             THEN appCommitted' \in Heights
             ELSE UNCHANGED appCommitted
    /\ UNCHANGED <<guardVars, caps, lastOutcome, appStaged>>

(* A mutated form: the mutex is released on the way out of a panic. *)
AppPanicUnlocks(g) ==
    /\ AppMayPanic
    /\ pc[g] \in {"app", "direct"}
    /\ Return(g, "panic")
    /\ IF op[g] \in SequencedMethods THEN Release("Ready") ELSE UNCHANGED guardVars
    /\ UNCHANGED <<caps, lastOutcome, appVars>>

(* A panic of the application unwinds through the server, which has no      *)
(* deferred release: the guard stays as it is.                              *)
AppPanics(g) ==
    /\ AppMayPanic
    /\ pc[g] \in {"app", "direct"}
    /\ Return(g, "panic")
    /\ UNCHANGED <<guardVars, caps, lastOutcome, appVars>>

-----------------------------------------------------------------------------

Begin(g) ==
    \/ HandshakeEnter(g) \/ HandshakeRefused(g) \/ ExecuteEnter(g) \/ CommitEnter(g)
    \/ \E m \in Methods : \/ ConcurrentEnter(g, m) \/ ObserverEnter(g, m)
                          \/ OptionalEnter(g, m) \/ OptionalUnsupported(g, m)
                          \/ DirectEnter(g, m)

(* The steps that wait for the mutex. *)
Acquire(g) ==
    ExecuteAcquire(g) \/ ExecuteRefused(g) \/ CommitAcquire(g) \/ CommitRefused(g)

Continue(g) ==
    \/ HandshakeAnswered(g) \/ HandshakeComplete(g)
    \/ ExecuteStore(g) \/ ExecuteAnswered(g) \/ ExecuteOutcome(g) \/ ExecuteComplete(g)
    \/ CommitStore(g) \/ CommitAnswered(g) \/ CommitOutcome(g) \/ CommitComplete(g)
    \/ ObserverGate(g) \/ AppAnswers(g) \/ AppPanics(g)

Next == \E g \in Callers : Begin(g) \/ Acquire(g) \/ Continue(g)

Spec == New /\ [][Next]_vars

(* Goroutines run and application methods return; a waiter of a sync.Mutex  *)
(* that is released again and again gets it in the end (starvation mode).   *)
FairSpec ==
    /\ Spec
    /\ \A g \in Callers : WF_vars(Continue(g)) /\ SF_vars(Acquire(g))

-----------------------------------------------------------------------------
(* Properties. *)

TypeOK ==
    /\ GuardTypeOK
    /\ op \in [Callers -> AllMethods \cup {"none"}]
    /\ pc \in [Callers -> Locations]
    /\ height \in [Callers -> Heights \cup {0}]
    /\ ret \in [Callers -> {"none", "ok", "panic"} \cup ExecuteErrors]
    /\ caps \in SUBSET Capabilities
    /\ lastOutcome \in Heights \cup {0}
    /\ appStaged \in Heights \cup {0}
    /\ appCommitted \in Heights \cup {0}

(* The goroutine is past the acquisition of seqMu and has not released it. *)
Holds(g) ==
    /\ op[g] \in SequencedMethods
    /\ pc[g] \in {"store", "app", "outcome", "complete"}

(* ExecuteBlock and Commit are strictly sequential whatever the engine does  *)
(* and however handshakes fail meanwhile: at most one goroutine is between   *)
(* the acquisition and the release of seqMu, so the application never runs   *)
(* two of them at a time (state_machine.go, AcquireExecute/AcquireCommit).   *)
SeqExclusion ==
    \A g, k \in Callers : Holds(g) /\ Holds(k) => g = k

(* The application staged exactly the block whose outcome the server holds. *)
OutcomePending == lastOutcome # 0 /\ appStaged = lastOutcome

(* When the application is asked to Commit, what it has staged is the block  *)
(* whose outcome the last successful ExecuteBlock returned: no failed or     *)
(* concurrent ExecuteBlock, panicking call or rolled back handshake comes    *)
(* between the two (server.go, ExecuteBlock and Commit).                     *)
CommitPersistsReturnedOutcome ==
    \A g \in Callers : At(g, "Commit", "app") => OutcomePending

(* Handshakes do not overlap, and once one has succeeded none is under way   *)
(* or can be, and the guard never returns to Init (server.go, Handshake).    *)
HandshakeOnce ==
    /\ \A g, k \in Callers :
        op[g] = "Handshake" /\ op[k] = "Handshake" => g = k
    /\ handshakeDone => state # "Init" /\ \A g \in Callers : op[g] # "Handshake"

(* Through the server the application gets CheckTx, Query, Simulate and      *)
(* mempool callbacks only once a Handshake has succeeded, although caps is   *)
(* read unsynchronised, and a callback only if it declared the observer.     *)
(* Through the interfaces that the As methods hand out, which no guard       *)
(* watches, it gets only calls of interfaces it declared, and none before it *)
(* has answered the Handshake that declared them: from the write of caps on, *)
(* which is one step before the guard knows.                                 *)
DispatchAfterHandshake ==
    \A g \in Callers :
        /\ pc[g] = "app" /\ op[g] \in ConcurrentMethods \cup ObserverMethods =>
            /\ handshakeDone
            /\ op[g] \in ObserverMethods => AsInterface("MempoolObserver", caps)
        /\ pc[g] = "direct" =>
            /\ AsInterface(InterfaceOf(op[g]), caps)
            /\ handshakeDone \/ \E k \in Callers : At(k, "Handshake", "complete")

(* What Capabilities and the As methods answer is final once a Handshake has *)
(* succeeded, and is never more than the application implements.             *)
CapsSettled ==
    [][/\ handshakeDone => UNCHANGED caps
       /\ caps' \subseteq Implemented]_vars

(* With an engine that awaits Handshake, the guard moves only along the      *)
(* edges its comments give, and no edge leads back to Init afterwards: an    *)
(* executed block leaves Executed through Commit alone.                      *)
DocumentedEdges ==
    [][ /\ <<state, state'>> \in
            {<<"Init", "Ready">>, <<"Ready", "Init">>, <<"Ready", "Executing">>,
             <<"Executing", "Executed">>, <<"Executing", "Ready">>,
             <<"Executed", "Committing">>, <<"Committing", "Ready">>}
        /\ handshakeDone => state' # "Init" ]_state

(* With an engine that awaits Handshake, LastOutcome is non-nil in Executed  *)
(* and nil in Ready, after failures of ExecuteBlock and Commit included.     *)
OutcomeWindow ==
    /\ state = "Executed" => lastOutcome # 0
    /\ state = "Ready" => lastOutcome = 0

(* The mutex is locked and nobody will unlock it. *)
Orphaned == seqMu = "locked" /\ \A g \in Callers : ~Holds(g)

(* The step in which the application panics in the goroutine's sequenced call. *)
PanicStep(g) ==
    /\ op[g] \in SequencedMethods /\ pc[g] = "app"
    /\ pc'[g] = "idle" /\ ret'[g] = "panic"

(* After the application panicked in ExecuteBlock or Commit, no later one of *)
(* them reaches the half-changed application: the mutex is left locked, is   *)
(* never released, and the staging area stays as the panic left it.  CheckTx, *)
(* Query and the optional methods take no mutex and still reach it.          *)
PanicIsFinal ==
    [][/\ \A g \in Callers : PanicStep(g) => Orphaned'
       /\ Orphaned => Orphaned' /\ UNCHANGED appStaged]_vars

(* Every call returns, if the application's methods do: a waiter for seqMu   *)
(* is not left behind by error returns or refused calls of others, only by   *)
(* a panic of the application, which leaves the guard within the block.      *)
EveryCallReturns ==
    \A g \in Callers : pc[g] # "idle" ~>
        pc[g] = "idle" \/ (Orphaned /\ state \in {"Executing", "Committing"})

-----------------------------------------------------------------------------
(* Refinement: the application's view of the calls (LifecycleContract).     *)
(* A call takes effect when the application answers it.                      *)

(* ExecuteBlock answered by the application and not yet stored in state. *)
Answered(g) == op[g] = "ExecuteBlock" /\ pc[g] \in {"outcome", "complete"}

(* An answered ExecuteBlock whose Commit the application has not answered. *)
Uncommitted ==
    \/ \E g \in Callers : Answered(g) \/ At(g, "Commit", "store") \/ At(g, "Commit", "app")
    \/ state = "Executed"

contractPhase ==
    IF ~handshakeDone THEN "boot" ELSE IF Uncommitted THEN "executed" ELSE "idle"

(* The block just answered is the staged one; from then on it is the one     *)
(* that LastOutcome holds.                                                   *)
contractPending ==
    IF ~Uncommitted THEN 0
    ELSE IF \E g \in Callers : Answered(g) THEN appStaged ELSE lastOutcome

Contract == INSTANCE LifecycleContract
              WITH phase <- contractPhase, pending <- contractPending,
                   committed <- appCommitted

(* With an engine that awaits Handshake, whatever order its goroutines call  *)
(* in and wherever the application fails, the application sees the call      *)
(* order that bapi.go promises it: Handshake, then ExecuteBlock and Commit   *)
(* in turn, each Commit persisting the block executed before it or nothing.  *)
(* A panic in Commit counts as a Commit that persists nothing.               *)
ImplementsContract == Contract!ContractSpec

-----------------------------------------------------------------------------
(* What the documentation says and the code does not do. *)

(* README.md: the guard fails fast on ExecuteBlock before Handshake; Ready   *)
(* is documented as "Handshake complete".                                    *)
ExecuteAwaitsHandshake ==
    \A g \in Callers : At(g, "ExecuteBlock", "app") => handshakeDone

=============================================================================
