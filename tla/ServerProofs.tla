---------------------------- MODULE ServerProofs ----------------------------
(***************************************************************************)
(* Proofs about Server, for every set of goroutines and heights, every     *)
(* application (implemented interfaces, declarations, errors, panics) and  *)
(* every engine, disciplined or not.                                       *)
(*                                                                         *)
(* None of the properties is inductive.  Inv adds where the goroutine that *)
(* holds seqMu stands: while it executes, or commits past its store, the   *)
(* state is not Executed, so that a concurrent Handshake, which changes    *)
(* the state without the mutex, never makes Commit possible; and while it  *)
(* commits, or the state is Executed, the application's staging area is    *)
(* the block whose outcome was returned.                                   *)
(***************************************************************************)
EXTENDS Server, TLAPS

(* Where each method can be, and what its goroutine then carries. *)
CallShape ==
    \A g \in Callers :
        /\ (op[g] = "none") <=> (pc[g] = "idle")
        /\ op[g] = "Handshake" => pc[g] \in {"app", "complete"}
        /\ op[g] \in SequencedMethods =>
             pc[g] \in {"lock", "store", "app", "outcome", "complete"}
        /\ op[g] \notin SequencedMethods \cup {"Handshake"} =>
             pc[g] \in {"idle", "app", "direct", "gate"}
        /\ op[g] = "ExecuteBlock" => height[g] \in Heights
        /\ pc[g] = "gate" => op[g] \in ObserverMethods

LockInv ==
    /\ SeqExclusion
    /\ \A g \in Callers : Holds(g) => seqMu = "locked"

HandshakeInv ==
    /\ HandshakeOnce
    /\ \A g \in Callers : op[g] = "Handshake" => state # "Init"

(* Nothing is declared before a handshake is about to complete. *)
CapsInv ==
    /\ caps \subseteq Implemented
    /\ caps # {} => handshakeDone \/ \E g \in Callers : At(g, "Handshake", "complete")
    /\ \A g \in Callers : pc[g] = "gate" => "MempoolObserver" \in caps
    /\ DispatchAfterHandshake

OutcomeInv ==
    /\ state = "Executed" => OutcomePending
    /\ \A g \in Callers :
        /\ op[g] = "ExecuteBlock" /\ Holds(g) => state # "Executed"
        /\ At(g, "ExecuteBlock", "outcome") => appStaged = height[g]
        /\ At(g, "ExecuteBlock", "complete") => OutcomePending
        /\ At(g, "Commit", "store") => OutcomePending
        /\ At(g, "Commit", "app") => OutcomePending
        /\ op[g] = "Commit" /\ pc[g] \in {"app", "outcome", "complete"} =>
             state # "Executed"

Inv == TypeOK /\ CallShape /\ LockInv /\ HandshakeInv /\ CapsInv /\ OutcomeInv

(* A step of one goroutine. *)
Step(g) == Begin(g) \/ Acquire(g) \/ Continue(g)

-----------------------------------------------------------------------------

(* New establishes the invariant. *)
LEMMA InitInv == New => Inv
  BY ServerAssumption
  DEF New, NewLifecycleGuard, Inv, TypeOK, ExecuteErrors, GuardTypeOK, lifecycleState, Locations,
      AllMethods, SequencedMethods, ObserverMethods, ConcurrentMethods, CallShape,
      LockInv, SeqExclusion, Holds, HandshakeInv, HandshakeOnce, CapsInv,
      DispatchAfterHandshake, OutcomeInv, OutcomePending, At

(* The callbacks belong to the MempoolObserver interface. *)
LEMMA ObserverInterface ==
  ASSUME NEW m \in ObserverMethods
  PROVE  InterfaceOf(m) = "MempoolObserver" /\ (Supported(m) => "MempoolObserver" \in Implemented)
  BY DEF ObserverMethods, InterfaceOf, Supported

(* The interfaces that the As methods hand out have no part in the lifecycle. *)
LEMMA DirectMethod ==
  ASSUME NEW m \in Methods, InterfaceOf(m) # "Lifecycle"
  PROVE  m \in AllMethods /\ m \notin SequencedMethods \cup {"Handshake", "none"}
  BY ServerAssumption DEF AllMethods, SequencedMethods, ConcurrentMethods, ObserverMethods,
     OptionalMethods, InterfaceOf

(* Every step keeps the types. *)
LEMMA TypeStep ==
  ASSUME Inv, NEW g \in Callers, Step(g)
  PROVE  TypeOK'
<1> USE ServerAssumption DEF Inv, TypeOK, ExecuteErrors, GuardTypeOK, lifecycleState,
      Locations, AllMethods, SequencedMethods, ConcurrentMethods,
      ObserverMethods, OptionalMethods, CallShape, At, Calls, Enter, Goto,
      Immediate, Return, guardVars, appVars
<1>1. CASE HandshakeEnter(g)
  BY <1>1 DEF HandshakeEnter, AcquireHandshake
<1>2. CASE HandshakeRefused(g)
  BY <1>2 DEF HandshakeRefused, AcquireHandshakePanics
<1>3. CASE ExecuteEnter(g)
  BY <1>3 DEF ExecuteEnter
<1>4. CASE CommitEnter(g)
  BY <1>4 DEF CommitEnter
<1>5. ASSUME NEW m \in Methods, ConcurrentEnter(g, m) PROVE TypeOK'
  BY <1>5 DEF ConcurrentEnter, CheckConcurrent
<1>6. ASSUME NEW m \in Methods, ObserverEnter(g, m) PROVE TypeOK'
  BY <1>6 DEF ObserverEnter
<1>7. ASSUME NEW m \in Methods, OptionalEnter(g, m) PROVE TypeOK'
  BY <1>7 DEF OptionalEnter
<1>8. ASSUME NEW m \in Methods, OptionalUnsupported(g, m) PROVE TypeOK'
  BY <1>8 DEF OptionalUnsupported
<1>8a. ASSUME NEW m \in Methods, DirectEnter(g, m) PROVE TypeOK'
  BY <1>8a, DirectMethod DEF DirectEnter
<1>9. CASE ExecuteAcquire(g)
  BY <1>9 DEF ExecuteAcquire, AcquireExecute, AcquireFrom
<1>10. CASE ExecuteRefused(g)
  BY <1>10 DEF ExecuteRefused, AcquireExecutePanics, AcquirePanics
<1>11. CASE CommitAcquire(g)
  BY <1>11 DEF CommitAcquire, AcquireCommit, AcquireFrom
<1>12. CASE CommitRefused(g)
  BY <1>12 DEF CommitRefused, AcquireCommitPanics, AcquirePanics
<1>13. CASE HandshakeAnswered(g)
  BY <1>13 DEF HandshakeAnswered, FailHandshake
<1>14. CASE HandshakeComplete(g)
  BY <1>14 DEF HandshakeComplete, CompleteHandshake
<1>15. CASE ExecuteStore(g)
  BY <1>15 DEF ExecuteStore, AcquireExecuteStore, AcquireStore
<1>16. CASE ExecuteAnswered(g)
  BY <1>16 DEF ExecuteAnswered, FailExecute, Release
<1>17. CASE ExecuteOutcome(g)
  BY <1>17 DEF ExecuteOutcome
<1>18. CASE ExecuteComplete(g)
  BY <1>18 DEF ExecuteComplete, CompleteExecute, Release
<1>19. CASE CommitStore(g)
  BY <1>19 DEF CommitStore, AcquireCommitStore, AcquireStore
<1>20. CASE CommitAnswered(g)
  BY <1>20 DEF CommitAnswered
<1>21. CASE CommitOutcome(g)
  BY <1>21 DEF CommitOutcome
<1>22. CASE CommitComplete(g)
  BY <1>22 DEF CommitComplete, CompleteCommit, Release
<1>23. CASE ObserverGate(g)
  BY <1>23 DEF ObserverGate, CheckConcurrent
<1>24. CASE AppAnswers(g)
  BY <1>24 DEF AppAnswers
<1>25. CASE AppPanics(g)
  BY <1>25 DEF AppPanics
<1>26. QED
  BY <1>1, <1>2, <1>3, <1>4, <1>5, <1>6, <1>7, <1>8, <1>8a, <1>9, <1>10, <1>11,
     <1>12, <1>13, <1>14, <1>15, <1>16, <1>17, <1>18, <1>19, <1>20, <1>21,
     <1>22, <1>23, <1>24, <1>25
     DEF Step, Begin, Acquire, Continue

(* Every step keeps each goroutine inside the method it called. *)
LEMMA ShapeStep ==
  ASSUME Inv, NEW g \in Callers, Step(g)
  PROVE  CallShape'
<1> USE ServerAssumption DEF Inv, TypeOK, GuardTypeOK, lifecycleState,
      Locations, AllMethods, SequencedMethods, ConcurrentMethods,
      ObserverMethods, OptionalMethods, CallShape, At, Calls, Enter, Goto,
      Immediate, Return, guardVars, appVars
<1>1. CASE HandshakeEnter(g)
  BY <1>1 DEF HandshakeEnter, AcquireHandshake
<1>2. CASE HandshakeRefused(g)
  BY <1>2 DEF HandshakeRefused, AcquireHandshakePanics
<1>3. CASE ExecuteEnter(g)
  BY <1>3 DEF ExecuteEnter
<1>4. CASE CommitEnter(g)
  BY <1>4 DEF CommitEnter
<1>5. ASSUME NEW m \in Methods, ConcurrentEnter(g, m) PROVE CallShape'
  BY <1>5 DEF ConcurrentEnter, CheckConcurrent
<1>6. ASSUME NEW m \in Methods, ObserverEnter(g, m) PROVE CallShape'
  BY <1>6 DEF ObserverEnter
<1>7. ASSUME NEW m \in Methods, OptionalEnter(g, m) PROVE CallShape'
  BY <1>7 DEF OptionalEnter
<1>8. ASSUME NEW m \in Methods, OptionalUnsupported(g, m) PROVE CallShape'
  BY <1>8 DEF OptionalUnsupported
<1>8a. ASSUME NEW m \in Methods, DirectEnter(g, m) PROVE CallShape'
  BY <1>8a, DirectMethod DEF DirectEnter
<1>9. CASE ExecuteAcquire(g)
  BY <1>9 DEF ExecuteAcquire, AcquireExecute, AcquireFrom
<1>10. CASE ExecuteRefused(g)
  BY <1>10 DEF ExecuteRefused, AcquireExecutePanics, AcquirePanics
<1>11. CASE CommitAcquire(g)
  BY <1>11 DEF CommitAcquire, AcquireCommit, AcquireFrom
<1>12. CASE CommitRefused(g)
  BY <1>12 DEF CommitRefused, AcquireCommitPanics, AcquirePanics
<1>13. CASE HandshakeAnswered(g)
  BY <1>13 DEF HandshakeAnswered, FailHandshake
<1>14. CASE HandshakeComplete(g)
  BY <1>14 DEF HandshakeComplete, CompleteHandshake
<1>15. CASE ExecuteStore(g)
  BY <1>15 DEF ExecuteStore, AcquireExecuteStore, AcquireStore
<1>16. CASE ExecuteAnswered(g)
  BY <1>16 DEF ExecuteAnswered, FailExecute, Release
<1>17. CASE ExecuteOutcome(g)
  BY <1>17 DEF ExecuteOutcome
<1>18. CASE ExecuteComplete(g)
  BY <1>18 DEF ExecuteComplete, CompleteExecute, Release
<1>19. CASE CommitStore(g)
  BY <1>19 DEF CommitStore, AcquireCommitStore, AcquireStore
<1>20. CASE CommitAnswered(g)
  BY <1>20 DEF CommitAnswered
<1>21. CASE CommitOutcome(g)
  BY <1>21 DEF CommitOutcome
<1>22. CASE CommitComplete(g)
  BY <1>22 DEF CommitComplete, CompleteCommit, Release
<1>23. CASE ObserverGate(g)
  BY <1>23 DEF ObserverGate, CheckConcurrent
<1>24. CASE AppAnswers(g)
  BY <1>24 DEF AppAnswers
<1>25. CASE AppPanics(g)
  BY <1>25 DEF AppPanics
<1>26. QED
  BY <1>1, <1>2, <1>3, <1>4, <1>5, <1>6, <1>7, <1>8, <1>8a, <1>9, <1>10, <1>11,
     <1>12, <1>13, <1>14, <1>15, <1>16, <1>17, <1>18, <1>19, <1>20, <1>21,
     <1>22, <1>23, <1>24, <1>25
     DEF Step, Begin, Acquire, Continue

(* Only the holder of seqMu passes its acquisition. *)
LEMMA LockStep ==
  ASSUME Inv, NEW g \in Callers, Step(g)
  PROVE  LockInv'
<1> USE DEF Inv, TypeOK, GuardTypeOK, CallShape, SequencedMethods,
      ConcurrentMethods, ObserverMethods, OptionalMethods, LockInv,
      SeqExclusion, Holds, At, Calls, Enter, Goto, Immediate, Return,
      guardVars, appVars
<1>1. CASE HandshakeEnter(g)
  BY <1>1 DEF HandshakeEnter, AcquireHandshake
<1>2. CASE HandshakeRefused(g)
  BY <1>2 DEF HandshakeRefused, AcquireHandshakePanics
<1>3. CASE ExecuteEnter(g)
  BY <1>3 DEF ExecuteEnter
<1>4. CASE CommitEnter(g)
  BY <1>4 DEF CommitEnter
<1>5. ASSUME NEW m \in Methods, ConcurrentEnter(g, m) PROVE LockInv'
  BY <1>5 DEF ConcurrentEnter, CheckConcurrent
<1>6. ASSUME NEW m \in Methods, ObserverEnter(g, m) PROVE LockInv'
  BY <1>6 DEF ObserverEnter
<1>7. ASSUME NEW m \in Methods, OptionalEnter(g, m) PROVE LockInv'
  BY <1>7 DEF OptionalEnter
<1>8. ASSUME NEW m \in Methods, OptionalUnsupported(g, m) PROVE LockInv'
  BY <1>8 DEF OptionalUnsupported
<1>8a. ASSUME NEW m \in Methods, DirectEnter(g, m) PROVE LockInv'
  BY <1>8a, DirectMethod DEF DirectEnter
<1>9. CASE ExecuteAcquire(g)
  BY <1>9 DEF ExecuteAcquire, AcquireExecute, AcquireFrom
<1>10. CASE ExecuteRefused(g)
  BY <1>10 DEF ExecuteRefused, AcquireExecutePanics, AcquirePanics
<1>11. CASE CommitAcquire(g)
  BY <1>11 DEF CommitAcquire, AcquireCommit, AcquireFrom
<1>12. CASE CommitRefused(g)
  BY <1>12 DEF CommitRefused, AcquireCommitPanics, AcquirePanics
<1>13. CASE HandshakeAnswered(g)
  BY <1>13 DEF HandshakeAnswered, FailHandshake
<1>14. CASE HandshakeComplete(g)
  BY <1>14 DEF HandshakeComplete, CompleteHandshake
<1>15. CASE ExecuteStore(g)
  BY <1>15 DEF ExecuteStore, AcquireExecuteStore, AcquireStore
<1>16. CASE ExecuteAnswered(g)
  BY <1>16 DEF ExecuteAnswered, FailExecute, Release
<1>17. CASE ExecuteOutcome(g)
  BY <1>17 DEF ExecuteOutcome
<1>18. CASE ExecuteComplete(g)
  BY <1>18 DEF ExecuteComplete, CompleteExecute, Release
<1>19. CASE CommitStore(g)
  BY <1>19 DEF CommitStore, AcquireCommitStore, AcquireStore
<1>20. CASE CommitAnswered(g)
  BY <1>20 DEF CommitAnswered
<1>21. CASE CommitOutcome(g)
  BY <1>21 DEF CommitOutcome
<1>22. CASE CommitComplete(g)
  BY <1>22 DEF CommitComplete, CompleteCommit, Release
<1>23. CASE ObserverGate(g)
  BY <1>23 DEF ObserverGate, CheckConcurrent
<1>24. CASE AppAnswers(g)
  BY <1>24 DEF AppAnswers
<1>25. CASE AppPanics(g)
  BY <1>25 DEF AppPanics
<1>26. QED
  BY <1>1, <1>2, <1>3, <1>4, <1>5, <1>6, <1>7, <1>8, <1>8a, <1>9, <1>10, <1>11,
     <1>12, <1>13, <1>14, <1>15, <1>16, <1>17, <1>18, <1>19, <1>20, <1>21,
     <1>22, <1>23, <1>24, <1>25
     DEF Step, Begin, Acquire, Continue

(* A handshake under way keeps the state off Init, which excludes another. *)
LEMMA HandshakeStep ==
  ASSUME Inv, NEW g \in Callers, Step(g)
  PROVE  HandshakeInv'
<1> USE DEF Inv, TypeOK, GuardTypeOK, CallShape, SequencedMethods,
      ConcurrentMethods, ObserverMethods, OptionalMethods, HandshakeInv,
      HandshakeOnce, At, Calls, Enter, Goto, Immediate, Return, guardVars,
      appVars
<1>1. CASE HandshakeEnter(g)
  BY <1>1 DEF HandshakeEnter, AcquireHandshake
<1>2. CASE HandshakeRefused(g)
  BY <1>2 DEF HandshakeRefused, AcquireHandshakePanics
<1>3. CASE ExecuteEnter(g)
  BY <1>3 DEF ExecuteEnter
<1>4. CASE CommitEnter(g)
  BY <1>4 DEF CommitEnter
<1>5. ASSUME NEW m \in Methods, ConcurrentEnter(g, m) PROVE HandshakeInv'
  BY <1>5 DEF ConcurrentEnter, CheckConcurrent
<1>6. ASSUME NEW m \in Methods, ObserverEnter(g, m) PROVE HandshakeInv'
  BY <1>6 DEF ObserverEnter
<1>7. ASSUME NEW m \in Methods, OptionalEnter(g, m) PROVE HandshakeInv'
  BY <1>7 DEF OptionalEnter
<1>8. ASSUME NEW m \in Methods, OptionalUnsupported(g, m) PROVE HandshakeInv'
  BY <1>8 DEF OptionalUnsupported
<1>8a. ASSUME NEW m \in Methods, DirectEnter(g, m) PROVE HandshakeInv'
  BY <1>8a, DirectMethod DEF DirectEnter
<1>9. CASE ExecuteAcquire(g)
  BY <1>9 DEF ExecuteAcquire, AcquireExecute, AcquireFrom
<1>10. CASE ExecuteRefused(g)
  BY <1>10 DEF ExecuteRefused, AcquireExecutePanics, AcquirePanics
<1>11. CASE CommitAcquire(g)
  BY <1>11 DEF CommitAcquire, AcquireCommit, AcquireFrom
<1>12. CASE CommitRefused(g)
  BY <1>12 DEF CommitRefused, AcquireCommitPanics, AcquirePanics
<1>13. CASE HandshakeAnswered(g)
  BY <1>13 DEF HandshakeAnswered, FailHandshake
<1>14. CASE HandshakeComplete(g)
  BY <1>14 DEF HandshakeComplete, CompleteHandshake
<1>15. CASE ExecuteStore(g)
  BY <1>15 DEF ExecuteStore, AcquireExecuteStore, AcquireStore
<1>16. CASE ExecuteAnswered(g)
  BY <1>16 DEF ExecuteAnswered, FailExecute, Release
<1>17. CASE ExecuteOutcome(g)
  BY <1>17 DEF ExecuteOutcome
<1>18. CASE ExecuteComplete(g)
  BY <1>18 DEF ExecuteComplete, CompleteExecute, Release
<1>19. CASE CommitStore(g)
  BY <1>19 DEF CommitStore, AcquireCommitStore, AcquireStore
<1>20. CASE CommitAnswered(g)
  BY <1>20 DEF CommitAnswered
<1>21. CASE CommitOutcome(g)
  BY <1>21 DEF CommitOutcome
<1>22. CASE CommitComplete(g)
  BY <1>22 DEF CommitComplete, CompleteCommit, Release
<1>23. CASE ObserverGate(g)
  BY <1>23 DEF ObserverGate, CheckConcurrent
<1>24. CASE AppAnswers(g)
  BY <1>24 DEF AppAnswers
<1>25. CASE AppPanics(g)
  BY <1>25 DEF AppPanics
<1>26. QED
  BY <1>1, <1>2, <1>3, <1>4, <1>5, <1>6, <1>7, <1>8, <1>8a, <1>9, <1>10, <1>11,
     <1>12, <1>13, <1>14, <1>15, <1>16, <1>17, <1>18, <1>19, <1>20, <1>21,
     <1>22, <1>23, <1>24, <1>25
     DEF Step, Begin, Acquire, Continue

(* The capabilities are written once, before the concurrent calls are let in. *)
LEMMA CapsStep ==
  ASSUME Inv, NEW g \in Callers, Step(g)
  PROVE  CapsInv'
<1> USE DEF Inv, TypeOK, GuardTypeOK, CallShape, SequencedMethods,
      ConcurrentMethods, ObserverMethods, OptionalMethods, HandshakeInv,
      HandshakeOnce, CapsInv, DispatchAfterHandshake, AsInterface, At,
      Calls, Enter, Goto, Immediate, Return, guardVars, appVars
<1>1. CASE HandshakeEnter(g)
  BY <1>1 DEF HandshakeEnter, AcquireHandshake
<1>2. CASE HandshakeRefused(g)
  BY <1>2 DEF HandshakeRefused, AcquireHandshakePanics
<1>3. CASE ExecuteEnter(g)
  BY <1>3 DEF ExecuteEnter
<1>4. CASE CommitEnter(g)
  BY <1>4 DEF CommitEnter
<1>5. ASSUME NEW m \in Methods, ConcurrentEnter(g, m) PROVE CapsInv'
  BY <1>5 DEF ConcurrentEnter, CheckConcurrent
<1>6. ASSUME NEW m \in Methods, ObserverEnter(g, m) PROVE CapsInv'
  BY <1>6, ObserverInterface DEF ObserverEnter, CapsRead
<1>7. ASSUME NEW m \in Methods, OptionalEnter(g, m) PROVE CapsInv'
  BY <1>7 DEF OptionalEnter
<1>8. ASSUME NEW m \in Methods, OptionalUnsupported(g, m) PROVE CapsInv'
  BY <1>8 DEF OptionalUnsupported
<1>8a. ASSUME NEW m \in Methods, DirectEnter(g, m) PROVE CapsInv'
  BY <1>8a, DirectMethod DEF DirectEnter, CapsRead
<1>9. CASE ExecuteAcquire(g)
  BY <1>9 DEF ExecuteAcquire, AcquireExecute, AcquireFrom
<1>10. CASE ExecuteRefused(g)
  BY <1>10 DEF ExecuteRefused, AcquireExecutePanics, AcquirePanics
<1>11. CASE CommitAcquire(g)
  BY <1>11 DEF CommitAcquire, AcquireCommit, AcquireFrom
<1>12. CASE CommitRefused(g)
  BY <1>12 DEF CommitRefused, AcquireCommitPanics, AcquirePanics
<1>13. CASE HandshakeAnswered(g)
  BY <1>13 DEF HandshakeAnswered, FailHandshake, discoverCapabilities
<1>14. CASE HandshakeComplete(g)
  BY <1>14 DEF HandshakeComplete, CompleteHandshake
<1>15. CASE ExecuteStore(g)
  BY <1>15 DEF ExecuteStore, AcquireExecuteStore, AcquireStore
<1>16. CASE ExecuteAnswered(g)
  BY <1>16 DEF ExecuteAnswered, FailExecute, Release
<1>17. CASE ExecuteOutcome(g)
  BY <1>17 DEF ExecuteOutcome
<1>18. CASE ExecuteComplete(g)
  BY <1>18 DEF ExecuteComplete, CompleteExecute, Release
<1>19. CASE CommitStore(g)
  BY <1>19 DEF CommitStore, AcquireCommitStore, AcquireStore
<1>20. CASE CommitAnswered(g)
  BY <1>20 DEF CommitAnswered
<1>21. CASE CommitOutcome(g)
  BY <1>21 DEF CommitOutcome
<1>22. CASE CommitComplete(g)
  BY <1>22 DEF CommitComplete, CompleteCommit, Release
<1>23. CASE ObserverGate(g)
  BY <1>23 DEF ObserverGate, CheckConcurrent
<1>24. CASE AppAnswers(g)
  BY <1>24 DEF AppAnswers
<1>25. CASE AppPanics(g)
  BY <1>25 DEF AppPanics
<1>26. QED
  BY <1>1, <1>2, <1>3, <1>4, <1>5, <1>6, <1>7, <1>8, <1>8a, <1>9, <1>10, <1>11,
     <1>12, <1>13, <1>14, <1>15, <1>16, <1>17, <1>18, <1>19, <1>20, <1>21,
     <1>22, <1>23, <1>24, <1>25
     DEF Step, Begin, Acquire, Continue

(* Between the outcome of a block and its Commit nothing is staged. *)
LEMMA OutcomeStep ==
  ASSUME Inv, NEW g \in Callers, Step(g)
  PROVE  OutcomeInv'
<1> USE ServerAssumption DEF Inv, TypeOK, GuardTypeOK, CallShape,
      SequencedMethods, ConcurrentMethods, ObserverMethods, OptionalMethods,
      LockInv, SeqExclusion, Holds, OutcomeInv, OutcomePending, At, Calls,
      Enter, Goto, Immediate, Return, guardVars, appVars
<1>1. CASE HandshakeEnter(g)
  BY <1>1 DEF HandshakeEnter, AcquireHandshake
<1>2. CASE HandshakeRefused(g)
  BY <1>2 DEF HandshakeRefused, AcquireHandshakePanics
<1>3. CASE ExecuteEnter(g)
  BY <1>3 DEF ExecuteEnter
<1>4. CASE CommitEnter(g)
  BY <1>4 DEF CommitEnter
<1>5. ASSUME NEW m \in Methods, ConcurrentEnter(g, m) PROVE OutcomeInv'
  BY <1>5 DEF ConcurrentEnter, CheckConcurrent
<1>6. ASSUME NEW m \in Methods, ObserverEnter(g, m) PROVE OutcomeInv'
  BY <1>6 DEF ObserverEnter
<1>7. ASSUME NEW m \in Methods, OptionalEnter(g, m) PROVE OutcomeInv'
  BY <1>7 DEF OptionalEnter
<1>8. ASSUME NEW m \in Methods, OptionalUnsupported(g, m) PROVE OutcomeInv'
  BY <1>8 DEF OptionalUnsupported
<1>8a. ASSUME NEW m \in Methods, DirectEnter(g, m) PROVE OutcomeInv'
  BY <1>8a, DirectMethod DEF DirectEnter
<1>9. CASE ExecuteAcquire(g)
  BY <1>9 DEF ExecuteAcquire, AcquireExecute, AcquireFrom
<1>10. CASE ExecuteRefused(g)
  BY <1>10 DEF ExecuteRefused, AcquireExecutePanics, AcquirePanics
<1>11. CASE CommitAcquire(g)
  BY <1>11 DEF CommitAcquire, AcquireCommit, AcquireFrom
<1>12. CASE CommitRefused(g)
  BY <1>12 DEF CommitRefused, AcquireCommitPanics, AcquirePanics
<1>13. CASE HandshakeAnswered(g)
  BY <1>13 DEF HandshakeAnswered, FailHandshake
<1>14. CASE HandshakeComplete(g)
  BY <1>14 DEF HandshakeComplete, CompleteHandshake
<1>15. CASE ExecuteStore(g)
  BY <1>15 DEF ExecuteStore, AcquireExecuteStore, AcquireStore
<1>16. CASE ExecuteAnswered(g)
  BY <1>16 DEF ExecuteAnswered, FailExecute, Release
<1>17. CASE ExecuteOutcome(g)
  BY <1>17 DEF ExecuteOutcome
<1>18. CASE ExecuteComplete(g)
  BY <1>18 DEF ExecuteComplete, CompleteExecute, Release
<1>19. CASE CommitStore(g)
  BY <1>19 DEF CommitStore, AcquireCommitStore, AcquireStore
<1>20. CASE CommitAnswered(g)
  BY <1>20 DEF CommitAnswered
<1>21. CASE CommitOutcome(g)
  BY <1>21 DEF CommitOutcome
<1>22. CASE CommitComplete(g)
  BY <1>22 DEF CommitComplete, CompleteCommit, Release
<1>23. CASE ObserverGate(g)
  BY <1>23 DEF ObserverGate, CheckConcurrent
<1>24. CASE AppAnswers(g)
  BY <1>24 DEF AppAnswers
<1>25. CASE AppPanics(g)
  BY <1>25 DEF AppPanics
<1>26. QED
  BY <1>1, <1>2, <1>3, <1>4, <1>5, <1>6, <1>7, <1>8, <1>8a, <1>9, <1>10, <1>11,
     <1>12, <1>13, <1>14, <1>15, <1>16, <1>17, <1>18, <1>19, <1>20, <1>21,
     <1>22, <1>23, <1>24, <1>25
     DEF Step, Begin, Acquire, Continue

(* Every step of the specification, stuttering included, keeps the invariant. *)
LEMMA NextInv == Inv /\ [Next]_vars => Inv'
<1> SUFFICES ASSUME Inv, [Next]_vars PROVE Inv'
  OBVIOUS
<1>1. ASSUME NEW g \in Callers, Step(g) PROVE Inv'
  BY <1>1, TypeStep, ShapeStep, LockStep, HandshakeStep, CapsStep, OutcomeStep DEF Inv
<1>2. CASE UNCHANGED vars
  BY <1>2
  DEF vars, callVars, guardVars, appVars, Inv, TypeOK, GuardTypeOK, CallShape, LockInv,
      SeqExclusion, Holds, HandshakeInv, HandshakeOnce, CapsInv, DispatchAfterHandshake,
      AsInterface, OutcomeInv, OutcomePending, At
<1>3. QED
  BY <1>1, <1>2 DEF Next, Step

(* Inv is an invariant of the server. *)
THEOREM Invariance == Spec => []Inv
  BY InitInv, NextInv, PTL DEF Spec

(* The server's variables keep their types. *)
THEOREM TypeCorrect == Spec => []TypeOK
<1>1. Inv => TypeOK
  BY DEF Inv
<1>2. QED
  BY <1>1, Invariance, PTL

(* ExecuteBlock and Commit never overlap, for any number of goroutines. *)
THEOREM Exclusion == Spec => []SeqExclusion
<1>1. Inv => SeqExclusion
  BY DEF Inv, LockInv
<1>2. QED
  BY <1>1, Invariance, PTL

(* Commit persists the block whose outcome ExecuteBlock returned last. *)
THEOREM CommitPersists == Spec => []CommitPersistsReturnedOutcome
<1>1. Inv => CommitPersistsReturnedOutcome
  BY DEF Inv, OutcomeInv, CommitPersistsReturnedOutcome
<1>2. QED
  BY <1>1, Invariance, PTL

(* At most one Handshake at a time, and none after one that succeeded. *)
THEOREM OneHandshake == Spec => []HandshakeOnce
<1>1. Inv => HandshakeOnce
  BY DEF Inv, HandshakeInv
<1>2. QED
  BY <1>1, Invariance, PTL

(* Concurrent calls and callbacks reach the application only after Handshake, *)
(* and calls on the interfaces it handed out only once it has declared them.  *)
THEOREM GatedDispatch == Spec => []DispatchAfterHandshake
<1>1. Inv => DispatchAfterHandshake
  BY DEF Inv, CapsInv
<1>2. QED
  BY <1>1, Invariance, PTL

(* Only the answer to a Handshake writes caps. *)
LEMMA CapsWriter ==
  ASSUME NEW g \in Callers, Step(g), ~HandshakeAnswered(g)
  PROVE  UNCHANGED caps
  BY DEF Step, Begin, Acquire, Continue, HandshakeEnter, HandshakeRefused, ExecuteEnter,
     CommitEnter, ConcurrentEnter, ObserverEnter, OptionalEnter, OptionalUnsupported,
     DirectEnter,
     ExecuteAcquire, ExecuteRefused, CommitAcquire, CommitRefused, HandshakeComplete,
     ExecuteStore, ExecuteAnswered, ExecuteOutcome, ExecuteComplete, CommitStore,
     CommitAnswered, CommitOutcome, CommitComplete, ObserverGate, AppAnswers, AppPanics

(* The declared capabilities are final once a Handshake has succeeded. *)
THEOREM CapsAreSettled == Spec => CapsSettled
<1>1. ASSUME Inv, Inv', [Next]_vars
      PROVE  [(handshakeDone => UNCHANGED caps) /\ caps' \subseteq Implemented]_vars
  <2>1. caps' \subseteq Implemented
    BY <1>1 DEF Inv, CapsInv
  <2>2. ASSUME NEW g \in Callers, HandshakeAnswered(g) PROVE ~handshakeDone
    BY <1>1, <2>2 DEF Inv, HandshakeInv, HandshakeOnce, HandshakeAnswered, At
  <2>3. QED
    BY <1>1, <2>1, <2>2, CapsWriter DEF Next, Step
<1>2. QED
  BY <1>1, Invariance, PTL DEF Spec, CapsSettled

(* Once the application has panicked in ExecuteBlock or Commit, seqMu stays  *)
(* locked: nobody holds it, and nobody without it releases it or stages.     *)
LEMMA OrphanStep ==
  ASSUME Inv, Orphaned, NEW g \in Callers, Step(g)
  PROVE  Orphaned' /\ UNCHANGED appStaged
<1> USE DEF Inv, TypeOK, GuardTypeOK, CallShape, Orphaned, Holds, SequencedMethods,
      ConcurrentMethods, ObserverMethods, OptionalMethods, At, Calls, Enter, Goto,
      Immediate, Return, guardVars, appVars
<1>1. CASE Begin(g)
  BY <1>1, DirectMethod DEF Begin, HandshakeEnter, AcquireHandshake, HandshakeRefused,
     AcquireHandshakePanics, ExecuteEnter, CommitEnter, ConcurrentEnter, ObserverEnter,
     OptionalEnter, OptionalUnsupported, DirectEnter
<1>2. CASE Acquire(g)
  BY <1>2 DEF Acquire, ExecuteAcquire, ExecuteRefused, CommitAcquire, CommitRefused,
     AcquireExecute, AcquireExecutePanics, AcquireCommit, AcquireCommitPanics,
     AcquireFrom, AcquirePanics
<1>3. CASE HandshakeAnswered(g) \/ HandshakeComplete(g)
  BY <1>3 DEF HandshakeAnswered, FailHandshake, HandshakeComplete, CompleteHandshake
<1>4. CASE ObserverGate(g) \/ AppAnswers(g) \/ AppPanics(g)
  BY <1>4 DEF ObserverGate, AppAnswers, AppPanics
<1>5. QED
  BY <1>1, <1>2, <1>3, <1>4
  DEF Step, Continue, ExecuteStore, ExecuteAnswered, ExecuteOutcome, ExecuteComplete,
      CommitStore, CommitAnswered, CommitOutcome, CommitComplete

(* A panic in a sequenced call orphans the mutex: it was held by the call    *)
(* that panicked, and by nobody else.                                        *)
LEMMA PanicOrphans ==
  ASSUME Inv, NEW g \in Callers, Step(g), NEW k \in Callers, PanicStep(k)
  PROVE  Orphaned'
<1> USE DEF Inv, TypeOK, GuardTypeOK, CallShape, SequencedMethods, ConcurrentMethods,
      ObserverMethods, OptionalMethods, At, Calls, Enter, Goto, Immediate, Return,
      PanicStep
<1>1. CASE Begin(g)
  BY <1>1 DEF Begin, HandshakeEnter, HandshakeRefused, ExecuteEnter, CommitEnter,
     ConcurrentEnter, ObserverEnter, OptionalEnter, OptionalUnsupported, DirectEnter
<1>2. CASE Acquire(g)
  BY <1>2 DEF Acquire, ExecuteAcquire, ExecuteRefused, CommitAcquire, CommitRefused
<1>3. CASE HandshakeAnswered(g) \/ HandshakeComplete(g) \/ ObserverGate(g) \/ AppAnswers(g)
  BY <1>3 DEF HandshakeAnswered, HandshakeComplete, ObserverGate, AppAnswers
<1>4. CASE ExecuteStore(g) \/ ExecuteAnswered(g) \/ ExecuteOutcome(g) \/ ExecuteComplete(g)
  BY <1>4 DEF ExecuteErrors, ExecuteStore, ExecuteAnswered, ExecuteOutcome, ExecuteComplete
<1>5. CASE CommitStore(g) \/ CommitAnswered(g) \/ CommitOutcome(g) \/ CommitComplete(g)
  BY <1>5 DEF CommitStore, CommitAnswered, CommitOutcome, CommitComplete
<1>6. CASE AppPanics(g)
  <2>1. g = k
    BY <1>6 DEF AppPanics
  <2>2. Holds(g) /\ seqMu = "locked" /\ \A j \in Callers : Holds(j) => j = g
    BY <2>1 DEF LockInv, SeqExclusion, Holds
  <2>3. QED
    BY <1>6, <2>1, <2>2 DEF AppPanics, Orphaned, Holds, guardVars
<1>7. QED
  BY <1>1, <1>2, <1>3, <1>4, <1>5, <1>6 DEF Step, Continue

(* A panic of the application in a sequenced call is final. *)
THEOREM PanicFinal == Spec => PanicIsFinal
<1>1. ASSUME Inv, [Next]_vars
      PROVE  [/\ \A g \in Callers : PanicStep(g) => Orphaned'
              /\ Orphaned => Orphaned' /\ UNCHANGED appStaged]_vars
  BY <1>1, OrphanStep, PanicOrphans DEF Next, Step
<1>2. QED
  BY <1>1, Invariance, PTL DEF Spec, PanicIsFinal

=============================================================================
