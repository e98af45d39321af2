----------------------- MODULE ServerRefinementProofs -----------------------
(***************************************************************************)
(* Proofs about Server under an engine that awaits Handshake: the guard    *)
(* then moves along its documented edges, LastOutcome is there exactly     *)
(* between ExecuteBlock and Commit, and the server implements              *)
(* LifecycleContract.  StrictInv says which state goes with each place of  *)
(* the goroutine that holds seqMu; it fails without the discipline,        *)
(* because a Handshake then moves the state under that goroutine.          *)
(***************************************************************************)
EXTENDS ServerProofs

(* The exact state at each place, and when an outcome is held. *)
StrictInv ==
    /\ OutcomeWindow
    /\ ~handshakeDone => state \in {"Init", "Ready"} /\ lastOutcome = 0
    /\ \A g \in Callers :
        /\ op[g] \notin {"none", "Handshake"} => handshakeDone
        /\ At(g, "ExecuteBlock", "store") => state = "Ready"
        /\ op[g] = "ExecuteBlock" /\ pc[g] \in {"app", "outcome", "complete"} =>
             state = "Executing"
        /\ op[g] = "ExecuteBlock" /\ pc[g] \in {"app", "outcome"} => lastOutcome = 0
        /\ At(g, "Commit", "store") => state = "Executed"
        /\ op[g] = "Commit" /\ pc[g] \in {"app", "outcome", "complete"} =>
             state = "Committing"
        /\ At(g, "Commit", "complete") => lastOutcome = 0

(* The step is one of the contract's, or leaves the mapped state alone. *)
Simulates == Contract!ContractNext \/ UNCHANGED Contract!contractVars

(* The step follows a documented edge of the guard, or leaves its state alone. *)
FollowsEdge ==
    \/ UNCHANGED state
    \/ /\ <<state, state'>> \in
            {<<"Init", "Ready">>, <<"Ready", "Init">>, <<"Ready", "Executing">>,
             <<"Executing", "Executed">>, <<"Executing", "Ready">>,
             <<"Executed", "Committing">>, <<"Committing", "Ready">>}
       /\ handshakeDone => state' # "Init"

-----------------------------------------------------------------------------

(* With the engine's discipline every step keeps the exact states. *)
LEMMA StrictStep ==
  ASSUME HandshakeFirst, Inv, StrictInv, NEW g \in Callers, Step(g)
  PROVE  StrictInv'
<1> USE ServerAssumption DEF Inv, TypeOK, GuardTypeOK,
      CallShape, SequencedMethods, ConcurrentMethods, ObserverMethods,
      OptionalMethods, LockInv, SeqExclusion, Holds, HandshakeInv,
      HandshakeOnce, StrictInv, OutcomeWindow, At, Calls, Enter, Goto,
      Immediate, Return, guardVars, appVars
<1>1. CASE HandshakeEnter(g)
  BY <1>1 DEF HandshakeEnter, AcquireHandshake
<1>2. CASE HandshakeRefused(g)
  BY <1>2 DEF HandshakeRefused, AcquireHandshakePanics
<1>3. CASE ExecuteEnter(g)
  BY <1>3 DEF ExecuteEnter
<1>4. CASE CommitEnter(g)
  BY <1>4 DEF CommitEnter
<1>5. ASSUME NEW m \in Methods, ConcurrentEnter(g, m) PROVE StrictInv'
  BY <1>5 DEF ConcurrentEnter, CheckConcurrent
<1>6. ASSUME NEW m \in Methods, ObserverEnter(g, m) PROVE StrictInv'
  BY <1>6 DEF ObserverEnter
<1>7. ASSUME NEW m \in Methods, OptionalEnter(g, m) PROVE StrictInv'
  BY <1>7 DEF OptionalEnter
<1>8. ASSUME NEW m \in Methods, OptionalUnsupported(g, m) PROVE StrictInv'
  BY <1>8 DEF OptionalUnsupported
<1>8a. ASSUME NEW m \in Methods, DirectEnter(g, m) PROVE StrictInv'
  BY <1>8a, DirectMethod DEF DirectEnter
<1>9. CASE ExecuteAcquire(g)
  BY <1>9 DEF ExecuteAcquire, AcquireExecute, AcquireFrom
<1>10. CASE ExecuteRefused(g)
  BY <1>10 DEF ExecuteRefused, AcquireExecutePanics, AcquirePanics
<1>11. CASE CommitAcquire(g)
  BY <1>11 DEF CommitAcquire, AcquireCommit, AcquireFrom
<1>12. CASE CommitRefused(g)
  BY <1>12 DEF CommitRefused, AcquireCommitPanics, AcquirePanics
<1>13. CASE HandshakeAnswered(g)
  BY <1>13 DEF HandshakeAnswered, FailHandshake
<1>14. CASE HandshakeComplete(g)
  BY <1>14 DEF HandshakeComplete, CompleteHandshake
<1>15. CASE ExecuteStore(g)
  BY <1>15 DEF ExecuteStore, AcquireExecuteStore, AcquireStore
<1>16. CASE ExecuteAnswered(g)
  BY <1>16 DEF ExecuteAnswered, FailExecute, Release
<1>17. CASE ExecuteOutcome(g)
  BY <1>17 DEF ExecuteOutcome
<1>18. CASE ExecuteComplete(g)
  BY <1>18 DEF ExecuteComplete, CompleteExecute, Release, OutcomeInv, OutcomePending
<1>19. CASE CommitStore(g)
  BY <1>19 DEF CommitStore, AcquireCommitStore, AcquireStore
<1>20. CASE CommitAnswered(g)
  BY <1>20 DEF CommitAnswered
<1>21. CASE CommitOutcome(g)
  BY <1>21 DEF CommitOutcome
<1>22. CASE CommitComplete(g)
  BY <1>22 DEF CommitComplete, CompleteCommit, Release
<1>23. CASE ObserverGate(g)
  BY <1>23 DEF ObserverGate, CheckConcurrent
<1>24. CASE AppAnswers(g)
  BY <1>24 DEF AppAnswers
<1>25. CASE AppPanics(g)
  BY <1>25 DEF AppPanics
<1>26. QED
  BY <1>1, <1>2, <1>3, <1>4, <1>5, <1>6, <1>7, <1>8, <1>8a, <1>9, <1>10, <1>11,
     <1>12, <1>13, <1>14, <1>15, <1>16, <1>17, <1>18, <1>19, <1>20, <1>21,
     <1>22, <1>23, <1>24, <1>25
     DEF Step, Begin, Acquire, Continue

(* Every step follows a documented edge or leaves the state alone. *)
LEMMA EdgeStep ==
  ASSUME HandshakeFirst, Inv, StrictInv, NEW g \in Callers, Step(g)
  PROVE  FollowsEdge
<1> USE DEF Inv, CallShape, HandshakeInv, HandshakeOnce, OutcomeInv,
      StrictInv, OutcomeWindow, FollowsEdge, At, Calls, Enter, Goto,
      Immediate, Return, guardVars
<1>1. CASE HandshakeEnter(g)
  BY <1>1 DEF HandshakeEnter, AcquireHandshake
<1>2. CASE HandshakeRefused(g)
  BY <1>2 DEF HandshakeRefused, AcquireHandshakePanics
<1>3. CASE ExecuteEnter(g)
  BY <1>3 DEF ExecuteEnter
<1>4. CASE CommitEnter(g)
  BY <1>4 DEF CommitEnter
<1>5. ASSUME NEW m \in Methods, ConcurrentEnter(g, m) PROVE FollowsEdge
  BY <1>5 DEF ConcurrentEnter, CheckConcurrent
<1>6. ASSUME NEW m \in Methods, ObserverEnter(g, m) PROVE FollowsEdge
  BY <1>6 DEF ObserverEnter
<1>7. ASSUME NEW m \in Methods, OptionalEnter(g, m) PROVE FollowsEdge
  BY <1>7 DEF OptionalEnter
<1>8. ASSUME NEW m \in Methods, OptionalUnsupported(g, m) PROVE FollowsEdge
  BY <1>8 DEF OptionalUnsupported
<1>8a. ASSUME NEW m \in Methods, DirectEnter(g, m) PROVE FollowsEdge
  BY <1>8a, DirectMethod DEF DirectEnter
<1>9. CASE ExecuteAcquire(g)
  BY <1>9 DEF ExecuteAcquire, AcquireExecute, AcquireFrom
<1>10. CASE ExecuteRefused(g)
  BY <1>10 DEF ExecuteRefused, AcquireExecutePanics, AcquirePanics
<1>11. CASE CommitAcquire(g)
  BY <1>11 DEF CommitAcquire, AcquireCommit, AcquireFrom
<1>12. CASE CommitRefused(g)
  BY <1>12 DEF CommitRefused, AcquireCommitPanics, AcquirePanics
<1>13. CASE HandshakeAnswered(g)
  BY <1>13 DEF HandshakeAnswered, FailHandshake
<1>14. CASE HandshakeComplete(g)
  BY <1>14 DEF HandshakeComplete, CompleteHandshake
<1>15. CASE ExecuteStore(g)
  BY <1>15 DEF ExecuteStore, AcquireExecuteStore, AcquireStore
<1>16. CASE ExecuteAnswered(g)
  BY <1>16 DEF ExecuteAnswered, FailExecute, Release
<1>17. CASE ExecuteOutcome(g)
  BY <1>17 DEF ExecuteOutcome
<1>18. CASE ExecuteComplete(g)
  BY <1>18 DEF ExecuteComplete, CompleteExecute, Release
<1>19. CASE CommitStore(g)
  BY <1>19 DEF CommitStore, AcquireCommitStore, AcquireStore
<1>20. CASE CommitAnswered(g)
  BY <1>20 DEF CommitAnswered
<1>21. CASE CommitOutcome(g)
  BY <1>21 DEF CommitOutcome
<1>22. CASE CommitComplete(g)
  BY <1>22 DEF CommitComplete, CompleteCommit, Release
<1>23. CASE ObserverGate(g)
  BY <1>23 DEF ObserverGate, CheckConcurrent
<1>24. CASE AppAnswers(g)
  BY <1>24 DEF AppAnswers
<1>25. CASE AppPanics(g)
  BY <1>25 DEF AppPanics
<1>26. QED
  BY <1>1, <1>2, <1>3, <1>4, <1>5, <1>6, <1>7, <1>8, <1>8a, <1>9, <1>10, <1>11,
     <1>12, <1>13, <1>14, <1>15, <1>16, <1>17, <1>18, <1>19, <1>20, <1>21,
     <1>22, <1>23, <1>24, <1>25
     DEF Step, Begin, Acquire, Continue

(* Every step is a step of the contract or changes nothing in it. *)
LEMMA ContractStep ==
  ASSUME HandshakeFirst, Inv, StrictInv, NEW g \in Callers, Step(g)
  PROVE  Simulates
<1> USE ServerAssumption DEF Inv, TypeOK, GuardTypeOK, CallShape,
      SequencedMethods, ConcurrentMethods, ObserverMethods, OptionalMethods,
      LockInv, SeqExclusion, Holds, HandshakeInv, HandshakeOnce, OutcomeInv,
      OutcomePending, StrictInv, OutcomeWindow, Simulates, contractPhase,
      contractPending, Uncommitted, Answered, Contract!ContractNext,
      Contract!Boot, Contract!Commit, Contract!ExecuteBlock,
      Contract!ImportSnapshot, Contract!contractVars, At, Calls, Enter,
      Goto, Immediate, Return, guardVars, appVars
<1>1. CASE HandshakeEnter(g)
  BY <1>1 DEF HandshakeEnter, AcquireHandshake
<1>2. CASE HandshakeRefused(g)
  BY <1>2 DEF HandshakeRefused, AcquireHandshakePanics
<1>3. CASE ExecuteEnter(g)
  BY <1>3 DEF ExecuteEnter
<1>4. CASE CommitEnter(g)
  BY <1>4 DEF CommitEnter
<1>5. ASSUME NEW m \in Methods, ConcurrentEnter(g, m) PROVE Simulates
  BY <1>5 DEF ConcurrentEnter, CheckConcurrent
<1>6. ASSUME NEW m \in Methods, ObserverEnter(g, m) PROVE Simulates
  BY <1>6 DEF ObserverEnter
<1>7. ASSUME NEW m \in Methods, OptionalEnter(g, m) PROVE Simulates
  BY <1>7 DEF OptionalEnter
<1>8. ASSUME NEW m \in Methods, OptionalUnsupported(g, m) PROVE Simulates
  BY <1>8 DEF OptionalUnsupported
<1>8a. ASSUME NEW m \in Methods, DirectEnter(g, m) PROVE Simulates
  BY <1>8a, DirectMethod DEF DirectEnter
<1>9. CASE ExecuteAcquire(g)
  BY <1>9 DEF ExecuteAcquire, AcquireExecute, AcquireFrom
<1>10. CASE ExecuteRefused(g)
  BY <1>10 DEF ExecuteRefused, AcquireExecutePanics, AcquirePanics
<1>11. CASE CommitAcquire(g)
  BY <1>11 DEF CommitAcquire, AcquireCommit, AcquireFrom
<1>12. CASE CommitRefused(g)
  BY <1>12 DEF CommitRefused, AcquireCommitPanics, AcquirePanics
<1>13. CASE HandshakeAnswered(g)
  BY <1>13 DEF HandshakeAnswered, FailHandshake
<1>14. CASE HandshakeComplete(g)
  BY <1>14 DEF HandshakeComplete, CompleteHandshake
<1>15. CASE ExecuteStore(g)
  BY <1>15 DEF ExecuteStore, AcquireExecuteStore, AcquireStore
<1>16. CASE ExecuteAnswered(g)
  <2>1. CASE pc'[g] = "outcome"
    <3>1. Contract!ExecuteBlock(height[g])
      BY <1>16, <2>1 DEF ExecuteAnswered, FailExecute, Release
    <3>2. QED
      BY <3>1, <1>16 DEF ExecuteAnswered
  <2>2. CASE pc'[g] # "outcome"
    <3>1. ~Uncommitted
      BY <1>16 DEF ExecuteAnswered
    <3>2. ~Uncommitted'
      BY <1>16, <2>2 DEF ExecuteAnswered, FailExecute, Release
    <3>3. UNCHANGED <<handshakeDone, appCommitted>>
      BY <1>16, <2>2 DEF ExecuteAnswered, FailExecute, Release
    <3>4. QED
      BY <3>1, <3>2, <3>3 DEF Contract!contractVars, contractPhase, contractPending
  <2>3. QED
    BY <2>1, <2>2
<1>17. CASE ExecuteOutcome(g)
  BY <1>17 DEF ExecuteOutcome
<1>18. CASE ExecuteComplete(g)
  BY <1>18 DEF ExecuteComplete, CompleteExecute, Release
<1>19. CASE CommitStore(g)
  BY <1>19 DEF CommitStore, AcquireCommitStore, AcquireStore
<1>20. CASE CommitAnswered(g)
  BY <1>20 DEF CommitAnswered
<1>21. CASE CommitOutcome(g)
  BY <1>21 DEF CommitOutcome
<1>22. CASE CommitComplete(g)
  BY <1>22 DEF CommitComplete, CompleteCommit, Release
<1>23. CASE ObserverGate(g)
  BY <1>23 DEF ObserverGate, CheckConcurrent
<1>24. CASE AppAnswers(g)
  <2>1. UNCHANGED <<contractPhase, contractPending>>
    BY <1>24 DEF AppAnswers
  <2>2. appCommitted' \in Heights \/ UNCHANGED appCommitted
    BY <1>24 DEF AppAnswers
  <2>3. QED
    BY <2>1, <2>2
<1>25. CASE AppPanics(g)
  BY <1>25 DEF AppPanics
<1>26. QED
  BY <1>1, <1>2, <1>3, <1>4, <1>5, <1>6, <1>7, <1>8, <1>8a, <1>9, <1>10, <1>11,
     <1>12, <1>13, <1>14, <1>15, <1>16, <1>17, <1>18, <1>19, <1>20, <1>21,
     <1>22, <1>23, <1>24, <1>25
     DEF Step, Begin, Acquire, Continue

(* Inv and StrictInv are invariants under the engine's discipline. *)
THEOREM StrictInvariance ==
  ASSUME HandshakeFirst
  PROVE  Spec => [](Inv /\ StrictInv)
<1>1. New => StrictInv
  BY DEF New, NewLifecycleGuard, StrictInv, OutcomeWindow, At
<1>2. Inv /\ StrictInv /\ [Next]_vars => StrictInv'
  <2> SUFFICES ASSUME Inv, StrictInv, [Next]_vars PROVE StrictInv'
    OBVIOUS
  <2>1. CASE UNCHANGED vars
    BY <2>1 DEF vars, callVars, guardVars, appVars, StrictInv, OutcomeWindow, At
  <2>2. QED
    BY <2>1, StrictStep DEF Next, Step
<1>3. QED
  BY <1>1, <1>2, InitInv, NextInv, PTL DEF Spec

(* LastOutcome is non-nil in Executed and nil in Ready, after errors too. *)
THEOREM OutcomeHeld ==
  ASSUME HandshakeFirst
  PROVE  Spec => []OutcomeWindow
<1>1. StrictInv => OutcomeWindow
  BY DEF StrictInv
<1>2. QED
  BY <1>1, StrictInvariance, PTL

(* The guard moves along the documented edges only, never back to Init. *)
THEOREM EdgesDocumented ==
  ASSUME HandshakeFirst
  PROVE  Spec => DocumentedEdges
<1>1. ASSUME Inv, StrictInv, [Next]_vars PROVE FollowsEdge
  BY <1>1, EdgeStep DEF Next, Step, FollowsEdge, vars, guardVars
<1>2. QED
  BY <1>1, StrictInvariance, PTL DEF Spec, DocumentedEdges, FollowsEdge

(* The server implements the call order promised to the application. *)
THEOREM Refinement ==
  ASSUME HandshakeFirst
  PROVE  Spec => ImplementsContract
<1>1. New => Contract!ContractInit
  BY DEF New, NewLifecycleGuard, Contract!ContractInit, contractPhase, contractPending,
     Uncommitted, Answered, At
<1>2. ASSUME Inv, StrictInv, [Next]_vars
      PROVE  [Contract!ContractNext]_(Contract!contractVars)
  <2>1. CASE UNCHANGED vars
    BY <2>1 DEF vars, guardVars, callVars, appVars, Contract!contractVars, contractPhase,
       contractPending, Uncommitted, Answered, At
  <2>2. QED
    BY <1>2, <2>1, ContractStep DEF Next, Step, Simulates
<1>3. QED
  BY <1>1, <1>2, StrictInvariance, PTL DEF Spec, ImplementsContract, Contract!ContractSpec

=============================================================================
