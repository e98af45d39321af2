--------------------------- MODULE GrpcLinkProofs ---------------------------
(***************************************************************************)
(* Proofs about GrpcLink, for every number of handlers, blocks and faults  *)
(* and every application that the server's proofs cover.                   *)
(*                                                                         *)
(* The application's process moves as Server does, so its invariant Inv    *)
(* carries over (a death of the process starts it anew).  What is added    *)
(* ties the two guards together along a call: where the client's guard     *)
(* stands in each step of a call; that the handler the client waits for    *)
(* runs the engine's call; that the response to a Handshake still          *)
(* describes the application if no other request was in a handler; and,    *)
(* during a session, that a Commit exists only while the engine is in      *)
(* Commit, alone, for the block the engine executed last.                  *)
(***************************************************************************)
EXTENDS GrpcLink, ServerProofs

(* Where the client's guard stands in each step of a call. *)
ClientInv ==
    /\ cPc = "idle" => cSeqMu = "unlocked" /\ ClientGuardAdmits
    /\ cPc = "store" =>
        /\ cSeqMu = "locked"
        /\ \/ ePhase = "ExecuteBlock" /\ cState = "Ready"
           \/ ePhase = "Commit" /\ cState = "Executed"
    /\ cPc \in {"invoke", "wait"} =>
        \/ ePhase = "Handshake" /\ cState = "Ready" /\ cSeqMu = "unlocked"
        \/ ePhase = "ExecuteBlock" /\ cState = "Executing" /\ cSeqMu = "locked"
        \/ ePhase = "Commit" /\ cState = "Committing" /\ cSeqMu = "locked"
    /\ eBroken => cPc = "idle" /\ cState # "Executed"
    /\ ePhase = "Halted" => cPc = "idle" /\ cState # "Executed"
    /\ (cPc = "wait") <=> (cServing # NoHandler)
    /\ cDone <=> (ePhase # "Handshake")

(* What the engine knows before and after Handshake. *)
EngineInv ==
    /\ ePhase = "Handshake" => eNext = 0 /\ cCaps = {} /\ ~session
    /\ ePhase # "Handshake" => eNext >= 1
    /\ cPc # "idle" \/ ePhase = "Commit" => eNext <= MaxHeight

(* No stream reaches a handler, and the handler that the client waits for    *)
(* runs the engine's call.                                                   *)
HandlersInv ==
    /\ \A g \in Callers :
        /\ op[g] \in UnaryMethods \cup {"none"}
        /\ At(g, "ExecuteBlock", "complete") => lastOutcome = height[g]
    /\ cServing \in Callers =>
        /\ op[cServing] \in {ePhase, "none"}
        /\ op[cServing] = "ExecuteBlock" => height[cServing] = eNext

(* The response to the client's Handshake, while it is on its way. *)
ResponseInv ==
    ePhase = "Handshake" /\ cServing \in Callers =>
        LET g == cServing IN
        At(g, "Handshake", "complete") \/ (pc[g] = "idle" /\ ret[g] = "ok") =>
            /\ pc[g] = "idle" => handshakeDone
            /\ response.caps = caps
            /\ response.alone => /\ response.height = appCommitted
                                 /\ \A k \in Callers \ {g} : pc[k] = "idle"

(* During a session both sides know the Handshake. *)
KnownInv ==
    session => /\ handshakeDone /\ cCaps = caps
               /\ ePhase # "Handshake" /\ cServing # LostHandler

(* The server holds the block that the engine is about to commit. *)
HoldsNext == state = "Executed" /\ lastOutcome = eNext

(* During a session there is one Commit at most, that of the engine, and its *)
(* block is the next one to the application's.                               *)
CommitInv ==
    session =>
        /\ \A g \in Callers : op[g] = "Commit" =>
            /\ ePhase = "Commit" /\ (cServing = g \/ eBroken)
            /\ \A k \in Callers : op[k] = "Commit" => k = g
            /\ pc[g] = "lock" => state = "Executed"
            /\ pc[g] \in {"lock", "store", "app"} =>
                lastOutcome = eNext /\ appCommitted = eNext - 1
        /\ ePhase = "Commit" /\ cPc # "wait" /\ ~eBroken =>
            HoldsNext /\ appCommitted = eNext - 1
        /\ ePhase = "Commit" /\ cServing \in Callers =>
            (ret[cServing] = "ok" => appCommitted = eNext)

(* During a session the application is where the engine believes it to be,   *)
(* and a block reported as executed is held for Commit.                      *)
ExecuteInv ==
    session /\ ePhase = "ExecuteBlock" /\ ~eBroken =>
        /\ appCommitted = eNext - 1
        /\ cServing \in Callers =>
            (pc[cServing] = "idle" /\ ret[cServing] = "ok" => HoldsNext)

(* Only wrappers of declared capabilities are at work during a session. *)
WrapperInv ==
    session => \A g \in Callers :
        pc[g] = "app" => InterfaceOf(op[g]) \in caps \cup {"Lifecycle"}

LinkInv ==
    /\ Inv /\ LinkTypeOK
    /\ ClientInv /\ EngineInv /\ HandlersInv /\ ResponseInv
    /\ KnownInv /\ CommitInv /\ ExecuteInv /\ WrapperInv

-----------------------------------------------------------------------------
(* What a step of the link does to the application's process. *)

(* A step of a handler is a step of its own call. *)
LEMMA HandlerCalls ==
  ASSUME Inv, NEW g \in Callers, Acquire(g) \/ Continue(g)
  PROVE  /\ op[g] # "none" /\ pc[g] # "idle"
         /\ \A k \in Callers \ {g} : UNCHANGED <<op[k], pc[k], height[k], ret[k]>>
         /\ op'[g] \in {op[g], "none"}
         /\ op'[g] # "none" => height'[g] = height[g]
         /\ pc'[g] = "app" => pc[g] \in {"store", "gate"}
         /\ pc'[g] \notin {"lock", "gate"}
<1> USE DEF Inv, TypeOK, CallShape, SequencedMethods, ConcurrentMethods, ObserverMethods,
      OptionalMethods, At, Goto, Return
<1>1. CASE Acquire(g)
  BY <1>1 DEF Acquire, ExecuteAcquire, ExecuteRefused, CommitAcquire, CommitRefused
<1>2. CASE HandshakeAnswered(g) \/ HandshakeComplete(g)
  BY <1>2 DEF HandshakeAnswered, HandshakeComplete
<1>3. CASE ExecuteStore(g) \/ ExecuteAnswered(g) \/ ExecuteOutcome(g) \/ ExecuteComplete(g)
  BY <1>3 DEF ExecuteErrors, ExecuteStore, ExecuteAnswered, ExecuteOutcome, ExecuteComplete
<1>4. CASE CommitStore(g) \/ CommitAnswered(g) \/ CommitOutcome(g) \/ CommitComplete(g)
  BY <1>4 DEF CommitStore, CommitAnswered, CommitOutcome, CommitComplete
<1>5. CASE ObserverGate(g) \/ AppAnswers(g) \/ AppPanics(g)
  BY <1>5 DEF ObserverGate, CheckConcurrent, AppAnswers, AppPanics
<1>6. QED
  BY <1>1, <1>2, <1>3, <1>4, <1>5 DEF Continue

(* Once a Handshake has succeeded, a handler leaves it and what it declared  *)
(* alone, and only Commit takes the guard out of Executed.                   *)
LEMMA HandlerGuard ==
  ASSUME Inv, NEW g \in Callers, Acquire(g) \/ Continue(g), handshakeDone
  PROVE  /\ handshakeDone' /\ UNCHANGED caps /\ op[g] # "Handshake"
         /\ state = "Executed" => state' = "Executed" \/ At(g, "Commit", "store")
<1> USE DEF At, Goto, Return, guardVars
<1>1. op[g] # "Handshake"
  BY DEF Inv, HandshakeInv, HandshakeOnce
<1>2. CASE Acquire(g)
  BY <1>1, <1>2 DEF Acquire, ExecuteAcquire, ExecuteRefused, CommitAcquire, CommitRefused,
     AcquireExecute, AcquireExecutePanics, AcquireCommit, AcquireCommitPanics,
     AcquireFrom, AcquirePanics
<1>3. CASE ExecuteStore(g) \/ ExecuteAnswered(g) \/ ExecuteOutcome(g) \/ ExecuteComplete(g)
  <2>1. op[g] = "ExecuteBlock" /\ pc[g] \in {"store", "app", "outcome", "complete"}
    BY <1>3 DEF ExecuteStore, ExecuteAnswered, ExecuteOutcome, ExecuteComplete
  <2>2. state # "Executed"
    BY <2>1 DEF Inv, OutcomeInv, Holds, SequencedMethods
  <2>3. QED
    BY <1>1, <1>3, <2>2
    DEF ExecuteStore, AcquireExecuteStore, AcquireStore, ExecuteAnswered, FailExecute,
        ExecuteOutcome, ExecuteComplete, CompleteExecute, Release
<1>4. CASE CommitStore(g)
  BY <1>1, <1>4 DEF CommitStore, AcquireCommitStore, AcquireStore
<1>5. CASE CommitAnswered(g) \/ CommitOutcome(g)
  BY <1>1, <1>5 DEF CommitAnswered, CommitOutcome
<1>6. CASE CommitComplete(g)
  <2>1. state # "Executed"
    BY <1>6 DEF CommitComplete, Inv, OutcomeInv
  <2>2. QED
    BY <1>1, <1>6, <2>1 DEF CommitComplete, CompleteCommit, Release
<1>7. CASE ObserverGate(g) \/ AppAnswers(g) \/ AppPanics(g)
  BY <1>1, <1>7 DEF ObserverGate, AppAnswers, AppPanics
<1>8. QED
  BY <1>1, <1>2, <1>3, <1>4, <1>5, <1>6, <1>7
  DEF Continue, HandshakeAnswered, HandshakeComplete

(* The step in which the application answers the goroutine's Commit without  *)
(* an error.                                                                 *)
CommitSucceeds(g) == At(g, "Commit", "app") /\ pc'[g] = "outcome" /\ ret'[g] = "ok"

(* Who writes the outcome and the application's height, and what an answer   *)
(* "ok" stands for; ImportSnapshot, a stream, is not among the requests.     *)
LEMMA HandlerWrites ==
  ASSUME Inv, NEW g \in Callers, Acquire(g) \/ Continue(g), op[g] \in UnaryMethods
  PROVE  /\ \/ UNCHANGED lastOutcome
            \/ At(g, "ExecuteBlock", "outcome") /\ lastOutcome' = height[g]
            \/ At(g, "Commit", "outcome")
         /\ UNCHANGED appCommitted \/ (At(g, "Commit", "app") /\ appCommitted' = lastOutcome)
         /\ op[g] = "Commit" /\ ret'[g] = "ok" =>
              ret[g] = "ok" \/ (At(g, "Commit", "app") /\ appCommitted' = lastOutcome)
         /\ CommitSucceeds(g) => appCommitted' = lastOutcome
         /\ op[g] = "ExecuteBlock" /\ pc'[g] = "idle" /\ ret'[g] = "ok" =>
              pc[g] = "complete" /\ state' = "Executed" /\ UNCHANGED lastOutcome
         /\ At(g, "ExecuteBlock", "complete")' => lastOutcome' = height[g]
         /\ op[g] = "Commit" /\ pc[g] \notin {"lock", "store"} => pc'[g] \notin {"store", "app"}
<1> USE DEF At, Goto, Return, guardVars, appVars, CommitSucceeds
<1>1. op[g] # "ImportSnapshot"
  BY DEF UnaryMethods
<1>2. /\ op \in [Callers -> AllMethods \cup {"none"}] /\ pc \in [Callers -> Locations]
      /\ ret \in [Callers -> {"none", "ok", "panic"} \cup ExecuteErrors]
      /\ height \in [Callers -> Heights \cup {0}]
  BY DEF Inv, TypeOK
<1>3. CASE Acquire(g)
  BY <1>2, <1>3 DEF Acquire, ExecuteAcquire, ExecuteRefused, CommitAcquire, CommitRefused
<1>4. CASE HandshakeAnswered(g) \/ HandshakeComplete(g)
  BY <1>2, <1>4 DEF HandshakeAnswered, HandshakeComplete
<1>5. CASE ExecuteStore(g) \/ ExecuteAnswered(g) \/ ExecuteOutcome(g)
  BY <1>2, <1>5 DEF ExecuteErrors, ExecuteStore, ExecuteAnswered, ExecuteOutcome
<1>6. CASE ExecuteComplete(g)
  BY <1>2, <1>6 DEF ExecuteComplete, CompleteExecute, Release
<1>7. CASE CommitStore(g) \/ CommitOutcome(g) \/ CommitComplete(g)
  BY <1>2, <1>7 DEF CommitStore, CommitOutcome, CommitComplete
<1>8. CASE CommitAnswered(g)
  <2>1. appStaged = lastOutcome
    BY <1>8 DEF CommitAnswered, Inv, OutcomeInv, OutcomePending
  <2>2. QED
    BY <1>2, <1>8, <2>1 DEF CommitAnswered
<1>9. CASE ObserverGate(g) \/ AppPanics(g)
  BY <1>2, <1>9 DEF ObserverGate, AppPanics, Inv, CallShape, ObserverMethods
<1>10. CASE AppAnswers(g)
  BY <1>1, <1>2, <1>10 DEF AppAnswers, SequencedMethods
<1>11. QED
  BY <1>3, <1>4, <1>5, <1>6, <1>7, <1>8, <1>9, <1>10 DEF Continue

(* The engine's request starts the engine's call in a free handler; a second *)
(* Handshake panics at once.                                                 *)
LEMMA Delivered ==
  ASSUME LinkInv, NEW g \in Callers, Deliver(g)
  PROVE  /\ cPc = "invoke" /\ cServing = NoHandler /\ pc[g] = "idle"
         /\ cPc' = "wait" /\ cServing' = g
         /\ UNCHANGED <<cGuardVars, cCaps, engineVars, processVars, session, faults>>
         /\ UNCHANGED <<seqMu, handshakeDone, caps, lastOutcome, appVars>>
         /\ \A k \in Callers \ {g} : UNCHANGED <<op[k], pc[k], height[k], ret[k]>>
         /\ \/ /\ op'[g] = ePhase /\ ret'[g] = "none"
               /\ pc'[g] = IF ePhase = "Handshake" THEN "app" ELSE "lock"
            \/ ePhase = "Handshake" /\ op'[g] = "none" /\ pc'[g] = "idle" /\ ret'[g] = "panic"
         /\ ePhase # "Handshake" => UNCHANGED state
         /\ ePhase = "ExecuteBlock" => height'[g] = eNext
<1>1. /\ cPc = "invoke" /\ pc[g] = "idle" /\ Dispatch(g, ePhase)
      /\ cPc' = "wait" /\ cServing' = g
      /\ ePhase = "ExecuteBlock" => height'[g] = eNext
      /\ UNCHANGED <<cGuardVars, cCaps, engineVars, processVars, session, faults>>
  BY DEF Deliver, Free
<1>2. ePhase \in {"Handshake", "ExecuteBlock", "Commit"} /\ cServing = NoHandler
  BY <1>1 DEF LinkInv, ClientInv
<1>3. /\ op \in [Callers -> AllMethods \cup {"none"}] /\ pc \in [Callers -> Locations]
      /\ ret \in [Callers -> {"none", "ok", "panic"} \cup ExecuteErrors]
      /\ height \in [Callers -> Heights \cup {0}]
  BY DEF LinkInv, Inv, TypeOK
<1>4. \/ ePhase = "Handshake" /\ (HandshakeEnter(g) \/ HandshakeRefused(g))
      \/ ePhase = "ExecuteBlock" /\ ExecuteEnter(g)
      \/ ePhase = "Commit" /\ CommitEnter(g)
  BY <1>1, <1>2 DEF Dispatch, ConcurrentEnter, ConcurrentMethods, OptionalEnter, OptionalMethods
<1>5. CASE ePhase = "Handshake" /\ (HandshakeEnter(g) \/ HandshakeRefused(g))
  BY <1>1, <1>2, <1>3, <1>5
  DEF HandshakeEnter, HandshakeRefused, AcquireHandshake, AcquireHandshakePanics, guardVars,
      Enter, Immediate, Return
<1>6. CASE ePhase = "ExecuteBlock" /\ ExecuteEnter(g)
  BY <1>1, <1>2, <1>3, <1>6 DEF ExecuteEnter, guardVars, Enter
<1>7. CASE ePhase = "Commit" /\ CommitEnter(g)
  BY <1>1, <1>2, <1>3, <1>7 DEF CommitEnter, guardVars, Enter
<1>8. QED
  BY <1>4, <1>5, <1>6, <1>7

(* The methods of the interfaces that are not optional. *)
LEMMA LifecycleInterface ==
  ASSUME NEW m \in {"Handshake", "ExecuteBlock", "Commit", "CheckTx", "Query"}
  PROVE  InterfaceOf(m) = "Lifecycle"
  BY DEF InterfaceOf, ObserverMethods

(* Requests of other goroutines come after the client's Handshake, and only  *)
(* for interfaces the client has wrappers for.                               *)
LEMMA Requested ==
  ASSUME LinkInv, NEW g \in Callers, DeliverConcurrent(g) \/ DeliverOptional(g)
  PROVE  /\ pc[g] = "idle" /\ g # cServing /\ ePhase # "Handshake"
         /\ UNCHANGED linkVars
         /\ UNCHANGED <<guardVars, caps, lastOutcome, appVars>>
         /\ \A k \in Callers \ {g} : UNCHANGED <<op[k], pc[k], height[k], ret[k]>>
         /\ \/ /\ op'[g] \in UnaryMethods \ (SequencedMethods \cup {"Handshake"})
               /\ pc'[g] = "app" /\ ret'[g] = "none"
               /\ InterfaceOf(op'[g]) \in cCaps \cup {"Lifecycle"}
            \/ op'[g] = "none" /\ pc'[g] = "idle" /\ ret'[g] = "panic"
<1>1. pc[g] = "idle" /\ g # cServing /\ UNCHANGED linkVars
  BY DEF DeliverConcurrent, DeliverOptional, Free
<1>2. /\ op \in [Callers -> AllMethods \cup {"none"}] /\ pc \in [Callers -> Locations]
      /\ ret \in [Callers -> {"none", "ok", "panic"} \cup ExecuteErrors]
      /\ height \in [Callers -> Heights \cup {0}]
      /\ cCaps \subseteq Capabilities
  BY DEF LinkInv, Inv, TypeOK, LinkTypeOK
<1>3. "Lifecycle" \notin Capabilities
  BY DEF Capabilities
<1>4. PICK m \in Methods :
        /\ Dispatch(g, m) /\ m \notin SequencedMethods \cup {"Handshake"}
        /\ InterfaceOf(m) \in cCaps \cup {"Lifecycle"}
        /\ ePhase # "Handshake"
  <2>1. CASE DeliverConcurrent(g)
    <3>1. PICK m \in Methods \cap {"CheckTx", "Query"} : Dispatch(g, m)
      BY <2>1 DEF DeliverConcurrent
    <3>2. InterfaceOf(m) = "Lifecycle"
      BY LifecycleInterface
    <3>3. ePhase # "Handshake"
      BY <2>1 DEF DeliverConcurrent, CG!CheckConcurrent, LinkInv, ClientInv
    <3>4. QED
      BY <3>1, <3>2, <3>3 DEF SequencedMethods
  <2>2. CASE DeliverOptional(g)
    <3>1. PICK m \in Methods : InterfaceOf(m) \in cCaps /\ Dispatch(g, m)
      BY <2>2 DEF DeliverOptional, ClientAs
    <3>2. m \notin {"Handshake", "ExecuteBlock", "Commit"}
      BY <1>2, <1>3, <3>1, LifecycleInterface
    <3>3. ePhase # "Handshake"
      BY <3>1 DEF LinkInv, EngineInv
    <3>4. QED
      BY <3>1, <3>2, <3>3 DEF SequencedMethods
  <2>3. QED
    BY <2>1, <2>2
<1>5. m \in UnaryMethods /\ (ConcurrentEnter(g, m) \/ OptionalEnter(g, m))
  BY <1>4 DEF Dispatch, SequencedMethods
<1>6. CASE Enter(g, m, 0, "app") /\ UNCHANGED <<guardVars, caps, lastOutcome, appVars>>
  BY <1>1, <1>2, <1>4, <1>5, <1>6 DEF Enter
<1>7. CASE Immediate(g, m, "panic") /\ UNCHANGED <<guardVars, caps, lastOutcome, appVars>>
  BY <1>1, <1>2, <1>4, <1>7 DEF Immediate, Return
<1>8. QED
  BY <1>5, <1>6, <1>7 DEF ConcurrentEnter, OptionalEnter

(* The application's process moves as the server does or starts anew. *)
LEMMA ServerStep ==
  ASSUME LinkInv, LinkNext
  PROVE  Inv'
<1> USE DEF LinkInv
<1>1. ASSUME NEW g \in Callers, NEW m, Dispatch(g, m) PROVE Begin(g)
  <2>1. CASE HandshakeEnter(g) \/ HandshakeRefused(g) \/ ExecuteEnter(g) \/ CommitEnter(g)
    BY <2>1 DEF Begin
  <2>2. CASE ConcurrentEnter(g, m) \/ OptionalEnter(g, m)
    BY <2>2 DEF Begin, ConcurrentEnter, OptionalEnter, Enter, Immediate, Calls
  <2>3. QED
    BY <1>1, <2>1, <2>2 DEF Dispatch
<1>2. ASSUME NEW g \in Callers, Deliver(g) \/ DeliverConcurrent(g) \/ DeliverOptional(g)
      PROVE  Inv'
  <2>1. \E m : Dispatch(g, m)
    BY <1>2 DEF Deliver, DeliverConcurrent, DeliverOptional
  <2>2. QED
    BY <1>1, <2>1, NextInv DEF Next
<1>3. ASSUME NEW g \in Callers, HandlerStep(g) PROVE Inv'
  BY <1>3, NextInv DEF HandlerStep, Next
<1>4. CASE Die
  BY <1>4, ServerAssumption
  DEF Die, Renew, Inv, TypeOK, ExecuteErrors, GuardTypeOK, lifecycleState, Locations,
      AllMethods, SequencedMethods, ObserverMethods, ConcurrentMethods, CallShape, LockInv,
      SeqExclusion, Holds, HandshakeInv, HandshakeOnce, CapsInv, DispatchAfterHandshake,
      OutcomeInv, OutcomePending, At
<1>5. CASE UNCHANGED vars
  BY <1>5, NextInv
<1>6. QED
  BY <1>2, <1>3, <1>4, <1>5
  DEF LinkNext, ClientHandshake, ClientAcquire, ClientStore, ClientReply, ClientDeadline,
      ClientUnavailable, EngineRedials, EngineRestarts, Dial, ProcessPanics, ProcessCrashes,
      ProcessRestarts

-----------------------------------------------------------------------------
(* The client and the engine. *)

(* How the three lifecycle calls of the client end. *)
LEMMA ClientFinishes ==
  ASSUME LinkInv, cPc \in {"invoke", "wait"}, NEW r, Finish(r),
         r = "ok" => cServing \in Callers
  PROVE  /\ cPc' = "idle" /\ cServing' = NoHandler
         /\ cSeqMu' = "unlocked" /\ cState' \in {"Init", "Ready", "Executed"}
         /\ cDone' <=> (ePhase' # "Handshake")
         /\ \/ /\ ePhase = "Handshake" /\ r = "ok"
               /\ ePhase' = "ExecuteBlock" /\ cState' = "Ready" /\ ~eBroken'
               /\ eNext' = response.height + 1 /\ cCaps' = response.caps
               /\ session' = response.alone
            \/ /\ ePhase = "Handshake" /\ r # "ok"
               /\ ePhase' = "Handshake" /\ cState' = "Init"
               /\ UNCHANGED <<eNext, cCaps, session>>
            \/ /\ ePhase = "ExecuteBlock" /\ r = "ok"
               /\ ePhase' = "Commit" /\ cState' = "Executed" /\ ~eBroken'
               /\ UNCHANGED <<eNext, cCaps, session>>
            \/ /\ ePhase = "ExecuteBlock" /\ r # "ok"
               /\ ePhase' \in {"ExecuteBlock", "Halted"} /\ cState' = "Ready"
               /\ UNCHANGED <<eNext, cCaps, session>>
            \/ /\ ePhase = "Commit" /\ r = "ok"
               /\ ePhase' = "ExecuteBlock" /\ cState' = "Ready" /\ ~eBroken'
               /\ eNext' = eNext + 1 /\ UNCHANGED <<cCaps, session>>
            \/ /\ ePhase = "Commit" /\ r # "ok"
               /\ ePhase' = "Commit" /\ cState' = "Ready" /\ eBroken'
               /\ UNCHANGED <<eNext, cCaps, session>>
<1>1. /\ ~eBroken /\ (cDone <=> (ePhase # "Handshake"))
      /\ ePhase = "Handshake" => cState = "Ready" /\ cSeqMu = "unlocked"
      /\ cPc' = "idle" /\ cServing' = NoHandler
  BY DEF LinkInv, ClientInv, Finish, ClientReturn
<1>2. CASE FinishHandshake(r)
  BY <1>1, <1>2 DEF FinishHandshake, CG!CompleteHandshake, CG!FailHandshake
<1>3. CASE FinishExecute(r)
  <2>1. ePhase = "ExecuteBlock" /\ UNCHANGED <<cCaps, eNext, session>>
    BY <1>3 DEF FinishExecute
  <2>2. CASE r = "ok"
    BY <1>1, <1>3, <2>1, <2>2 DEF FinishExecute, CG!CompleteExecute, CG!Release
  <2>3. CASE r # "ok"
    <3>1. CG!FailExecute /\ ePhase' \in {"ExecuteBlock", "Halted"}
      BY <1>3, <2>1, <2>3 DEF FinishExecute
    <3>2. QED
      BY <1>1, <2>1, <2>3, <3>1 DEF CG!FailExecute, CG!Release
  <2>4. QED
    BY <2>2, <2>3
<1>4. CASE FinishCommit(r)
  <2>1. r # "ok" => eBroken'
    BY <1>4, Zenon DEF FinishCommit
  <2>2. QED
    BY <1>1, <1>4, <2>1 DEF FinishCommit, CG!CompleteCommit, CG!Release
<1>5. QED
  BY <1>2, <1>3, <1>4 DEF Finish

(* The client's guard keeps step with the engine through every call, error,  *)
(* deadline and redial.                                                      *)
LEMMA ClientStep ==
  ASSUME LinkInv, LinkNext
  PROVE  ClientInv' /\ EngineInv'
<1> USE LinkAssumption DEF cGuardVars, engineVars, clientVars, linkVars, processVars
<1>1. /\ ClientInv /\ EngineInv
      /\ cPc \in {"idle", "store", "invoke", "wait"}
      /\ ePhase \in {"Handshake", "ExecuteBlock", "Commit", "Halted"}
      /\ eNext \in 0..MaxHeight + 1
      /\ response.height \in Nat
      /\ cServing \in Callers \cup {NoHandler, LostHandler}
  BY ServerAssumption DEF LinkInv, LinkTypeOK
<1>2. CASE ClientHandshake
  BY <1>1, <1>2
  DEF ClientHandshake, EngineMayCall, CG!AcquireHandshake, ClientGoto, ClientInv, EngineInv,
      ClientGuardAdmits
<1>3. CASE ClientAcquire
  BY <1>1, <1>3
  DEF ClientAcquire, EngineMayCall, CG!AcquireExecute, CG!AcquireCommit, CG!AcquireFrom,
      ClientGoto, ClientInv, EngineInv, ClientGuardAdmits
<1>4. CASE ClientStore
  BY <1>1, <1>4
  DEF ClientStore, CG!AcquireExecuteStore, CG!AcquireCommitStore, CG!AcquireStore,
      ClientGoto, ClientInv, EngineInv, ClientGuardAdmits
<1>5. ASSUME NEW r, cPc \in {"invoke", "wait"}, Finish(r), r = "ok" => cServing \in Callers
      PROVE  ClientInv' /\ EngineInv'
  BY <1>1, <1>5, ClientFinishes DEF ClientInv, EngineInv, ClientGuardAdmits
<1>6. CASE ClientReply \/ ClientDeadline \/ ClientUnavailable
  BY <1>5, <1>6 DEF ClientReply, ClientDeadline, ClientUnavailable
<1>7. CASE Dial
  BY <1>1, <1>7
  DEF Dial, CG!Renew, ClientReturn, ClientInv, EngineInv, ClientGuardAdmits
<1>8. ASSUME NEW g \in Callers, Deliver(g) PROVE ClientInv' /\ EngineInv'
  BY <1>1, <1>8, Delivered DEF ClientInv, EngineInv, ClientGuardAdmits
<1>9. CASE Die
  BY <1>1, <1>9 DEF Die, ClientInv, EngineInv, ClientGuardAdmits
<1>10. CASE UNCHANGED <<clientVars, engineVars, session>>
  BY <1>1, <1>10 DEF ClientInv, EngineInv, ClientGuardAdmits
<1>11. QED
  BY <1>2, <1>3, <1>4, <1>6, <1>7, <1>8, <1>9, <1>10
  DEF LinkNext, EngineRedials, EngineRestarts, DeliverConcurrent, DeliverOptional,
      HandlerStep, ProcessPanics, ProcessCrashes, ProcessRestarts

(* The words of the client's guard and what the engine decides keep their    *)
(* types when a call ends.                                                   *)
LEMMA FinishTypes ==
  ASSUME LinkInv, cPc \in {"invoke", "wait"}, NEW r, Finish(r),
         r = "ok" => cServing \in Callers
  PROVE  /\ CG!GuardTypeOK'
         /\ cCaps' \in SUBSET Capabilities
         /\ cPc' \in {"idle", "store", "invoke", "wait"}
         /\ cServing' \in Callers \cup {NoHandler, LostHandler}
         /\ ePhase' \in {"Handshake", "ExecuteBlock", "Commit", "Halted"}
         /\ eNext' \in 0..MaxHeight + 1
         /\ eBroken' \in BOOLEAN /\ session' \in BOOLEAN
<1>1. /\ cDone \in BOOLEAN /\ eBroken \in BOOLEAN /\ session \in BOOLEAN
      /\ response \in [caps : SUBSET Capabilities, height : Heights \cup {0}, alone : BOOLEAN]
      /\ cCaps \in SUBSET Capabilities
      /\ eNext \in 0..MaxHeight + 1
  BY DEF LinkInv, LinkTypeOK, CG!GuardTypeOK
<1>2. cDone' \in BOOLEAN
  <2>1. cDone' = TRUE \/ cDone' = cDone
    BY DEF Finish, FinishHandshake, FinishExecute, FinishCommit, CG!CompleteHandshake,
       CG!FailHandshake, CG!CompleteExecute, CG!FailExecute, CG!CompleteCommit, CG!Release
  <2>2. QED
    BY <1>1, <2>1
<1>3. eBroken' \in BOOLEAN
  <2>1. eBroken' = eBroken \/ eBroken' = (r = "unavailable") \/ eBroken' = TRUE
    BY Zenon DEF Finish, FinishHandshake, FinishExecute, FinishCommit
  <2>2. (r = "unavailable") \in BOOLEAN /\ TRUE \in BOOLEAN
    BY Zenon
  <2>3. QED
    BY <1>1, <2>1, <2>2, Zenon
<1>4. session' \in BOOLEAN
  <2>1. session' = session \/ session' = response.alone
    BY DEF Finish, FinishHandshake, FinishExecute, FinishCommit
  <2>2. response.alone \in BOOLEAN
    BY <1>1
  <2>3. QED
    BY <1>1, <2>1, <2>2, Zenon
<1>5. response.height + 1 \in 0..MaxHeight + 1 /\ response.caps \in SUBSET Capabilities
  BY <1>1, LinkAssumption
<1>6. eNext <= MaxHeight /\ MaxHeight \in Nat
  BY LinkAssumption DEF LinkInv, EngineInv
<1>7. CG!GuardTypeOK'
  BY <1>2, ClientFinishes DEF CG!GuardTypeOK, CG!lifecycleState
<1>8. QED
  BY <1>1, <1>3, <1>4, <1>5, <1>6, <1>7, ClientFinishes

(* Every step of the link keeps the types. *)
LEMMA LinkTypeStep ==
  ASSUME LinkInv, LinkNext
  PROVE  LinkTypeOK'
<1> DEFINE ClientTypes ==
      /\ CG!GuardTypeOK
      /\ cCaps \in SUBSET Capabilities
      /\ cPc \in {"idle", "store", "invoke", "wait"}
      /\ cServing \in Callers \cup {NoHandler, LostHandler}
      /\ ePhase \in {"Handshake", "ExecuteBlock", "Commit", "Halted"}
      /\ eNext \in 0..MaxHeight + 1
      /\ eBroken \in BOOLEAN /\ session \in BOOLEAN
<1> DEFINE Responses == [caps : SUBSET Capabilities, height : Heights \cup {0}, alone : BOOLEAN]
<1> USE LinkAssumption DEF cGuardVars, engineVars, clientVars, linkVars, processVars
<1>1. /\ ClientTypes /\ up \in BOOLEAN /\ faults \in 0..MaxFaults
      /\ response \in Responses
  BY DEF LinkInv, LinkTypeOK
<1>2. TypeOK'
  BY ServerStep DEF Inv
<1>3. ClientTypes'
  <2>1. CASE ClientHandshake
    BY <1>1, <2>1
    DEF ClientHandshake, CG!AcquireHandshake, ClientGoto, CG!GuardTypeOK, CG!lifecycleState
  <2>2. CASE ClientAcquire
    BY <1>1, <2>2
    DEF ClientAcquire, CG!AcquireExecute, CG!AcquireCommit, CG!AcquireFrom, ClientGoto,
        CG!GuardTypeOK, CG!lifecycleState
  <2>3. CASE ClientStore
    BY <1>1, <2>3
    DEF ClientStore, CG!AcquireExecuteStore, CG!AcquireCommitStore, CG!AcquireStore, ClientGoto,
        CG!GuardTypeOK, CG!lifecycleState
  <2>4. ASSUME NEW r, cPc \in {"invoke", "wait"}, Finish(r), r = "ok" => cServing \in Callers
        PROVE  ClientTypes'
    BY <2>4, FinishTypes
  <2>5. CASE ClientReply \/ ClientDeadline \/ ClientUnavailable
    BY <2>4, <2>5 DEF ClientReply, ClientDeadline, ClientUnavailable
  <2>6. CASE Dial
    <3>1. cDone' \in BOOLEAN /\ eBroken' \in BOOLEAN /\ session' \in BOOLEAN
      BY <2>6 DEF Dial, CG!Renew
    <3>2. QED
      BY <1>1, <2>6, <3>1 DEF Dial, CG!Renew, ClientReturn, CG!GuardTypeOK, CG!lifecycleState
  <2>7. ASSUME NEW g \in Callers, Deliver(g) PROVE ClientTypes'
    BY <1>1, <2>7, Delivered DEF CG!GuardTypeOK, CG!lifecycleState
  <2>8. CASE Die
    BY <1>1, <2>8 DEF Die, CG!GuardTypeOK, CG!lifecycleState
  <2>9. CASE UNCHANGED <<clientVars, engineVars, session>>
    BY <1>1, <2>9 DEF CG!GuardTypeOK, CG!lifecycleState
  <2>10. QED
    BY <2>1, <2>2, <2>3, <2>5, <2>6, <2>7, <2>8, <2>9
    DEF LinkNext, EngineRedials, EngineRestarts, DeliverConcurrent, DeliverOptional,
        HandlerStep, ProcessPanics, ProcessCrashes, ProcessRestarts
<1>4. up' \in BOOLEAN /\ faults' \in 0..MaxFaults
  <2>1. up' = up \/ up' = TRUE \/ up' = FALSE
    BY DEF LinkNext, ClientHandshake, ClientAcquire, ClientStore, ClientReply, ClientDeadline,
       ClientUnavailable, EngineRedials, EngineRestarts, Dial, Deliver, DeliverConcurrent,
       DeliverOptional, HandlerStep, ProcessPanics, ProcessCrashes, Die, ProcessRestarts
  <2>2. faults' = faults \/ Fault
    BY DEF LinkNext, ClientHandshake, ClientAcquire, ClientStore, ClientReply, ClientDeadline,
       ClientUnavailable, EngineRedials, EngineRestarts, Dial, Deliver, DeliverConcurrent,
       DeliverOptional, HandlerStep, ProcessPanics, ProcessCrashes, Die, ProcessRestarts
  <2>3. up' \in BOOLEAN
    BY <1>1, <2>1
  <2>4. faults' \in 0..MaxFaults
    BY <1>1, <2>2 DEF Fault
  <2>5. QED
    BY <2>3, <2>4
<1>5. response' \in Responses
  <2>1. ASSUME NEW g \in Callers, Respond(g) PROVE response' \in Responses
    <3>1. caps' \in SUBSET Capabilities /\ appCommitted \in Heights \cup {0}
      BY <1>2 DEF TypeOK, LinkInv, Inv
    <3>2. (\A k \in Callers \ {g} : pc[k] = "idle") \in BOOLEAN
      BY Zenon
    <3>3. QED
      BY <1>1, <2>1, <3>1, <3>2 DEF Respond
  <2>2. NoResponse \in Responses
    BY DEF NoResponse
  <2>3. response' = response \/ response' = NoResponse \/ \E g \in Callers : Respond(g)
    BY DEF LinkNext, ClientHandshake, ClientAcquire, ClientStore, ClientReply, ClientDeadline,
       ClientUnavailable, EngineRedials, EngineRestarts, Dial, Deliver, DeliverConcurrent,
       DeliverOptional, HandlerStep, ProcessPanics, ProcessCrashes, Die, ProcessRestarts
  <2>4. QED
    BY <1>1, <2>1, <2>2, <2>3
<1>6. QED
  BY <1>2, <1>3, <1>4, <1>5 DEF LinkTypeOK

-----------------------------------------------------------------------------
(* The steps of the link, by what they mean for the invariant. *)

(* The handler that the client waits for has returned its response. *)
Served == cServing \in Callers /\ pc[cServing] = "idle" /\ ret[cServing] = "ok"

(* How a call of the client ends: as a success only if its handler returned  *)
(* its response.                                                             *)
ClientEnd ==
    /\ cPc \in {"invoke", "wait"} /\ cPc' = "idle" /\ cServing' = NoHandler
    /\ \/ /\ ePhase = "Handshake" /\ Served
          /\ ePhase' = "ExecuteBlock" /\ ~eBroken'
          /\ eNext' = response.height + 1 /\ cCaps' = response.caps
          /\ session' = response.alone
       \/ /\ ePhase = "Handshake" /\ ePhase' = "Handshake"
          /\ UNCHANGED <<eNext, cCaps, session>>
       \/ /\ ePhase = "ExecuteBlock" /\ Served
          /\ ePhase' = "Commit" /\ ~eBroken'
          /\ UNCHANGED <<eNext, cCaps, session>>
       \/ /\ ePhase = "ExecuteBlock" /\ ePhase' \in {"ExecuteBlock", "Halted"}
          /\ UNCHANGED <<eNext, cCaps, session>>
       \/ /\ ePhase = "Commit" /\ Served
          /\ ePhase' = "ExecuteBlock" /\ ~eBroken'
          /\ eNext' = eNext + 1 /\ UNCHANGED <<cCaps, session>>
       \/ /\ ePhase = "Commit" /\ ePhase' = "Commit" /\ eBroken'
          /\ UNCHANGED <<eNext, cCaps, session>>

(* A call of the client ends so, and nothing changes at the server. *)
LEMMA ClientEnds ==
  ASSUME LinkInv, ClientReply \/ ClientDeadline \/ ClientUnavailable
  PROVE  ClientEnd /\ UNCHANGED <<vars, processVars>>
<1>1. ASSUME NEW r, cPc \in {"invoke", "wait"}, Finish(r), r = "ok" => Served
      PROVE  ClientEnd
  <2>1. r = "ok" => cServing \in Callers
    BY <1>1 DEF Served
  <2>2. QED
    BY <1>1, <2>1, ClientFinishes DEF ClientEnd
<1>2. CASE ClientReply
  BY <1>1, <1>2 DEF ClientReply, Status, ExecuteErrors, Served
<1>3. CASE ClientDeadline \/ ClientUnavailable
  BY <1>1, <1>3 DEF ClientDeadline, ClientUnavailable
<1>4. QED
  BY <1>2, <1>3

(* The client and the engine within a call. *)
ClientWithinCall == ClientHandshake \/ ClientAcquire \/ ClientStore

(* Such a step takes place with no handler to wait for. *)
LEMMA ClientMoves ==
  ASSUME LinkInv, ClientWithinCall
  PROVE  /\ cPc \in {"idle", "store"} /\ cPc' \in {"store", "invoke"}
         /\ UNCHANGED <<vars, cCaps, cServing, engineVars, processVars, session>>
  BY DEF ClientWithinCall, ClientHandshake, ClientAcquire, ClientStore, EngineMayCall, ClientGoto

(* Every step of the link is one of these. *)
LEMMA LinkSteps ==
  ASSUME LinkNext
  PROVE  \/ ClientWithinCall
         \/ ClientReply \/ ClientDeadline \/ ClientUnavailable
         \/ Dial
         \/ \E g \in Callers : \/ Deliver(g)
                              \/ DeliverConcurrent(g) \/ DeliverOptional(g)
                              \/ HandlerStep(g)
         \/ Die
         \/ UNCHANGED <<vars, clientVars, engineVars, response, session>>
  BY DEF LinkNext, ClientWithinCall, EngineRedials, EngineRestarts, ProcessPanics,
     ProcessCrashes, ProcessRestarts

(* The requests in the handlers and the one that the client waits for. *)
LEMMA HandlersStep ==
  ASSUME LinkInv, LinkNext
  PROVE  HandlersInv'
<1> USE LinkAssumption DEF At, vars, callVars, engineVars, clientVars, processVars, linkVars
<1>1. /\ HandlersInv /\ ePhase \in {"Handshake", "ExecuteBlock", "Commit", "Halted"}
      /\ NoHandler \notin Callers /\ LostHandler \notin Callers
  BY DEF LinkInv, LinkTypeOK
<1>2. CASE ClientWithinCall
  BY <1>1, <1>2, ClientMoves DEF HandlersInv
<1>3. CASE ClientReply \/ ClientDeadline \/ ClientUnavailable
  BY <1>1, <1>3, ClientEnds DEF ClientEnd, HandlersInv
<1>4. CASE Dial
  BY <1>1, <1>4 DEF Dial, ClientReturn, HandlersInv
<1>5. ASSUME NEW g \in Callers, Deliver(g) PROVE HandlersInv'
  <2>1. ePhase \in UnaryMethods
    BY <1>5 DEF Deliver, Dispatch
  <2>2. op'[g] \in {ePhase, "none"} /\ pc'[g] \in {"idle", "app", "lock"}
    BY <1>5, Delivered
  <2>3. QED
    BY <1>1, <1>5, <2>1, <2>2, Delivered DEF HandlersInv
<1>6. ASSUME NEW g \in Callers, DeliverConcurrent(g) \/ DeliverOptional(g) PROVE HandlersInv'
  <2>1. /\ op'[g] \in UnaryMethods \cup {"none"} /\ pc'[g] \in {"idle", "app"}
        /\ cServing # g /\ UNCHANGED <<cServing, ePhase, eNext, lastOutcome>>
    BY <1>6, Requested
  <2>2. QED
    BY <1>1, <1>6, <2>1, Requested DEF HandlersInv
<1>7. ASSUME NEW g \in Callers, HandlerStep(g) PROVE HandlersInv'
  <2>1. Inv /\ (Acquire(g) \/ Continue(g)) /\ UNCHANGED <<cServing, ePhase, eNext>>
    BY <1>7 DEF LinkInv, HandlerStep
  <2>2. op[g] \in UnaryMethods
    BY <1>1, <2>1, HandlerCalls DEF HandlersInv
  <2>3. ASSUME NEW k \in Callers \ {g}, At(k, "ExecuteBlock", "complete")
        PROVE  UNCHANGED lastOutcome
    <3>1. Holds(k)
      BY <2>3 DEF Holds, SequencedMethods
    <3>2. ~Holds(g)
      BY <2>1, <3>1 DEF Inv, LockInv, SeqExclusion
    <3>3. QED
      BY <2>1, <2>2, <3>2, HandlerWrites DEF Holds, SequencedMethods
  <2>4. \A k \in Callers \ {g} : UNCHANGED <<op[k], pc[k], height[k]>>
    BY <2>1, HandlerCalls
  <2>5. /\ op'[g] \in {op[g], "none"} /\ (op'[g] # "none" => height'[g] = height[g])
        /\ At(g, "ExecuteBlock", "complete")' => lastOutcome' = height[g]
    BY <2>1, <2>2, HandlerCalls, HandlerWrites
  <2>6. QED
    BY <1>1, <2>1, <2>2, <2>3, <2>4, <2>5 DEF HandlersInv
<1>8. CASE Die
  BY <1>1, <1>8 DEF Die, HandlersInv
<1>9. CASE UNCHANGED <<vars, clientVars, engineVars>>
  BY <1>1, <1>9 DEF HandlersInv
<1>10. QED
  BY <1>2, <1>3, <1>4, <1>5, <1>6, <1>7, <1>8, <1>9, LinkSteps

(* The response to the client's Handshake stays true until it arrives. *)
LEMMA ResponseStep ==
  ASSUME LinkInv, LinkNext
  PROVE  ResponseInv'
<1> USE LinkAssumption DEF At, vars, callVars, appVars, guardVars, engineVars, clientVars,
      processVars, linkVars
<1>1. /\ ResponseInv /\ Inv
      /\ NoHandler \notin Callers /\ LostHandler \notin Callers
      /\ cPc # "wait" => cServing = NoHandler
  BY DEF LinkInv, ClientInv
<1>2. CASE ClientWithinCall
  BY <1>1, <1>2, ClientMoves DEF ResponseInv
<1>3. CASE ClientReply \/ ClientDeadline \/ ClientUnavailable
  BY <1>1, <1>3, ClientEnds DEF ClientEnd, ResponseInv
<1>4. CASE Dial
  BY <1>1, <1>4 DEF Dial, ClientReturn, ResponseInv
<1>5. ASSUME NEW g \in Callers, Deliver(g) PROVE ResponseInv'
  BY <1>1, <1>5, Delivered DEF ResponseInv
<1>6. ASSUME NEW g \in Callers, DeliverConcurrent(g) \/ DeliverOptional(g) PROVE ResponseInv'
  BY <1>1, <1>6, Requested DEF ResponseInv
<1>7. ASSUME NEW g \in Callers, HandlerStep(g) PROVE ResponseInv'
  <2>1. /\ Acquire(g) \/ Continue(g)
        /\ Respond(g) /\ UNCHANGED <<cServing, ePhase>>
    BY <1>7 DEF HandlerStep
  <2>2. SUFFICES ASSUME ePhase = "Handshake", cServing \in Callers,
                        \/ op'[cServing] = "Handshake" /\ pc'[cServing] = "complete"
                        \/ pc'[cServing] = "idle" /\ ret'[cServing] = "ok"
                 PROVE  /\ pc'[cServing] = "idle" => handshakeDone'
                        /\ response'.caps = caps'
                        /\ response'.alone => /\ response'.height = appCommitted'
                                              /\ \A k \in Callers \ {cServing} : pc'[k] = "idle"
    BY <2>1 DEF ResponseInv
  <2>3. \A k \in Callers \ {g} : UNCHANGED <<op[k], pc[k], ret[k]>>
    BY <1>1, <2>1, HandlerCalls
  <2>4. CASE g = cServing
    <3>1. op[g] = "Handshake" /\ pc[g] # "idle"
      BY <1>1, <2>1, <2>2, <2>4, HandlerCalls DEF LinkInv, HandlersInv
    <3>2. /\ pc \in [Callers -> Locations] /\ op \in [Callers -> AllMethods \cup {"none"}]
          /\ ret \in [Callers -> {"none", "ok", "panic"} \cup ExecuteErrors]
      BY <1>1 DEF Inv, TypeOK
    <3>3. HandshakeAnswered(g) \/ HandshakeComplete(g) \/ AppPanics(g)
      BY <1>1, <2>1, <3>1
      DEF Acquire, Continue, ExecuteAcquire, ExecuteRefused, CommitAcquire, CommitRefused,
          ExecuteStore, ExecuteAnswered, ExecuteOutcome, ExecuteComplete, CommitStore,
          CommitAnswered, CommitOutcome, CommitComplete, ObserverGate, AppAnswers, Inv,
          CallShape, ObserverMethods
    <3>4. CASE HandshakeAnswered(g)
      <4>1. pc[g] = "app" /\ pc'[g] = "complete" /\ UNCHANGED appCommitted
        BY <2>2, <2>4, <3>2, <3>4 DEF HandshakeAnswered, Goto, Return
      <4>2. response' = [caps |-> caps', height |-> appCommitted,
                         alone |-> \A k \in Callers \ {g} : pc[k] = "idle"]
        BY <2>1, <3>1, <4>1 DEF Respond
      <4>3. /\ response'.caps = caps' /\ response'.height = appCommitted
            /\ response'.alone = \A k \in Callers \ {g} : pc[k] = "idle"
        BY <4>2
      <4>4. response'.alone => \A k \in Callers \ {g} : pc[k] = "idle"
        BY <4>3, Zenon
      <4>5. QED
        BY <2>3, <2>4, <4>1, <4>3, <4>4
    <3>5. CASE HandshakeComplete(g)
      <4>1. /\ At(g, "Handshake", "complete") /\ handshakeDone'
            /\ UNCHANGED <<caps, appCommitted>>
        BY <3>5 DEF HandshakeComplete, CompleteHandshake
      <4>2. UNCHANGED response
        BY <2>1, <4>1 DEF Respond
      <4>3. QED
        BY <1>1, <2>2, <2>3, <2>4, <4>1, <4>2 DEF ResponseInv
    <3>6. CASE AppPanics(g)
      BY <2>2, <2>4, <3>2, <3>6 DEF AppPanics, Return
    <3>7. QED
      BY <3>3, <3>4, <3>5, <3>6
  <2>5. CASE g # cServing
    <3>1. \/ At(cServing, "Handshake", "complete")
          \/ pc[cServing] = "idle" /\ ret[cServing] = "ok" /\ handshakeDone
      BY <1>1, <2>2, <2>3, <2>5 DEF ResponseInv
    <3>2. op[g] # "Handshake"
      BY <1>1, <2>2, <2>5, <3>1 DEF Inv, HandshakeInv, HandshakeOnce
    <3>3. UNCHANGED <<response, caps>>
      BY <2>1, <3>2, CapsWriter DEF Respond, Step, HandshakeAnswered
    <3>4. ~response.alone
      BY <1>1, <2>1, <2>2, <2>5, <3>1, HandlerCalls DEF ResponseInv
    <3>5. handshakeDone => handshakeDone'
      BY <1>1, <2>1, HandlerGuard
    <3>6. QED
      BY <1>1, <2>2, <2>3, <2>5, <3>1, <3>3, <3>4, <3>5 DEF ResponseInv
  <2>6. QED
    BY <2>4, <2>5
<1>8. CASE Die
  BY <1>1, <1>8 DEF Die, ResponseInv
<1>9. CASE UNCHANGED <<vars, clientVars, engineVars, response>>
  BY <1>1, <1>9 DEF ResponseInv
<1>10. QED
  BY <1>2, <1>3, <1>4, <1>5, <1>6, <1>7, <1>8, <1>9, LinkSteps

(* When the response to the client's Handshake arrives and starts a session, *)
(* it tells the truth and nothing is in a handler.                           *)
LEMMA SessionStarts ==
  ASSUME LinkInv, ePhase = "Handshake", Served
  PROVE  /\ handshakeDone /\ response.caps = caps
         /\ response.alone => /\ response.height = appCommitted
                              /\ \A k \in Callers : pc[k] = "idle" /\ op[k] = "none"
<1>1. ResponseInv /\ pc[cServing] = "idle"
  BY DEF LinkInv, Served
<1>2. \A k \in Callers : op[k] = "none" <=> pc[k] = "idle"
  BY DEF LinkInv, Inv, CallShape
<1>3. QED
  BY <1>1, <1>2 DEF ResponseInv, Served

(* During a session both sides keep what the Handshake told them. *)
LEMMA KnownStep ==
  ASSUME LinkInv, LinkNext
  PROVE  KnownInv'
<1> USE LinkAssumption DEF At, vars, callVars, appVars, guardVars, engineVars, clientVars,
      processVars, linkVars
<1>1. /\ KnownInv /\ ResponseInv /\ Inv /\ (ePhase = "Handshake" => ~session)
      /\ NoHandler \notin Callers /\ LostHandler \notin Callers /\ NoHandler # LostHandler
  BY DEF LinkInv, EngineInv
<1>2. CASE ClientWithinCall
  BY <1>1, <1>2, ClientMoves DEF KnownInv
<1>3. CASE ClientReply \/ ClientDeadline \/ ClientUnavailable
  <2>1. ClientEnd /\ UNCHANGED <<handshakeDone, caps>>
    BY <1>3, ClientEnds
  <2>2. ePhase' # "Handshake" \/ (ePhase = "Handshake" /\ session' = session)
    BY <2>1 DEF ClientEnd
  <2>3. cServing' # LostHandler
    BY <1>1, <2>1 DEF ClientEnd
  <2>4. CASE ePhase = "Handshake" /\ Served
    BY <1>1, <2>1, <2>2, <2>3, <2>4, SessionStarts DEF ClientEnd, KnownInv
  <2>5. CASE ~(ePhase = "Handshake" /\ Served)
    BY <1>1, <2>1, <2>2, <2>3, <2>5 DEF ClientEnd, KnownInv
  <2>6. QED
    BY <2>4, <2>5
<1>4. CASE Dial
  BY <1>4 DEF Dial, KnownInv
<1>5. ASSUME NEW g \in Callers, Deliver(g) PROVE KnownInv'
  BY <1>1, <1>5, Delivered DEF KnownInv
<1>6. ASSUME NEW g \in Callers, DeliverConcurrent(g) \/ DeliverOptional(g) PROVE KnownInv'
  BY <1>1, <1>6, Requested DEF KnownInv
<1>7. ASSUME NEW g \in Callers, HandlerStep(g) PROVE KnownInv'
  <2>1. (Acquire(g) \/ Continue(g)) /\ UNCHANGED <<cCaps, cServing, ePhase, session>>
    BY <1>7 DEF HandlerStep
  <2>2. QED
    BY <1>1, <2>1, HandlerGuard DEF KnownInv
<1>8. CASE Die
  BY <1>8 DEF Die, KnownInv
<1>9. CASE UNCHANGED <<vars, clientVars, engineVars, session>>
  BY <1>1, <1>9 DEF KnownInv
<1>10. QED
  BY <1>2, <1>3, <1>4, <1>5, <1>6, <1>7, <1>8, <1>9, LinkSteps

(* During a session only wrappers of what was declared reach the application. *)
LEMMA WrapperStep ==
  ASSUME LinkInv, LinkNext
  PROVE  WrapperInv'
<1> USE LinkAssumption DEF At, vars, callVars, appVars, guardVars, engineVars, clientVars,
      processVars, linkVars
<1>1. /\ WrapperInv /\ KnownInv /\ ResponseInv /\ Inv
      /\ (ePhase = "Handshake" => ~session)
  BY DEF LinkInv, EngineInv
<1>2. CASE ClientWithinCall
  BY <1>1, <1>2, ClientMoves DEF WrapperInv
<1>3. CASE ClientReply \/ ClientDeadline \/ ClientUnavailable
  BY <1>1, <1>3, ClientEnds, SessionStarts DEF ClientEnd, WrapperInv
<1>4. CASE Dial
  BY <1>4 DEF Dial, WrapperInv
<1>5. ASSUME NEW g \in Callers, Deliver(g) PROVE WrapperInv'
  BY <1>1, <1>5, Delivered DEF WrapperInv
<1>6. ASSUME NEW g \in Callers, DeliverConcurrent(g) \/ DeliverOptional(g) PROVE WrapperInv'
  BY <1>1, <1>6, Requested DEF WrapperInv, KnownInv
<1>7. ASSUME NEW g \in Callers, HandlerStep(g) PROVE WrapperInv'
  <2>1. (Acquire(g) \/ Continue(g)) /\ UNCHANGED session
    BY <1>7 DEF HandlerStep
  <2>2. op[g] \in UnaryMethods
    BY <1>1, <2>1, HandlerCalls DEF LinkInv, HandlersInv
  <2>3. ASSUME pc'[g] = "app" PROVE InterfaceOf(op'[g]) = "Lifecycle"
    <3>1. pc[g] = "store"
      BY <1>1, <2>1, <2>2, <2>3, HandlerCalls DEF Inv, CallShape, UnaryMethods
    <3>2. op[g] \in SequencedMethods
      BY <1>1, <3>1 DEF Inv, CallShape
    <3>3. op'[g] = op[g]
      BY <1>1, <2>1, <2>3, HandlerCalls, ServerStep DEF Inv, CallShape
    <3>4. QED
      BY <3>2, <3>3, LifecycleInterface DEF SequencedMethods
  <2>4. session => UNCHANGED caps
    BY <1>1, <2>1, HandlerGuard DEF KnownInv
  <2>5. \A k \in Callers \ {g} : UNCHANGED <<op[k], pc[k]>>
    BY <1>1, <2>1, HandlerCalls
  <2>6. QED
    BY <1>1, <2>1, <2>3, <2>4, <2>5 DEF WrapperInv
<1>8. CASE Die
  BY <1>8 DEF Die, WrapperInv
<1>9. CASE UNCHANGED <<vars, clientVars, engineVars, session>>
  BY <1>1, <1>9 DEF WrapperInv
<1>10. QED
  BY <1>2, <1>3, <1>4, <1>5, <1>6, <1>7, <1>8, <1>9, LinkSteps

(* During a session a handler takes the executed block away only by Commit. *)
LEMMA ExecutedKept ==
  ASSUME LinkInv, session, NEW g \in Callers, HandlerStep(g), state = "Executed",
         op[g] # "Commit"
  PROVE  state' = "Executed" /\ UNCHANGED lastOutcome
<1>1. Inv /\ handshakeDone /\ (Acquire(g) \/ Continue(g))
  BY DEF LinkInv, KnownInv, HandlerStep
<1>2. op[g] \in UnaryMethods
  BY <1>1, HandlerCalls DEF LinkInv, HandlersInv
<1>3. ~At(g, "ExecuteBlock", "outcome")
  BY <1>1 DEF Inv, OutcomeInv, At, Holds, SequencedMethods
<1>4. state' = "Executed"
  BY <1>1, HandlerGuard DEF At
<1>5. UNCHANGED lastOutcome
  BY <1>1, <1>2, <1>3, HandlerWrites DEF At
<1>6. QED
  BY <1>4, <1>5

(* During a session Commit belongs to the engine, alone, to the end. *)
LEMMA LinkCommitStep ==
  ASSUME LinkInv, LinkNext
  PROVE  CommitInv'
<1> USE LinkAssumption DEF At, vars, callVars, appVars, guardVars, engineVars, clientVars,
      processVars, linkVars
<1>1. /\ CommitInv /\ ExecuteInv /\ KnownInv /\ Inv /\ (ePhase = "Handshake" => ~session)
      /\ NoHandler \notin Callers /\ LostHandler \notin Callers
      /\ (cPc = "wait") <=> (cServing # NoHandler)
      /\ cPc \in {"invoke", "wait"} => ~eBroken /\ ePhase # "Halted"
      /\ cServing # NoHandler => ~eBroken
  BY DEF LinkInv, EngineInv, ClientInv
<1>2. \A k \in Callers : op[k] = "none" <=> pc[k] = "idle"
  BY <1>1 DEF Inv, CallShape
<1>3. CASE ClientWithinCall
  <2>1. /\ cPc # "wait"
        /\ UNCHANGED <<op, pc, ret, state, lastOutcome, appCommitted, session, ePhase, eNext,
                       eBroken, cServing>>
    BY <1>3, ClientMoves
  <2>2. QED
    BY <1>1, <2>1 DEF CommitInv, HoldsNext
<1>4. CASE ClientReply \/ ClientDeadline \/ ClientUnavailable
  <2>1. ClientEnd /\ UNCHANGED vars
    BY <1>4, ClientEnds
  <2>2. CASE ePhase = "Handshake"
    BY <1>1, <2>1, <2>2, SessionStarts DEF ClientEnd, CommitInv
  <2>3. CASE ePhase = "ExecuteBlock"
    BY <1>1, <2>1, <2>3 DEF ClientEnd, Served, CommitInv, ExecuteInv, HoldsNext
  <2>4. CASE ePhase = "Commit"
    BY <1>1, <1>2, <2>1, <2>4 DEF ClientEnd, Served, CommitInv
  <2>5. QED
    BY <2>1, <2>2, <2>3, <2>4 DEF ClientEnd
<1>5. CASE Dial
  BY <1>5 DEF Dial, CommitInv
<1>6. ASSUME NEW g \in Callers, Deliver(g) PROVE CommitInv'
  <2>1. SUFFICES ASSUME session PROVE CommitInv'
    BY <1>6, Delivered DEF CommitInv
  <2>2. /\ op'[g] = ePhase /\ pc'[g] = "lock" /\ ret'[g] = "none"
        /\ cPc' = "wait" /\ cServing' = g /\ cServing = NoHandler
        /\ UNCHANGED <<state, lastOutcome, appCommitted, ePhase, eNext, eBroken>>
        /\ \A k \in Callers \ {g} : UNCHANGED <<op[k], pc[k]>>
    BY <1>1, <1>6, <2>1, Delivered
  <2>3. ~eBroken /\ \A k \in Callers : op[k] # "Commit"
    BY <1>1, <1>6, <2>1, <2>2, Delivered DEF CommitInv
  <2>4. ePhase = "Commit" => HoldsNext /\ appCommitted = eNext - 1
    BY <1>1, <1>6, <2>1, <2>3, Delivered DEF CommitInv
  <2>5. QED
    BY <1>1, <2>2, <2>3, <2>4 DEF CommitInv, HoldsNext
<1>7. ASSUME NEW g \in Callers, DeliverConcurrent(g) \/ DeliverOptional(g) PROVE CommitInv'
  <2>1. /\ op'[g] # "Commit" /\ g # cServing
        /\ UNCHANGED <<state, lastOutcome, appCommitted, session, ePhase, eNext, eBroken,
                       cPc, cServing>>
        /\ \A k \in Callers \ {g} : UNCHANGED <<op[k], pc[k], ret[k]>>
    BY <1>7, Requested DEF SequencedMethods
  <2>2. QED
    BY <1>1, <2>1 DEF CommitInv, HoldsNext
<1>8. ASSUME NEW g \in Callers, HandlerStep(g) PROVE CommitInv'
  <2>1. /\ Acquire(g) \/ Continue(g)
        /\ UNCHANGED <<cPc, cServing, ePhase, eNext, eBroken, session>>
    BY <1>8 DEF HandlerStep
  <2>2. SUFFICES ASSUME session PROVE CommitInv'
    BY <2>1 DEF CommitInv
  <2>3. /\ op[g] \in UnaryMethods /\ op'[g] \in {op[g], "none"} /\ pc'[g] # "lock"
        /\ \A k \in Callers \ {g} : UNCHANGED <<op[k], pc[k], ret[k]>>
    BY <1>1, <2>1, HandlerCalls DEF LinkInv, HandlersInv
  <2>4. /\ UNCHANGED appCommitted \/ (At(g, "Commit", "app") /\ appCommitted' = lastOutcome)
        /\ op[g] = "Commit" /\ ret'[g] = "ok" =>
             ret[g] = "ok" \/ (At(g, "Commit", "app") /\ appCommitted' = lastOutcome)
        /\ op[g] = "Commit" /\ pc[g] \notin {"lock", "store"} => pc'[g] \notin {"store", "app"}
    BY <1>1, <2>1, <2>3, HandlerWrites
  <2>5. ASSUME NEW k \in Callers, op'[k] = "Commit"
        PROVE  /\ ePhase = "Commit" /\ (cServing = k \/ eBroken)
               /\ \A j \in Callers : op'[j] = "Commit" => j = k
               /\ pc'[k] = "lock" => state' = "Executed"
               /\ pc'[k] \in {"lock", "store", "app"} =>
                    lastOutcome' = eNext /\ appCommitted' = eNext - 1
    <3>1. op[k] = "Commit"
      BY <2>3, <2>5
    <3>2. /\ ePhase = "Commit" /\ (cServing = k \/ eBroken)
          /\ \A j \in Callers : op[j] = "Commit" => j = k
          /\ pc[k] = "lock" => state = "Executed"
          /\ pc[k] \in {"lock", "store", "app"} =>
               lastOutcome = eNext /\ appCommitted = eNext - 1
      BY <1>1, <2>2, <3>1 DEF CommitInv
    <3>3. \A j \in Callers : op'[j] = "Commit" => j = k
      BY <2>3, <3>2
    <3>4. CASE k = g
      <4>1. pc'[k] \in {"store", "app"} => pc[k] \in {"lock", "store"}
        BY <2>4, <3>1, <3>4
      <4>2. pc[k] \in {"lock", "store"} => UNCHANGED <<lastOutcome, appCommitted>>
        BY <1>1, <2>1, <2>3, <2>4, <3>1, <3>4, HandlerWrites
      <4>3. QED
        BY <2>3, <3>2, <3>3, <3>4, <4>1, <4>2
    <3>5. CASE k # g
      <4>1. op[g] # "Commit" /\ pc'[k] = pc[k]
        BY <2>3, <3>2, <3>5
      <4>2. UNCHANGED appCommitted
        BY <2>4, <4>1
      <4>3. pc[k] = "lock" => state' = "Executed" /\ UNCHANGED lastOutcome
        BY <1>8, <2>2, <3>2, <4>1, ExecutedKept
      <4>4. pc[k] \in {"store", "app"} => UNCHANGED lastOutcome
        <5>1. ~(Holds(k) /\ Holds(g))
          BY <1>1, <3>5 DEF Inv, LockInv, SeqExclusion
        <5>2. QED
          BY <1>1, <2>1, <2>3, <3>1, <4>1, <5>1, HandlerWrites DEF Holds, SequencedMethods
      <4>5. QED
        BY <3>2, <3>3, <4>1, <4>2, <4>3, <4>4
    <3>6. QED
      BY <3>4, <3>5
  <2>6. ASSUME ePhase = "Commit", cPc # "wait", ~eBroken
        PROVE  HoldsNext' /\ appCommitted' = eNext - 1
    <3>1. HoldsNext /\ appCommitted = eNext - 1 /\ op[g] # "Commit"
      BY <1>1, <2>2, <2>6 DEF CommitInv
    <3>2. QED
      BY <1>8, <2>1, <2>2, <2>4, <3>1, ExecutedKept DEF HoldsNext
  <2>7. ASSUME ePhase = "Commit", cServing \in Callers, ret'[cServing] = "ok"
        PROVE  appCommitted' = eNext
    <3>1. At(g, "Commit", "app") => g = cServing /\ lastOutcome = eNext
      BY <1>1, <2>2, <2>7 DEF CommitInv
    <3>2. ret[cServing] = "ok" => appCommitted = eNext
      BY <1>1, <2>2, <2>7 DEF CommitInv
    <3>3. CASE g = cServing
      <4>1. op[g] = "Commit"
        BY <1>1, <2>1, <2>7, <3>3, HandlerCalls DEF LinkInv, HandlersInv
      <4>2. QED
        BY <2>4, <2>7, <3>1, <3>2, <3>3, <4>1
    <3>4. CASE g # cServing
      BY <2>3, <2>4, <2>7, <3>1, <3>2, <3>4
    <3>5. QED
      BY <3>3, <3>4
  <2>8. QED
    BY <2>1, <2>5, <2>6, <2>7 DEF CommitInv
<1>9. CASE Die
  BY <1>9 DEF Die, CommitInv
<1>10. CASE UNCHANGED <<vars, clientVars, engineVars, session>>
  BY <1>1, <1>10 DEF CommitInv, HoldsNext
<1>11. QED
  BY <1>3, <1>4, <1>5, <1>6, <1>7, <1>8, <1>9, <1>10, LinkSteps

(* During a session the application stays where the engine believes it is. *)
LEMMA LinkExecuteStep ==
  ASSUME LinkInv, LinkNext
  PROVE  ExecuteInv'
<1> USE LinkAssumption DEF At, vars, callVars, appVars, guardVars, engineVars, clientVars,
      processVars, linkVars
<1>1. /\ CommitInv /\ ExecuteInv /\ KnownInv /\ Inv /\ (ePhase = "Handshake" => ~session)
      /\ NoHandler \notin Callers
      /\ cPc \in {"invoke", "wait"} => ~eBroken /\ ePhase # "Halted"
  BY DEF LinkInv, EngineInv, ClientInv
<1>2. eNext \in Nat /\ response.height \in Nat
  BY ServerAssumption DEF LinkInv, LinkTypeOK
<1>3. CASE ClientWithinCall
  BY <1>1, <1>3, ClientMoves DEF ExecuteInv, HoldsNext
<1>4. CASE ClientReply \/ ClientDeadline \/ ClientUnavailable
  <2>1. ClientEnd /\ UNCHANGED vars
    BY <1>4, ClientEnds
  <2>2. CASE ePhase = "Handshake"
    <3>1. cServing' = NoHandler /\ UNCHANGED appCommitted
      BY <2>1 DEF ClientEnd
    <3>2. session' /\ ePhase' = "ExecuteBlock" => Served /\ response.alone /\ eNext' = response.height + 1
      BY <1>1, <2>1, <2>2 DEF ClientEnd
    <3>3. Served /\ response.alone => response.height = appCommitted
      BY <2>2, SessionStarts
    <3>4. QED
      BY <1>1, <1>2, <3>1, <3>2, <3>3 DEF ExecuteInv
  <2>3. CASE ePhase = "ExecuteBlock"
    BY <1>1, <2>1, <2>3 DEF ClientEnd, ExecuteInv
  <2>4. CASE ePhase = "Commit"
    <3>1. cServing' = NoHandler /\ UNCHANGED <<appCommitted, session>>
      BY <2>1, <2>4 DEF ClientEnd
    <3>2. ePhase' = "ExecuteBlock" => Served /\ eNext' = eNext + 1
      BY <2>1, <2>4 DEF ClientEnd
    <3>3. session /\ Served => appCommitted = eNext
      BY <1>1, <2>4 DEF CommitInv, Served
    <3>4. QED
      BY <1>1, <1>2, <3>1, <3>2, <3>3 DEF ExecuteInv
  <2>5. QED
    BY <2>1, <2>2, <2>3, <2>4 DEF ClientEnd
<1>5. CASE Dial
  BY <1>5 DEF Dial, ExecuteInv
<1>6. ASSUME NEW g \in Callers, Deliver(g) PROVE ExecuteInv'
  BY <1>1, <1>6, Delivered DEF ExecuteInv, HoldsNext
<1>7. ASSUME NEW g \in Callers, DeliverConcurrent(g) \/ DeliverOptional(g) PROVE ExecuteInv'
  <2>1. /\ g # cServing
        /\ UNCHANGED <<state, lastOutcome, appCommitted, session, ePhase, eNext, eBroken,
                       cServing>>
        /\ \A k \in Callers \ {g} : UNCHANGED <<pc[k], ret[k]>>
    BY <1>7, Requested
  <2>2. QED
    BY <1>1, <2>1 DEF ExecuteInv, HoldsNext
<1>8. ASSUME NEW g \in Callers, HandlerStep(g) PROVE ExecuteInv'
  <2>1. /\ Acquire(g) \/ Continue(g)
        /\ UNCHANGED <<cServing, ePhase, eNext, eBroken, session>>
    BY <1>8 DEF HandlerStep
  <2>2. SUFFICES ASSUME session, ePhase = "ExecuteBlock", ~eBroken
                 PROVE  /\ appCommitted' = eNext - 1
                        /\ cServing \in Callers =>
                             (pc'[cServing] = "idle" /\ ret'[cServing] = "ok" => HoldsNext')
    BY <2>1 DEF ExecuteInv
  <2>3. op[g] \in UnaryMethods /\ op[g] # "none" /\ op[g] # "Commit"
    BY <1>1, <2>1, <2>2, HandlerCalls DEF LinkInv, HandlersInv, CommitInv
  <2>4. appCommitted' = eNext - 1
    BY <1>1, <2>1, <2>2, <2>3, HandlerWrites DEF ExecuteInv
  <2>5. ASSUME cServing \in Callers, pc'[cServing] = "idle", ret'[cServing] = "ok"
        PROVE  HoldsNext'
    <3>1. CASE g = cServing
      <4>1. op[g] = "ExecuteBlock" /\ height[g] = eNext
        BY <2>2, <2>3, <3>1 DEF LinkInv, HandlersInv
      <4>2. pc[g] = "complete" /\ state' = "Executed" /\ UNCHANGED lastOutcome
        BY <1>1, <2>1, <2>3, <2>5, <3>1, <4>1, HandlerWrites
      <4>3. lastOutcome = height[g]
        BY <4>1, <4>2 DEF LinkInv, HandlersInv
      <4>4. QED
        BY <2>1, <4>1, <4>2, <4>3 DEF HoldsNext
    <3>2. CASE g # cServing
      <4>1. pc[cServing] = "idle" /\ ret[cServing] = "ok"
        BY <1>1, <2>1, <2>5, <3>2, HandlerCalls
      <4>2. HoldsNext
        BY <1>1, <2>2, <2>5, <4>1 DEF ExecuteInv
      <4>3. QED
        BY <1>8, <2>1, <2>2, <2>3, <4>2, ExecutedKept DEF HoldsNext
    <3>3. QED
      BY <3>1, <3>2
  <2>6. QED
    BY <2>4, <2>5
<1>9. CASE Die
  BY <1>9 DEF Die, ExecuteInv
<1>10. CASE UNCHANGED <<vars, clientVars, engineVars, session>>
  BY <1>1, <1>10 DEF ExecuteInv, HoldsNext
<1>11. QED
  BY <1>3, <1>4, <1>5, <1>6, <1>7, <1>8, <1>9, <1>10, LinkSteps

-----------------------------------------------------------------------------
(* The theorems. *)

(* A new connection to a new process satisfies the invariant. *)
LEMMA LinkInitInv == LinkInit => LinkInv
<1> USE LinkAssumption
<1>1. SUFFICES ASSUME LinkInit PROVE LinkInv
  OBVIOUS
<1>2. Inv /\ TypeOK
  BY <1>1, InitInv DEF LinkInit, Inv
<1>3. /\ New /\ Dialed /\ session = FALSE /\ up = TRUE /\ faults = 0 /\ response = NoResponse
  BY <1>1 DEF LinkInit
<1>4. cDone \in BOOLEAN /\ eBroken \in BOOLEAN /\ session \in BOOLEAN /\ up \in BOOLEAN
  BY <1>3 DEF Dialed, CG!NewLifecycleGuard
<1>5. LinkTypeOK
  <2>1. NoResponse \in [caps : SUBSET Capabilities, height : Heights \cup {0}, alone : BOOLEAN]
    BY DEF NoResponse
  <2>2. QED
    BY <1>2, <1>3, <1>4, <2>1
    DEF LinkTypeOK, Dialed, CG!NewLifecycleGuard, CG!GuardTypeOK, CG!lifecycleState
<1>6. ClientInv /\ EngineInv
  BY <1>3 DEF Dialed, CG!NewLifecycleGuard, ClientInv, ClientGuardAdmits, EngineInv
<1>7. HandlersInv /\ ResponseInv
  BY <1>3 DEF New, Dialed, HandlersInv, ResponseInv, At
<1>8. KnownInv /\ CommitInv /\ ExecuteInv /\ WrapperInv
  BY <1>3 DEF KnownInv, CommitInv, ExecuteInv, WrapperInv
<1>9. QED
  BY <1>2, <1>5, <1>6, <1>7, <1>8 DEF LinkInv

(* Every step of the link keeps the invariant. *)
LEMMA LinkNextInv == LinkInv /\ [LinkNext]_allVars => LinkInv'
<1>1. ASSUME LinkInv, LinkNext PROVE LinkInv'
  BY <1>1, ServerStep, LinkTypeStep, ClientStep, HandlersStep, ResponseStep, KnownStep,
     LinkCommitStep, LinkExecuteStep, WrapperStep DEF LinkInv
<1>2. ASSUME LinkInv, UNCHANGED allVars PROVE LinkInv'
  <2> USE <1>2 DEF allVars, linkVars, clientVars, cGuardVars, engineVars, processVars, vars,
        callVars, guardVars, appVars
  <2>1. Inv'
    BY NextInv DEF LinkInv
  <2>2. LinkTypeOK'
    BY <2>1 DEF LinkInv, LinkTypeOK, CG!GuardTypeOK, Inv
  <2>3. ClientInv' /\ EngineInv'
    BY DEF LinkInv, ClientInv, ClientGuardAdmits, EngineInv
  <2>4. HandlersInv' /\ ResponseInv'
    BY DEF LinkInv, HandlersInv, ResponseInv, At
  <2>5. KnownInv' /\ CommitInv' /\ ExecuteInv' /\ WrapperInv'
    BY DEF LinkInv, KnownInv, CommitInv, ExecuteInv, WrapperInv, HoldsNext
  <2>6. QED
    BY <2>1, <2>2, <2>3, <2>4, <2>5 DEF LinkInv
<1>3. QED
  BY <1>1, <1>2

(* The inductive invariant holds of every behaviour of the link. *)
THEOREM LinkInvariance == LinkSpec => []LinkInv
  BY LinkInitInv, LinkNextInv, PTL DEF LinkSpec

(* The types of the link. *)
THEOREM LinkTypeCorrect == LinkSpec => []LinkTypeOK
<1>1. LinkInv => LinkTypeOK
  BY DEF LinkInv
<1>2. QED
  BY <1>1, LinkInvariance, PTL

(* Over the link too, whatever is lost, late or retried and however often    *)
(* the process dies, the server keeps ExecuteBlock and Commit apart, commits *)
(* what it returned, and lets one Handshake in (server.go).                  *)
THEOREM RemoteServerSafe ==
  LinkSpec => [](SeqExclusion /\ CommitPersistsReturnedOutcome /\ HandshakeOnce)
<1>1. LinkInv => SeqExclusion /\ CommitPersistsReturnedOutcome /\ HandshakeOnce
  BY DEF LinkInv, Inv, LockInv, OutcomeInv, HandshakeInv, CommitPersistsReturnedOutcome
<1>2. QED
  BY <1>1, LinkInvariance, PTL

(* The client's guard refuses no call of a lawful engine. *)
THEOREM GuardAdmits == LinkSpec => []ClientGuardAdmits
<1>1. LinkInv => ClientGuardAdmits
  BY DEF LinkInv, ClientInv, ClientGuardAdmits
<1>2. QED
  BY <1>1, LinkInvariance, PTL

(* During a session both sides know the same Handshake. *)
THEOREM Agreed == LinkSpec => []SessionAgrees
<1>1. LinkInv => SessionAgrees
  BY DEF LinkInv, KnownInv, SessionAgrees
<1>2. QED
  BY <1>1, LinkInvariance, PTL

(* During a session, what the client takes for executed the server holds.    *)
THEOREM GuardsAgree == LinkSpec => []GuardsAgreeOnExecuted
<1>1. ASSUME LinkInv, session, cState = "Executed" PROVE HoldsNext
  <2>1. ePhase = "Commit" /\ cPc # "wait" /\ ~eBroken
    BY <1>1 DEF LinkInv, LinkTypeOK, ClientInv, ClientGuardAdmits
  <2>2. QED
    BY <1>1, <2>1 DEF LinkInv, CommitInv
<1>2. LinkInv => GuardsAgreeOnExecuted
  BY <1>1 DEF GuardsAgreeOnExecuted, HoldsNext
<1>3. QED
  BY <1>2, LinkInvariance, PTL

(* During a session the engine counts exactly what the application persisted. *)
THEOREM Durable == LinkSpec => []AcknowledgedIsDurable
<1>1. LinkInv => AcknowledgedIsDurable
  BY DEF LinkInv, ExecuteInv, AcknowledgedIsDurable
<1>2. QED
  BY <1>1, LinkInvariance, PTL

(* During a session wrappers reach only what the application declared. *)
THEOREM WrappersGated == LinkSpec => []WrappersKeepToCaps
<1>1. LinkInv => WrappersKeepToCaps
  BY DEF LinkInv, KnownInv, WrapperInv, WrappersKeepToCaps
<1>2. QED
  BY <1>1, LinkInvariance, PTL

(* During a session the application commits every height in order, and none  *)
(* twice.                                                                    *)
THEOREM InOrder == LinkSpec => CommitsInOrder
<1> DEFINE Ordered ==
      /\ appCommitted' \in {appCommitted, appCommitted + 1}
      /\ \A k \in Callers : CommitSucceeds(k) => appCommitted' = appCommitted + 1
<1>1. ASSUME LinkInv, LinkNext, session
      PROVE  Ordered
  <2> USE DEF vars, callVars, appVars, linkVars
  <2>1. CASE ClientWithinCall
    BY <1>1, <2>1, ClientMoves DEF CommitSucceeds, At
  <2>2. CASE ClientReply \/ ClientDeadline \/ ClientUnavailable
    BY <1>1, <2>2, ClientEnds DEF CommitSucceeds, At
  <2>3. CASE Dial \/ Die
    BY <2>3 DEF Dial, Die, CommitSucceeds, At
  <2>4. ASSUME NEW g \in Callers, Deliver(g) PROVE Ordered
    <3>1. /\ UNCHANGED appCommitted /\ pc[g] = "idle"
          /\ \A k \in Callers \ {g} : UNCHANGED pc[k]
      BY <1>1, <2>4, Delivered
    <3>2. QED
      BY <3>1 DEF CommitSucceeds, At
  <2>5. ASSUME NEW g \in Callers, DeliverConcurrent(g) \/ DeliverOptional(g)
        PROVE  Ordered
    <3>1. /\ UNCHANGED appCommitted /\ pc[g] = "idle"
          /\ \A k \in Callers \ {g} : UNCHANGED pc[k]
      BY <1>1, <2>5, Requested
    <3>2. QED
      BY <3>1 DEF CommitSucceeds, At
  <2>6. ASSUME NEW g \in Callers, HandlerStep(g)
        PROVE  Ordered
    <3>1. Inv /\ (Acquire(g) \/ Continue(g))
      BY <1>1, <2>6 DEF LinkInv, HandlerStep
    <3>2. op[g] \in UnaryMethods
      BY <1>1, <3>1, HandlerCalls DEF LinkInv, HandlersInv
    <3>3. /\ UNCHANGED appCommitted \/ (At(g, "Commit", "app") /\ appCommitted' = lastOutcome)
          /\ CommitSucceeds(g) => appCommitted' = lastOutcome
      BY <3>1, <3>2, HandlerWrites
    <3>4. At(g, "Commit", "app") => lastOutcome = eNext /\ appCommitted = eNext - 1
      BY <1>1 DEF LinkInv, CommitInv, At
    <3>5. eNext \in Nat
      BY <1>1 DEF LinkInv, LinkTypeOK
    <3>6. \A k \in Callers \ {g} : ~CommitSucceeds(k)
      BY <3>1, HandlerCalls DEF CommitSucceeds, At
    <3>7. CommitSucceeds(g) => At(g, "Commit", "app")
      BY DEF CommitSucceeds
    <3>8. QED
      BY <3>3, <3>4, <3>5, <3>6, <3>7
  <2>7. CASE UNCHANGED <<vars, clientVars, engineVars, response, session>>
    BY <2>7 DEF CommitSucceeds, At
  <2> HIDE DEF Ordered
  <2>8. QED
    BY <1>1, <2>1, <2>2, <2>3, <2>4, <2>5, <2>6, <2>7, LinkSteps
<1>2. ASSUME LinkInv, [LinkNext]_allVars
      PROVE  [session =>
                /\ appCommitted' \in {appCommitted, appCommitted + 1}
                /\ \A g \in Callers :
                    At(g, "Commit", "app") /\ pc'[g] = "outcome" /\ ret'[g] = "ok" =>
                        appCommitted' = appCommitted + 1]_allVars
  BY <1>1, <1>2 DEF CommitSucceeds
<1>3. QED
  BY <1>2, LinkInvariance, PTL DEF LinkSpec, CommitsInOrder

=============================================================================
