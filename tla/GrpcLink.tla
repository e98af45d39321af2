------------------------------ MODULE GrpcLink ------------------------------
(***************************************************************************)
(* grpc/client.go and grpc/server.go: an engine that drives a remote       *)
(* application.  The client keeps a LifecycleGuard of its own and mirrors  *)
(* in it the calls it makes; every request that reaches the application's  *)
(* process runs in a handler goroutine of Server.  The link loses and      *)
(* delays: a call may end with a deadline before its request arrives or    *)
(* while its handler runs on, either process may die, and a panic in a     *)
(* handler, which nothing recovers, kills the application's process.       *)
(*                                                                         *)
(* The engine is external and lawful (bapi.go): Handshake first, then      *)
(* ExecuteBlock(h) and Commit in turn from the height the application      *)
(* reports.  After a failed ExecuteBlock it retries, as FailExecute        *)
(* allows, and stops for good on a HaltError; after a failed Commit or a   *)
(* broken connection it dials again.  Other goroutines of it send Query    *)
(* and call the wrappers that the client gives out for capabilities.       *)
(*                                                                         *)
(* Requests are decoded by the codec they were encoded with, so decoding   *)
(* does not fail; the streams of StateSync are in SnapshotSync.  The       *)
(* client's MempoolObserver is a stub that fails without a request.        *)
(***************************************************************************)
EXTENDS Server

CONSTANTS
    MaxHeight,      \* the engine stops after this height
    MaxFaults,      \* bound on deadlines, crashes and application errors
    QueryHandlers,  \* handlers kept for Query and the wrappers, the others serve the lifecycle
    NoHandler,      \* no handler serves the client's call
    LostHandler     \* the handler died with its process

ASSUME LinkAssumption ==
    /\ MaxHeight \in Nat /\ 1..MaxHeight = Heights
    /\ MaxFaults \in Nat
    /\ QueryHandlers \subseteq Callers
    /\ {NoHandler, LostHandler} \cap Callers = {} /\ NoHandler # LostHandler
    /\ ~HandshakeFirst

VARIABLES
    cState, cSeqMu, cDone,  \* Client.guard
    cCaps,                  \* Client.caps
    cPc,                    \* the client's lifecycle call: "idle", "store", "invoke", "wait"
    cServing,               \* the handler that serves it
    ePhase,                 \* engine: the call it makes next or is making, or "Halted"
    eNext,                  \* engine: height it executes and commits next
    eBroken,                \* engine: it gives the connection up
    up,                     \* the application's process runs
    response,               \* HandshakeResponse it gave last: what it declared and had
                            \* committed; alone: no other handler was at work then
    session,                \* it has not died since the client's Handshake, which it answered
                            \* with no other request in a handler
    faults                  \* deadlines, crashes and application errors so far

cGuardVars == <<cState, cSeqMu, cDone>>
clientVars == <<cGuardVars, cCaps, cPc, cServing>>
engineVars == <<ePhase, eNext, eBroken>>
processVars == <<up, response>>
linkVars == <<clientVars, engineVars, processVars, session, faults>>

CG == INSTANCE LifecycleGuard
        WITH state <- cState, seqMu <- cSeqMu, handshakeDone <- cDone

Dialed ==
    /\ CG!NewLifecycleGuard
    /\ cCaps = {}
    /\ cPc = "idle"
    /\ cServing = NoHandler
    /\ ePhase = "Handshake"
    /\ eNext = 0
    /\ eBroken = FALSE

NoResponse == [caps |-> {}, height |-> 0, alone |-> FALSE]

LinkInit ==
    /\ New /\ Dialed
    /\ up = TRUE /\ response = NoResponse
    /\ session = FALSE /\ faults = 0

Fault == faults < MaxFaults /\ faults' = faults + 1

-----------------------------------------------------------------------------
(* The client: guard, remote call, guard. *)

EngineMayCall == cPc = "idle" /\ ~eBroken /\ eNext <= MaxHeight

ClientGoto(where) == cPc' = where /\ UNCHANGED <<cCaps, cServing>>

ClientHandshake ==
    /\ EngineMayCall /\ ePhase = "Handshake"
    /\ CG!AcquireHandshake
    /\ ClientGoto("invoke")
    /\ UNCHANGED <<vars, engineVars, processVars, session, faults>>

ClientAcquire ==
    /\ EngineMayCall
    /\ \/ ePhase = "ExecuteBlock" /\ CG!AcquireExecute
       \/ ePhase = "Commit" /\ CG!AcquireCommit
    /\ ClientGoto("store")
    /\ UNCHANGED <<vars, engineVars, processVars, session, faults>>

ClientStore ==
    /\ cPc = "store"
    /\ IF ePhase = "ExecuteBlock" THEN CG!AcquireExecuteStore ELSE CG!AcquireCommitStore
    /\ ClientGoto("invoke")
    /\ UNCHANGED <<vars, engineVars, processVars, session, faults>>

(* What becomes of a handler's error on its way to the client: the status    *)
(* keeps the message and not the type.                                       *)
Status(r) == IF r \in ExecuteErrors THEN "err" ELSE r

IsHalt(r) == r = "halt"

(* The end of the client's call with result r, and what the engine then does. *)

ClientReturn == cPc' = "idle" /\ cServing' = NoHandler

(* A mutated form: the error of the remote Handshake is dropped. *)
FinishHandshakeDropsError(r) ==
    /\ ePhase = "Handshake"
    /\ cCaps' = response.caps
    /\ CG!CompleteHandshake
    /\ ePhase' = "ExecuteBlock" /\ eNext' = response.height + 1
    /\ session' = response.alone
    /\ UNCHANGED eBroken

FinishHandshake(r) ==
    /\ ePhase = "Handshake"
    /\ \/ /\ r = "ok"
          /\ cCaps' = response.caps
          /\ CG!CompleteHandshake
          /\ ePhase' = "ExecuteBlock" /\ eNext' = response.height + 1
          /\ session' = response.alone
          /\ UNCHANGED eBroken
       \/ /\ r # "ok"
          /\ CG!FailHandshake
          /\ eBroken' = (r = "unavailable")
          /\ UNCHANGED <<cCaps, ePhase, eNext, session>>

(* A mutated form: an error is taken for an outcome. *)
FinishExecuteIgnoresError(r) ==
    /\ ePhase = "ExecuteBlock"
    /\ CG!CompleteExecute
    /\ ePhase' = "Commit"
    /\ UNCHANGED <<cCaps, eNext, eBroken, session>>

(* A mutated form: the error path does not reset the guard. *)
FinishExecuteKeepsExecuting(r) ==
    /\ ePhase = "ExecuteBlock"
    /\ \/ /\ r = "ok"
          /\ CG!CompleteExecute
          /\ ePhase' = "Commit"
          /\ UNCHANGED eBroken
       \/ /\ r # "ok"
          /\ CG!Release("Executing")
          /\ eBroken' = (r = "unavailable")
          /\ UNCHANGED ePhase
    /\ UNCHANGED <<cCaps, eNext, session>>

FinishExecute(r) ==
    /\ ePhase = "ExecuteBlock"
    /\ \/ /\ r = "ok"
          /\ CG!CompleteExecute
          /\ ePhase' = "Commit"
          /\ UNCHANGED eBroken
       \/ /\ r # "ok"
          /\ CG!FailExecute
          /\ eBroken' = (r = "unavailable")
          /\ ePhase' = IF IsHalt(r) THEN "Halted" ELSE ePhase
    /\ UNCHANGED <<cCaps, eNext, session>>

(* A mutated form: the error of Commit is dropped. *)
FinishCommitDropsError(r) ==
    /\ ePhase = "Commit"
    /\ CG!CompleteCommit
    /\ ePhase' = "ExecuteBlock" /\ eNext' = eNext + 1
    /\ UNCHANGED <<cCaps, eBroken, session>>

(* The guard completes on error too; the engine then gives up. *)
FinishCommit(r) ==
    /\ ePhase = "Commit"
    /\ CG!CompleteCommit
    /\ \/ r = "ok" /\ ePhase' = "ExecuteBlock" /\ eNext' = eNext + 1 /\ UNCHANGED eBroken
       \/ r # "ok" /\ eBroken' = TRUE /\ UNCHANGED <<ePhase, eNext>>
    /\ UNCHANGED <<cCaps, session>>

Finish(r) == ClientReturn /\ (FinishHandshake(r) \/ FinishExecute(r) \/ FinishCommit(r))

(* The reply of the handler arrives: the response, or the error as a status. *)
ClientReply ==
    /\ cPc = "wait"
    /\ cServing \in Callers
    /\ pc[cServing] = "idle"
    /\ ret[cServing] \in {"ok"} \cup ExecuteErrors
    /\ Finish(Status(ret[cServing]))
    /\ UNCHANGED <<vars, processVars, faults>>

(* The context ends first; the handler, if there is one, is not stopped. *)
ClientDeadline ==
    /\ cPc \in {"invoke", "wait"}
    /\ Fault
    /\ Finish("deadline")
    /\ UNCHANGED <<vars, processVars>>

(* No process to talk to, or it died with the handler. *)
ClientUnavailable ==
    /\ \/ cPc = "invoke" /\ ~up
       \/ cPc = "wait" /\ cServing = LostHandler
    /\ Finish("unavailable")
    /\ UNCHANGED <<vars, processVars, faults>>

(* A new client with a new guard; the handlers of the old one run on. *)
Dial ==
    /\ CG!Renew
    /\ cCaps' = {}
    /\ ClientReturn
    /\ ePhase' = "Handshake" /\ eNext' = 0 /\ eBroken' = FALSE
    /\ session' = FALSE
    /\ UNCHANGED <<vars, processVars>>

EngineRedials == cPc = "idle" /\ eBroken /\ Dial /\ UNCHANGED faults

EngineRestarts == Fault /\ Dial

-----------------------------------------------------------------------------
(* The application's process. *)

Free(g) == up /\ pc[g] = "idle" /\ ret[g] # "panic" /\ g # cServing

(* The methods with an entry in the service table that are not streams. *)
UnaryMethods == AllMethods \ (ObserverMethods \cup {"ExportSnapshot", "ImportSnapshot"})

(* The handler of the table decodes the request and calls the server.  A     *)
(* client asks for optional methods only of applications that have them.     *)
Dispatch(g, m) ==
    /\ m \in UnaryMethods
    /\ \/ m = "Handshake" /\ (HandshakeEnter(g) \/ HandshakeRefused(g))
       \/ m = "ExecuteBlock" /\ ExecuteEnter(g)
       \/ m = "Commit" /\ CommitEnter(g)
       \/ ConcurrentEnter(g, m)
       \/ OptionalEnter(g, m)

(* A request arrives and its handler calls the server. *)
Deliver(g) ==
    /\ cPc = "invoke"
    /\ g \notin QueryHandlers /\ Free(g)
    /\ Dispatch(g, ePhase)
    /\ ePhase = "ExecuteBlock" => height'[g] = eNext
    /\ cPc' = "wait" /\ cServing' = g
    /\ UNCHANGED <<cGuardVars, cCaps, engineVars, processVars, session, faults>>

(* CheckTx or Query of another goroutine of the engine: both guards, then    *)
(* the application.                                                          *)
DeliverConcurrent(g) ==
    /\ CG!CheckConcurrent
    /\ g \in QueryHandlers /\ Free(g)
    /\ \E m \in Methods \cap {"CheckTx", "Query"} : Dispatch(g, m)
    /\ UNCHANGED linkVars

(* A mutated form: the accessors give wrappers out whatever was declared. *)
AsWithoutCaps(cap) == cap \in Capabilities

(* AsProposalControl, AsVoteExtender, AsStateSync, AsSimulator of the client. *)
ClientAs(cap) == cap \in cCaps

(* A method of such a wrapper: the client's guard has no part in it. *)
DeliverOptional(g) ==
    /\ g \in QueryHandlers /\ Free(g)
    /\ \E m \in Methods : ClientAs(InterfaceOf(m)) /\ Dispatch(g, m)
    /\ UNCHANGED linkVars

(* The application answers Handshake: its response is from that moment. *)
Respond(g) ==
    response' =
        IF At(g, "Handshake", "app") /\ pc'[g] = "complete"
          THEN [caps |-> caps', height |-> appCommitted,
                alone |-> \A k \in Callers \ {g} : pc[k] = "idle"]
          ELSE response

(* A step of a handler; an error of the application is one of the faults. *)
HandlerStep(g) ==
    /\ up
    /\ Acquire(g) \/ Continue(g)
    /\ Respond(g)
    /\ IF ret'[g] \in ExecuteErrors /\ ret[g] \notin ExecuteErrors THEN Fault ELSE UNCHANGED faults
    /\ UNCHANGED <<clientVars, engineVars, up, session>>

(* What the application has committed is durable; the guard, the handlers    *)
(* and the staging area go with the process.                                 *)
Die ==
    /\ up
    /\ up' = FALSE /\ response' = NoResponse
    /\ session' = FALSE
    /\ Renew
    /\ op' = [g \in Callers |-> "none"]
    /\ pc' = [g \in Callers |-> "idle"]
    /\ height' = [g \in Callers |-> 0]
    /\ ret' = [g \in Callers |-> "none"]
    /\ caps' = {} /\ lastOutcome' = 0 /\ appStaged' = 0
    /\ cServing' = IF cPc = "wait" THEN LostHandler ELSE cServing
    /\ UNCHANGED <<appCommitted, cGuardVars, cCaps, cPc, engineVars>>

(* Nothing recovers the panic of a handler. *)
ProcessPanics == (\E g \in Callers : ret[g] = "panic") /\ Die /\ UNCHANGED faults

ProcessCrashes == Fault /\ Die

ProcessRestarts ==
    /\ ~up
    /\ up' = TRUE
    /\ UNCHANGED <<vars, clientVars, engineVars, response, session, faults>>

-----------------------------------------------------------------------------

LinkNext ==
    \/ ClientHandshake \/ ClientAcquire \/ ClientStore
    \/ ClientReply \/ ClientDeadline \/ ClientUnavailable
    \/ EngineRedials \/ EngineRestarts
    \/ \E g \in Callers : Deliver(g) \/ DeliverConcurrent(g) \/ DeliverOptional(g)
                         \/ HandlerStep(g)
    \/ ProcessPanics \/ ProcessCrashes \/ ProcessRestarts

allVars == <<vars, linkVars>>

LinkSpec == LinkInit /\ [][LinkNext]_allVars

(* The steps that are not faults. *)
ClientProgress ==
    \/ ClientHandshake \/ ClientAcquire \/ ClientStore
    \/ ClientReply \/ ClientUnavailable \/ EngineRedials

(* Both processes run, a request and a reply arrive unless a fault ends the  *)
(* call, a panic ends the process and a supervisor restarts it.              *)
LinkFairSpec ==
    /\ LinkSpec
    /\ WF_allVars(ClientProgress)
    /\ WF_allVars(\E g \in Callers : Deliver(g))
    /\ \A g \in Callers : WF_allVars(HandlerStep(g))
    /\ WF_allVars(ProcessPanics)
    /\ WF_allVars(ProcessRestarts)

-----------------------------------------------------------------------------
(* Properties. *)

LinkTypeOK ==
    /\ TypeOK
    /\ CG!GuardTypeOK
    /\ cCaps \in SUBSET Capabilities
    /\ cPc \in {"idle", "store", "invoke", "wait"}
    /\ cServing \in Callers \cup {NoHandler, LostHandler}
    /\ ePhase \in {"Handshake", "ExecuteBlock", "Commit", "Halted"}
    /\ eNext \in 0..MaxHeight + 1
    /\ eBroken \in BOOLEAN /\ up \in BOOLEAN /\ session \in BOOLEAN
    /\ response \in [caps : SUBSET Capabilities, height : Heights \cup {0}, alone : BOOLEAN]
    /\ faults \in 0..MaxFaults

(* Whatever is lost, late or retried, and although a stale handler may       *)
(* execute a block again, the application commits every height in order and  *)
(* none twice: each Commit that it answers without error persists the height *)
(* after the last one.  As long as no request of an earlier connection is at *)
(* large (client.go and server.go, the guards on both sides of the link).    *)
CommitsInOrder ==
    [][session =>
        /\ appCommitted' \in {appCommitted, appCommitted + 1}
        /\ \A g \in Callers :
            At(g, "Commit", "app") /\ pc'[g] = "outcome" /\ ret'[g] = "ok" =>
                appCommitted' = appCommitted + 1]_allVars

(* What the engine takes for committed during a session is what the          *)
(* application persisted: all heights before the next one, and no more.      *)
AcknowledgedIsDurable ==
    session /\ ePhase = "ExecuteBlock" /\ ~eBroken => appCommitted = eNext - 1

(* While the client's guard says Executed, the server's does too, unless the *)
(* process died since, and it holds the block the engine is about to commit. *)
GuardsAgreeOnExecuted ==
    session /\ cState = "Executed" => state = "Executed" /\ lastOutcome = eNext

(* During a session the server knows the handshake that the client knows, so *)
(* a concurrent call that passes the client's guard passes the server's.     *)
SessionAgrees == session /\ cDone => handshakeDone /\ cCaps = caps

(* The client's guard refuses no call of a lawful engine, after errors of    *)
(* the remote calls included.                                                *)
ClientGuardAdmits ==
    cPc = "idle" /\ ~eBroken =>
        /\ ePhase = "Handshake" => cState = "Init"
        /\ ePhase = "ExecuteBlock" => cState = "Ready"
        /\ ePhase = "Commit" => cState = "Executed"

(* Neither the client's guard nor the server's stands before the optional    *)
(* methods: during a session they still reach the application only after its *)
(* Handshake and only for what it declared.  A process that died and came    *)
(* back is outside the session: the wrappers of its old client then reach it *)
(* before any Handshake.                                                     *)
WrappersKeepToCaps ==
    session => \A g \in Callers :
        pc[g] = "app" /\ InterfaceOf(op[g]) # "Lifecycle" =>
            handshakeDone /\ InterfaceOf(op[g]) \in caps

(* Once deadlines, crashes and errors cease, the engine gets every block     *)
(* committed: retries and restarts do not go round in circles.  Only a halt  *)
(* of the application excuses it, after which nothing must be committed      *)
(* (errors.go).                                                              *)
EveryBlockCommits ==
    <>(appCommitted = MaxHeight \/ \E g \in Callers : ret[g] = "halt")

-----------------------------------------------------------------------------
(* What the documentation says and the code does not do. *)

(* bapi.go: ExecuteBlock(h) is called exactly once per committed height. *)
NoReexecution == \A g \in Callers : At(g, "ExecuteBlock", "app") => height[g] > appCommitted

(* errors.go: after a HaltError from ExecuteBlock the engine does not        *)
(* proceed to Commit.  For an instance in which the halt is the only fault.  *)
NoCommitAfterHalt ==
    (\E g \in Callers : ret[g] = "halt") => \A g \in Callers : op[g] # "Commit"

=============================================================================
