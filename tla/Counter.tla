------------------------------ MODULE Counter -------------------------------
(***************************************************************************)
(* example/counter/app.go, in the process of an engine that keeps its      *)
(* blocks and crashes.  The application counts in memory: a crash of the   *)
(* process loses the count, a restart of the engine alone, which opens a   *)
(* new connection to the same App, does not.  In both cases Handshake has  *)
(* to tell the engine where to take up.                                    *)
(*                                                                         *)
(* The calls of the lifecycle come one at a time, as Server has them;      *)
(* Query comes at any time between Handshake and the end of a connection.  *)
(* A step is what the code does under app.mu, or between two such parts.   *)
(* A transaction is its increment, or Short if it has not eight bytes;     *)
(* events and the data of outcomes are left out.                           *)
(*                                                                         *)
(* The engine is external: it has a durable store of finalised blocks and  *)
(* of the AppHash of each block it saw committed, executes from the height *)
(* after the one that the application reports, and takes a block that the  *)
(* application is ahead by for committed.                                  *)
(***************************************************************************)
EXTENDS Integers, SequencesExt

CONSTANTS
    Width,          \* bits of the count, 64 in the code
    Blocks,         \* sequences of transactions that may be finalised
    MaxHeight,      \* the engine stops after this height
    MaxFaults,      \* bound on restarts and crashes
    Readers,        \* goroutines that send Query
    Short,          \* a transaction that is not eight bytes long
    Nil             \* a nil pointer

ASSUME CounterAssumption ==
    /\ Width \in Nat /\ 2^Width \in Nat \ {0}
    /\ MaxHeight \in Nat /\ MaxFaults \in Nat
    /\ Short \notin Nat /\ Nil \notin Nat
    /\ Blocks \subseteq Seq(Nat \cup {Short})

VARIABLES
    count, appHash, height, \* App: the committed state
    staged,                 \* App.staged
    newCount,               \* local of ExecuteBlock
    pc,                     \* engine: "down", "ready", "execute", "executed", "committed"
    chain,                  \* engine, durable: the finalised blocks
    hashes,                 \* engine, durable: AppHash by height of the blocks it saw committed
    next,                   \* engine: height at hand
    outcome,                \* engine: AppHash of the outcome it holds
    resp,                   \* engine: the HandshakeResponse it holds
    reads,                  \* by reader: its Query
    forgot,                 \* a genesis Handshake was answered over committed state
    faults

appVars == <<count, appHash, height, staged>>
engineVars == <<pc, chain, hashes, next, outcome, resp>>
vars == <<appVars, newCount, engineVars, reads, forgot, faults>>

(* SHA-256, taken for free of collisions. *)
computeHash(c) == <<c>>

NewApp == [count |-> 0, appHash |-> computeHash(0), height |-> 0]
NothingStaged == [count |-> 0, appHash |-> Nil, height |-> 0]
NoRead == [at |-> "idle", since |-> 0, value |-> 0, height |-> 0]

CounterInit ==
    /\ count = NewApp.count /\ appHash = NewApp.appHash /\ height = NewApp.height
    /\ staged = NothingStaged
    /\ newCount = 0
    /\ pc = "down"
    /\ chain = <<>> /\ hashes = <<>>
    /\ next = 0 /\ outcome = Nil /\ resp = Nil
    /\ reads = [r \in Readers |-> NoRead]
    /\ forgot = FALSE
    /\ faults = 0

-----------------------------------------------------------------------------
(* Transactions. *)

validateTx(tx) == tx # Short

CheckTx(tx) == IF validateTx(tx) THEN 0 ELSE 1

(* A mutated form: the count is kept in a wider integer. *)
ExecuteTxWide(c, tx) == IF validateTx(tx) THEN c + tx ELSE c

ExecuteTx(c, tx) == IF validateTx(tx) THEN (c + tx) % 2^Width ELSE c

ExecuteTxs(c, txs) == FoldLeft(ExecuteTx, c, txs)

-----------------------------------------------------------------------------
(* Handshake. *)

(* A mutated form: the staging area is reported. *)
ReportStaged ==
    IF hashes = <<>> THEN [lastBlock |-> Nil, appHash |-> computeHash(0), at |-> height]
    ELSE [lastBlock |-> staged.height, appHash |-> Nil, at |-> height]

(* At genesis a fixed answer, whatever the state.  On restart the AppHash is *)
(* a pointer into the App, Nil here: see ReportedHash.  The field "at" notes *)
(* the height of the App for the properties.                                 *)
HandshakeResponse ==
    IF hashes = <<>> THEN [lastBlock |-> Nil, appHash |-> computeHash(0), at |-> height]
    ELSE [lastBlock |-> height, appHash |-> Nil, at |-> height]

(* What the engine finds behind the AppHash of the response it holds.  The   *)
(* engine of this model looks when it gets the response and not again, so    *)
(* that a later change under the pointer does not reach it.                  *)
ReportedHash == IF resp.appHash = Nil THEN appHash ELSE resp.appHash

(* A new connection and its Handshake; the engine follows the report. *)
Handshake ==
    /\ pc = "down"
    /\ UNCHANGED appVars
    /\ resp' = HandshakeResponse
    /\ LET reported == IF resp'.lastBlock = Nil THEN 0 ELSE resp'.lastBlock IN
        /\ next' = reported + 1
        /\ hashes' = IF reported > Len(hashes) THEN Append(hashes, ReportedHash') ELSE hashes
    /\ forgot' = (forgot \/ (hashes = <<>> /\ height > 0))
    /\ pc' = "ready"
    /\ UNCHANGED <<newCount, chain, outcome, reads, faults>>

-----------------------------------------------------------------------------
(* Blocks. *)

(* Consensus on the next block. *)
Finalize ==
    /\ pc = "ready" /\ next = Len(chain) + 1 /\ next <= MaxHeight
    /\ \E txs \in Blocks : chain' = Append(chain, txs)
    /\ UNCHANGED <<appVars, newCount, pc, hashes, next, outcome, resp, reads, forgot, faults>>

(* A mutated form: execution goes on from the staging area. *)
ExecuteReadStaged ==
    /\ pc = "ready" /\ next <= Len(chain)
    /\ newCount' = staged.count
    /\ pc' = "execute"
    /\ UNCHANGED <<appVars, chain, hashes, next, outcome, resp, reads, forgot, faults>>

(* ExecuteBlock up to RUnlock. *)
ExecuteRead ==
    /\ pc = "ready" /\ next <= Len(chain)
    /\ newCount' = count
    /\ pc' = "execute"
    /\ UNCHANGED <<appVars, chain, hashes, next, outcome, resp, reads, forgot, faults>>

(* The rest of ExecuteBlock: the transactions in order, then the staging area. *)
ExecuteStage ==
    /\ pc = "execute"
    /\ LET c == ExecuteTxs(newCount, chain[next]) IN
        /\ staged' = [count |-> c, appHash |-> computeHash(c), height |-> next]
        /\ outcome' = computeHash(c)
    /\ pc' = "executed"
    /\ newCount' = 0
    /\ UNCHANGED <<count, appHash, height, chain, hashes, next, resp, reads, forgot, faults>>

(* A mutated form: the hash is not copied. *)
CommitForgetsHash ==
    /\ pc = "executed"
    /\ count' = staged.count /\ height' = staged.height
    /\ pc' = "committed"
    /\ UNCHANGED <<appHash, staged, newCount, chain, hashes, next, outcome, resp, reads, forgot, faults>>

(* A mutated form: the height is not copied. *)
CommitForgetsHeight ==
    /\ pc = "executed"
    /\ count' = staged.count /\ appHash' = staged.appHash
    /\ pc' = "committed"
    /\ UNCHANGED <<height, staged, newCount, chain, hashes, next, outcome, resp, reads, forgot, faults>>

Commit ==
    /\ pc = "executed"
    /\ count' = staged.count /\ appHash' = staged.appHash /\ height' = staged.height
    /\ pc' = "committed"
    /\ UNCHANGED <<staged, newCount, chain, hashes, next, outcome, resp, reads, forgot, faults>>

(* The engine notes the block, unless it is a replay of one it has noted. *)
Record ==
    /\ pc = "committed"
    /\ hashes' = IF next > Len(hashes) THEN Append(hashes, outcome) ELSE hashes
    /\ next' = next + 1
    /\ pc' = "ready"
    /\ UNCHANGED <<appVars, newCount, chain, outcome, resp, reads, forgot, faults>>

-----------------------------------------------------------------------------
(* Readers. *)

QueryEnter(r) ==
    /\ pc # "down"
    /\ reads[r].at # "app"
    /\ reads' = [reads EXCEPT ![r] = [NoRead EXCEPT !.at = "app", !.since = height]]
    /\ UNCHANGED <<appVars, newCount, engineVars, forgot, faults>>

(* A mutated form: the staged count is answered. *)
QueryStaged(r) ==
    /\ reads[r].at = "app"
    /\ reads' = [reads EXCEPT ![r].at = "done", ![r].value = staged.count, ![r].height = height]
    /\ UNCHANGED <<appVars, newCount, engineVars, forgot, faults>>

(* Count and height under one read lock; Count reads the first of them so. *)
Query(r) ==
    /\ reads[r].at = "app"
    /\ reads' = [reads EXCEPT ![r].at = "done", ![r].value = count, ![r].height = height]
    /\ UNCHANGED <<appVars, newCount, engineVars, forgot, faults>>

-----------------------------------------------------------------------------
(* Faults. *)

EngineStops ==
    /\ faults < MaxFaults /\ faults' = faults + 1
    /\ pc' = "down" /\ next' = 0 /\ outcome' = Nil /\ resp' = Nil
    /\ reads' = [r \in Readers |-> NoRead]
    /\ newCount' = 0
    /\ UNCHANGED <<chain, hashes, forgot>>

(* The engine is restarted between two calls; the App stays. *)
EngineRestarts ==
    /\ pc \in {"ready", "executed", "committed"}
    /\ EngineStops
    /\ UNCHANGED appVars

(* The process dies, and the App with it. *)
ProcessCrashes ==
    /\ pc # "down"
    /\ EngineStops
    /\ count' = NewApp.count /\ appHash' = NewApp.appHash /\ height' = NewApp.height
    /\ staged' = NothingStaged

EngineStep ==
    Handshake \/ Finalize \/ ExecuteRead \/ ExecuteStage \/ Commit \/ Record

CounterNext ==
    \/ EngineStep
    \/ \E r \in Readers : QueryEnter(r) \/ Query(r)
    \/ EngineRestarts \/ ProcessCrashes

CounterSpec == CounterInit /\ [][CounterNext]_vars

(* The engine goes on, and a supervisor restarts it. *)
CounterFairSpec == CounterSpec /\ WF_vars(EngineStep)

-----------------------------------------------------------------------------
(* Properties. *)

Counts == 0..2^Width - 1

CounterTypeOK ==
    /\ count \in Counts /\ newCount \in Counts /\ staged.count \in Counts
    /\ height \in 0..MaxHeight /\ staged.height \in 0..MaxHeight
    /\ appHash \in {computeHash(c) : c \in Counts}
    /\ pc \in {"down", "ready", "execute", "executed", "committed"}
    /\ Len(hashes) <= Len(chain) /\ Len(chain) <= MaxHeight
    /\ next \in 0..MaxHeight + 1
    /\ forgot \in BOOLEAN /\ faults \in 0..MaxFaults

(* The increments that the mempool would have let in, of the first n blocks. *)
AddAdmitted(sum, tx) == IF CheckTx(tx) = 0 THEN sum + tx ELSE sum
AddBlock(sum, txs) == FoldLeft(AddAdmitted, sum, txs)
ChainCount(n) == FoldLeft(AddBlock, 0, SubSeq(chain, 1, n)) % 2^Width

(* The committed count is the sum of the chain up to the committed height:   *)
(* every block counts once, over restarts that leave a staged block behind,  *)
(* crashes that lose the count, and replays, as long as no genesis Handshake *)
(* passed over committed state (ExecuteBlock, Commit, Handshake).            *)
CommittedIsChain == ~forgot => count = ChainCount(height)

(* The AppHash that the engine has for a height is that of the chain, also   *)
(* where it took the hash from the Handshake after a restart between the     *)
(* application's Commit and its own note of it.                              *)
RecordedIsChain ==
    ~forgot => \A h \in 1..Len(hashes) : hashes[h] = computeHash(ChainCount(h))

(* A block replayed after a crash has the AppHash it had the first time. *)
ReplayAgrees ==
    ~forgot /\ pc \in {"executed", "committed"} /\ next <= Len(hashes) =>
        outcome = hashes[next]

(* A Query, at any point of ExecuteBlock and Commit, answers with the count  *)
(* of the chain at the height it gives, which is not older than the call.    *)
QueryReadsCommitted ==
    ~forgot => \A r \in Readers : reads[r].at = "done" =>
        reads[r].value = ChainCount(reads[r].height) /\ reads[r].height >= reads[r].since

(* Once restarts and crashes cease, the application catches up with the      *)
(* engine and both reach the end of the chain.                               *)
CatchesUp == <>(height = MaxHeight /\ Len(hashes) = MaxHeight)

-----------------------------------------------------------------------------
(* What the documentation says and the code does not do. *)

(* types/handshake.go: LastBlock is nil if the application has no state. *)
NilMeansNoState == resp # Nil /\ resp.lastBlock = Nil => resp.at = 0

=============================================================================
