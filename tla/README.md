# Verification of bapi in TLA+

`bapi` is the interface between a consensus engine and an application: a set of
Go interfaces (`bapi.go`), a server that enforces their call order on behalf of
the application (`server/`), an in-process transport (`local/`), a gRPC
transport (`grpc/`), and two example applications (`example/`). This directory
holds TLA+ models of these parts, the TLC configurations that check them on
small instances, and TLAPS proofs for every instance.

## The system

| Part | State | Operations | What is hard |
|---|---|---|---|
| Lifecycle guard, `server/state_machine.go` | an atomic state (Init, Ready, Executing, Executed, Committing), the mutex `seqMu`, the flag `handshakeDone` | acquire, complete and fail for Handshake, ExecuteBlock, Commit; the check of concurrent calls | the handshake works on the atomic state outside the mutex; acquiring is a load and a store; panics on misuse |
| Server, `server/server.go` | the guard, `caps`, `lastOutcome` | every method of every interface | goroutines of the engine call concurrently; the application fails or panics anywhere; `caps` is read unsynchronised |
| Call order, `bapi.go` | none | the promise to applications: one Handshake, then ExecuteBlock and Commit in turn | it has to follow from the guard, whatever the engine's goroutines do |
| Local connection, `local/local.go` | none | forwards to the server; hands out the application itself through its As methods | calls through what AsSimulator and the like return pass neither server nor guard |
| gRPC client and server | a second guard and `caps` in the client | unary calls and wrappers, export and import streams, the service table | deadlines with a handler that runs on, retries, crashes of either process, a guard that is stale after a restart, errors that lose their type |
| State sync, `grpc/` and `example/dex` | streams, two unbuffered channels, the collected chunks | list, export, import | errors that look like the end of a stream, early verdicts, handlers of attempts given up |
| Exchange, `example/dex` | `current`, `staged`: balances, orders, prices | Handshake, CheckTx, execution, queries, proposals, vote extensions, simulation, snapshots | nested maps with absent entries, fixed-width amounts, keys that JSON does not keep, what one validator builds another verifies, a snapshot imported under a block |
| Counter, `example/counter` | count, hash and height, staged and committed | Handshake, CheckTx, ExecuteBlock, Commit, Query | wrap-around, restarts that leave a staged block, crashes that lose the count, replay |
| Halt errors, `errors.go` | none | make and recognise a `HaltError` | it has to reach the engine, over gRPC too |
| Codec, wire types, data types, testing utilities | none | conversions, drivers | not modelled, see below |

The engine calls a transport; `local` hands the call to `Server` in the same
process, `grpc.Client` sends it to a `GRPCServer`, whose handler goroutine calls
`Server`. `Server` asks its guard and calls the application. Snapshots pass from
one application to another through the engine.

What makes the parts correct: ExecuteBlock and Commit never overlap and Commit
persists exactly the block whose outcome was returned; the application sees the
documented call order; no call is lost waiting; over gRPC, what the engine takes
for committed is durable and heights are committed in order; an installed
snapshot is a whole committed state; the exchange neither creates nor loses
funds, while amounts and denominations are such that the code can keep them, and
its proposals are accepted by its peers; the counter counts every block once,
however often the engine or the process starts again.

## Modules

| Module | Models | Extends or instantiates |
|---|---|---|
| `LifecycleGuard` | `server/state_machine.go`, one operator per atomic step | |
| `LifecycleContract` | the call order of `bapi.go`, abstract | |
| `Server` | `server/server.go`, `local/local.go` | extends `LifecycleGuard`, instantiates `LifecycleContract` |
| `ServerProofs` | invariants of `Server`, proved | extends `Server` |
| `ServerRefinementProofs` | refinement of the contract, proved | extends `ServerProofs` |
| `GrpcLink` | `grpc/client.go`, `grpc/server.go`, `grpc/service.go` for unary calls, `errors.go` | extends `Server`, instantiates `LifecycleGuard` for the client |
| `SnapshotSync` | the streams of `grpc/` and the snapshots of `example/dex` | |
| `Dex` | `example/dex/app.go`; the way of a snapshot's chunks is in `SnapshotSync` | |
| `Counter` | `example/counter/app.go` under an engine with durable blocks | |
| `GrpcLinkProofs` | invariants of `GrpcLink`, proved | extends `GrpcLink`, `ServerProofs` |
| `SnapshotSyncProofs` | invariants of `SnapshotSync`, proved | extends `SnapshotSync` |
| `FoldTheorems` | what `FoldLeft` computes, for any operation, proved | |
| `CounterProofs` | invariants of `Counter`, proved | extends `Counter`, instantiates `FoldTheorems` |
| `DexProposalProofs` | maps, prices and proposals of `Dex`: lemmas, proved | extends `Dex`, instantiates `FoldTheorems` |
| `DexProofs` | invariants of `Dex`, proved | extends `DexProposalProofs`, instantiates `FoldTheorems` |
| `MCServer`, `MCGrpcLink`, `MCDex`, `MCCounter` | values for the constants | |

**LifecycleGuard and Server.** `state`, `seqMu`, `handshakeDone`, `caps`,
`lastOutcome` are the fields of the same names; an outcome is the height it is
for, 0 is nil. Each goroutine of the engine (`Callers`) has a method (`op`), a
place in it (`pc`), an argument and a result. A method is one action per step at
which others can interfere: taking `seqMu` together with the load of the state,
the store, the application's answer, the write of `lastOutcome`, the store
together with the unlock. FailHandshake can hit between the load and the store,
so these stay apart. A panic of the guard or of the application ends the call
and leaves the guard as the code leaves it; the engine is taken to recover it
(in-process) or the process dies (`GrpcLink`). The unsynchronised read of `caps`
is a choice between the values a reader can see. The As methods of the local
connection return the application itself: a call through one (`DirectEnter`,
place `direct`) needs the capability in `caps` when the interface is asked for
and meets no guard, so it can arrive between the write of `caps` and the end of
the Handshake (`server.go:65-66`). An error of ExecuteBlock is an ordinary one
or a `HaltError` (`ExecuteErrors`), which the server passes on. The application
is external: it answers or fails, keeps the height it staged and the height it
committed, may or may not have staged a block it failed on, and may or may not
clear its staging area. `HandshakeFirst` chooses between any engine and one that
awaits its Handshake; `AppMayPanic` lets application methods panic.

**GrpcLink.** The client's guard is an instance of `LifecycleGuard`. A call of
the client is guard, request, reply or error, guard (`ClientHandshake` ...
`Finish`); a request that arrives occupies a handler, a caller of `Server`. A
deadline ends the call before or after the request arrives and the handler runs
on. Either process can crash; a handler's panic kills the application's process,
as nothing in `grpc/server.go` recovers it, and a supervisor restarts it. The
engine is the documented one: Handshake, ExecuteBlock and Commit in turn from
the height that the application reports, retry after a failed ExecuteBlock, a
new connection after a failed Commit or a lost one; a `HaltError` stops it for
good (`IsHalt`). What was committed survives. `Dispatch` is the service table:
which method of `Server` the handler of a request calls. `response` is what the
application's Handshake answered: the capabilities, the height, and, for the
properties, whether no other request was in a handler at that moment. `Status`
is what gRPC makes of a handler's error: the message without the type. Other
goroutines of the engine send CheckTx and Query (`DeliverConcurrent`) and call
the wrappers of `AsSimulator` and the like (`DeliverOptional`), which the client
hands out by its `caps` (`ClientAs`) and does not guard.

**SnapshotSync.** Both streams, the goroutine that reads the export stream
(`held` is the chunk it offers on `ch`), the goroutine that reads the import
stream (`offered`), and the importer's loop (`received`). A stream that breaks
loses a suffix. The relay of chunks between nodes is the engine's and may lose,
double or damage a chunk. Several handlers exist so that one can outlive its
attempt. A refused export ends the stream, which over gRPC the caller sees as a
channel that closes at once.

**Dex.** Balances are functions with partial domains, as the nested maps of the
code, assigned with `Put`; writing into an absent account is the panic that Go
raises. Blocks, proposals and price feeds are folds (`FoldLeft`) with one
operator per element, as the loops of the code; `pairPrices` is the map that
BuildProposal collects reports in and `Sorted` the `sort.Slice` before the
median. Amounts are taken modulo `2^Width`. A transaction has its length in
bytes, and CheckTx and each `execute...` compare it with limits of their own (30,
38 and 2), as the code does at five places. A denomination is any bytes, since
nothing checks it; `utf8` is what `encoding/json` makes of it. `Marshal` is the
text of a state: keys that become equal stand in it twice, in `Unmarshal` the
last one wins, and `appHash` is that text; the order of its keys is left out, as
it is the same unless a key was replaced. `clone` makes the nil slice of orders
an empty one, which the text shows; how deep the copy is cannot be expressed,
as values share nothing. A round is a proposal (built or received), its verdict,
ExecuteBlock on a copy, Commit. `ImportSnapshot` may come at any point of it, as
neither the guard nor the application orders it; the state it brings is that of
a chain of blocks (`AfterChain`), through its text. `Handshake` has both
branches: genesis, which answers without LastBlock whatever the state, and
restart. Variables that are not the App's: `known` is the hash the engine holds,
`books` the amounts of transactions whose outcomes reported success along the
chain of the current state.

**Counter.** `count`, `appHash`, `height`, `staged` are the fields of the App.
ExecuteBlock is two steps, as it reads the count under the lock and stages
outside it. The engine is external: it finalises blocks into a durable `chain`,
notes the AppHash of a block after the application's Commit returned (`Record`,
a step of its own, so that a stop can fall between), asks Handshake for genesis
as long as it has noted nothing, goes on after the height that the application
reports, and takes over the reported hash of a block it had not noted.
`EngineRestarts` keeps the App and its staging area, `ProcessCrashes` begins
with `NewApp`. The AppHash of a restart response is a pointer into the App:
`ReportedHash` reads through it when the Handshake returns, and what the engine
notes then is checked by `RecordedIsChain`; an engine that reads through it
later, after another Commit, is not covered. `forgot` notes that a genesis
request met committed state, after which nothing is promised (run
`counter_genesis`).

## Runs

| Run | Result | What it shows |
|---|---|---|
| `server_free` | holds | three goroutines, any call at any time, past the server too, failures and panics: `SeqExclusion`, `CommitPersistsReturnedOutcome`, `HandshakeOnce`, `DispatchAfterHandshake`, `CapsSettled`, `PanicIsFinal` |
| `server_contract` | holds | with an engine that awaits Handshake: `ImplementsContract` (refinement), `DocumentedEdges`, `OutcomeWindow`, and under fairness `EveryCallReturns` |
| `grpc_link` | holds | three blocks and four faults: `CommitsInOrder`, `AcknowledgedIsDurable`, `GuardsAgreeOnExecuted`, `SessionAgrees`, `ClientGuardAdmits`, `WrappersKeepToCaps` |
| `grpc_live` | holds | two blocks and two faults: `EveryBlockCommits`, unless the application halted |
| `snapshot_sync` | holds | two faults, two heights, two handlers: `InstalledIsCommitted`, `AckedIsInstalled`, `ExportInOrder`, `SyncCompletes`, `AttemptEnds` |
| `dex` | holds | three blocks of up to two transactions and a snapshot imported anywhere: `FundsConserved`, `HandshakeAgrees`, `GateAgrees`, `NoNilWrite`, `OwnProposalAccepted`, `MedianOfReports`, `OwnExtensionAccepted` |
| `counter` | holds | three blocks and three restarts or crashes: `CommittedIsChain`, `RecordedIsChain`, `ReplayAgrees`, `QueryReadsCommitted`, and under fairness `CatchesUp` |
| `execute_during_handshake` | violated | ExecuteBlock enters the application while Handshake runs in it: Ready is stored when Handshake starts (`state_machine.go:78`) |
| `grpc_halt_lost` | violated | a `HaltError` of ExecuteBlock arrives as an ordinary error, the engine retries and Commit follows (`grpc/server.go:76`) |
| `grpc_reexecution` | violated | the late handler of a timed-out ExecuteBlock executes a height that its retry has committed |
| `counter_genesis` | violated | after a stop between the first Commit and the engine's note of it, the counter answers that it has no state, and height 1 is executed on top of the count (`counter/app.go:45`) |
| `dex_oracle_position` | violated | VerifyProposal accepts an oracle update behind another transaction if there are vote extensions |

Each `.cfg` is run with the module of its row in `PROJECT.json`, for example
`tlc -config server_free.cfg MCServer`.

**Bounds.** Three goroutines in `server_free` let a handshake, a holder of
`seqMu` and a waiter meet; the proofs remove the bound. Two heights tell a
staged block from a committed one. In `grpc_link` three lifecycle handlers let
the current request overlap two earlier ones, `MaxFaults = 4` lets a call time
out, its retry fail, and both processes die, and `MaxHeight = 3` lets a stale
request span a whole block. In `snapshot_sync` two chunks give first, last,
missing and doubled, two heights let the exporter move on, two handlers let one
outlive its attempt. In `dex` `Width = 3` with deposits of up to 7 reaches the
wrap-around, and six transactions over three blocks reach deposit, lock, deposit
and deletion; up to three extensions give medians of one to four reports. Of the
five denominations two are no UTF-8 and one is what JSON replaces them with; some
take one byte, so that transactions of exactly the least length, and truncated
ones a byte below it, meet every length check. With 100 bytes per block and 50 per
price an oracle update of two pairs does not fit and one of a single pair leaves
little room. Three snapshots of two blocks, ahead of the first rounds, are
imported between any two steps: one with an order and a price, one in which two
keys become one, one with funds that wrapped and a key that is renamed.
In `counter` `Width = 2` wraps within a block, three heights let a replay
cover noted and unnoted blocks, and three faults let an engine restart be
followed by a crash during the replay and another restart. Deadlock
checking is off where the system may stop: after a panic that leaves `seqMu`
locked, and when the engine has reached its last height.

**Fairness.** `FairSpec`: weak fairness for the steps of a goroutine, since the
Go scheduler runs it and application methods are taken to return; strong
fairness for acquiring `seqMu`, since `sync.Mutex` hands the lock to a waiter
that starves. Starting a call is not fair: the engine need not call.
`EveryCallReturns` excuses waiters only where the application's panic has left
the guard within a block; under an error path that kept the mutex it fails.
`EveryBlockCommits` excuses only a run in which the application answered with a
`HaltError`, after which `errors.go` wants no Commit (that one can follow is
`grpc_halt_lost`). In `LinkFairSpec` a request and a reply arrive unless a fault
ends the call, a panic ends the process and the supervisor restarts it; faults
themselves are not fair and are bounded. `grpc_live` has no Query: a Query that
passes the client's stale guard kills the restarted process, and can do so for
ever. `CounterFairSpec` has the engine's steps and its restart by a supervisor
fair, stops and crashes not. In `SyncFairSpec` goroutines run and messages on an
unbroken stream arrive; commits of the exporter are bounded, because an exporter
that keeps only its current state can outrun the engine for ever.

## Sessions and stale requests

`CommitsInOrder` and its companions in `GrpcLink` hold during a *session*: the
application's process has not died since the client's Handshake, and no other
request was in a handler when the application answered it. The second condition is
needed. A Commit request carries no height, so a Commit of an earlier connection
that still waits for `seqMu` commits whatever block the new connection has
executed; with a late ExecuteBlock as well, heights can be committed out of
order. Likewise `AckedIsInstalled` in `SnapshotSync` assumes that no handler of
an earlier attempt was at work when the import began (`clean`): the handler of a
broken stream that has all its chunks installs them, also after a later import
was acknowledged.

`WrappersKeepToCaps` is about such a session too. Outside of one the optional
methods reach an application that has had no Handshake: the comment on
`stateInit` says that no call but Handshake is allowed, but these methods
(`server.go:124-180`) test neither the guard nor the declared capabilities, and
a wrapper made before the process restarted goes on working.

The comment on `Server` (`server.go:12-14`) says that the engine interacts with
the application exclusively through it. The interfaces that its As methods
return are the application's own, so a local engine calls Simulate and the
mempool callbacks past `CheckConcurrent`. `DispatchAfterHandshake` says what is
left: no such call before the application has answered its Handshake, and none
of an interface it has not declared; that the guard knows of the Handshake is
not promised.

More differences between the text and the code that have no run:
- After a deadline the client's guard allows the retry of ExecuteBlock
  (`FailExecute`: "allowing retry"), which meets the first request's Executing
  or Executed at the server and panics there; `EveryBlockCommits` shows that the
  restart that follows leads on.
- The goroutine of the client's ExportSnapshot takes every error for the end of
  the stream, so the channel may close before the last chunk (`bapi.go`: "closed
  after the last chunk"). `InstalledIsCommitted` shows that no such prefix is
  installed.
- The dex has the same genesis answer as the counter (`dex/app.go:126-133`): its
  LastBlock is nil over committed state (`types/handshake.go:14`: nil if there is
  no state), its hash however is the current one.
- A denomination of the dex that is no UTF-8 is renamed by a snapshot, and two of
  them can become one, with the funds of the last (`dex/app.go:428,507`). The
  hash of the parsed state differs from the chain's if keys became one or, as
  they are written in the order of their bytes, changed places; a key that was
  only renamed goes unnoticed. `HandshakeAgrees` leaves all of these out.
- A Commit of the dex that follows an ImportSnapshot undoes it: the staged copy is
  of the state before (`dex/app.go:198`).
- `LifecycleContract` leaves out "exactly once per committed height" of
  `bapi.go:21`: neither the server nor its guard looks at heights, so that this is
  the engine's part, and over gRPC it fails (`grpc_reexecution`).
- `ARCHITECTURE.md:37` allows Query in ready only; the code, like `bapi.go`,
  allows it at any time after Handshake, which is what the models have.

## Proofs

Every invariant and every action property that a passing run checks is also a
theorem, for all values of the constants that the module's assumption allows.
None of the properties is inductive; each section names the invariant that is,
what it adds, and why that is needed. In every proof module there is one lemma
per conjunct of the invariant, with one step per action, a lemma that joins
them, and one temporal step (`...Invariance`); the theorems follow from it.

| Module | Assumption | Invariant | Theorems |
|---|---|---|---|
| `ServerProofs` | `ServerAssumption` | `Inv` | `TypeCorrect`, `Exclusion`, `CommitPersists`, `OneHandshake`, `GatedDispatch`, `CapsAreSettled`, `PanicFinal` |
| `ServerRefinementProofs` | also `HandshakeFirst` | `StrictInv` | `Refinement`, `OutcomeHeld`, `EdgesDocumented` |
| `GrpcLinkProofs` | also `LinkAssumption` | `LinkInv` | `LinkTypeCorrect`, `RemoteServerSafe`, `GuardAdmits`, `Agreed`, `GuardsAgree`, `Durable`, `WrappersGated`, `InOrder` |
| `SnapshotSyncProofs` | `SyncAssumption` | `SyncInv` | `SyncTypeCorrect`, `InstalledWhole`, `AckedInstalled`, `ExportOrdered` |
| `CounterProofs` | `CounterAssumption` | `CounterInv` | `CounterTypeCorrect`, `CommittedCorrect`, `RecordedCorrect`, `ReplayCorrect`, `QueryCorrect` |
| `DexProofs` | `DexAssumption` | `DexInv` | `DexTypeCorrect`, `FundsAreConserved`, `GateCorrect`, `HandshakeCorrect`, `NeverPanics`, `OwnProposal`, `OwnExtension`, `MedianCorrect` |
| `FoldTheorems` | none | | `FoldTrace`, `FoldIsTrace`, `FoldEmpty`, `FoldAppend`, `FoldWithin` |

The assumptions give the constants their types and keep the model values that
mark an absence (`NoHandler`, `LostHandler`, `Short`, `Nil`, `Malformed`) apart
from what they could be taken for. `LinkAssumption` adds that the heights are
those up to `MaxHeight` and that the server meets any engine. `2^Width` is
assumed to be a positive number because the provers know no exponentiation.
In `Dex`, denominations are finitely many, `utf8` changes nothing in what it
has made, and `MaxHeight` bounds every height, that of a synced chain included.
Inputs are otherwise free: any
mempool, proposal, vote extension, block and snapshot of the right type.

**Server.** `Inv` joins `TypeOK` with
- `CallShape`: which places each method can be in, and which arguments it has there;
- `LockInv`: at most one goroutine is past the acquisition of `seqMu`, and if one is, the mutex is locked;
- `HandshakeInv`: at most one handshake at a time, and none once `handshakeDone`;
- `CapsInv`: before a handshake has written them, capabilities are empty; afterwards they are implemented ones;
- `OutcomeInv`: in Executed, and on the way from a successful ExecuteBlock to Commit, the staged block is the one of `lastOutcome`.

`OutcomeInv` is the point: FailHandshake can store Init under a running block,
so the state alone says little, and what is kept is that Executed is only ever
entered with the block staged and is left for Executing only through Ready.

`ServerRefinementProofs` adds the assumption `HandshakeFirst`. Then no handshake
runs beside another call and the state determines where the holder of `seqMu`
is (`StrictInv`). `Refinement` shows that every step of `Server` is a step of
`LifecycleContract` or leaves it unchanged, under the mapping at the end of
`Server`: a call takes effect when the application answers it.

**GrpcLink.** The application's process moves as `Server` does, so `Inv` carries
over and `RemoteServerSafe` keeps the server's promises over the link, in every
session or none. `LinkInv` adds where the client's guard stands in each step of
a call (`ClientInv`, `EngineInv`), that the handler the client waits for runs
the engine's call (`HandlersInv`), that the response to a Handshake still
describes the application when it arrives, if the application was alone
(`ResponseInv`), and, for a session, that both sides know the same Handshake
(`KnownInv`), that at most one Commit exists, while the engine is in Commit and
for the block it executed last (`CommitInv`), that the application is where the
engine takes it to be (`ExecuteInv`), and that only declared wrappers are at
work (`WrapperInv`). `CommitInv` is what a Commit without a height needs: a
Commit whose reply is lost leaves the connection broken, and the next one is a
session only if that Commit had left its handler by the time of the Handshake.
The attempt to prove the invariant corrected the model: a response was first
read when it arrived, not when the application gave it, which hid requests that
began in between.

**SnapshotSync.** `SyncInv` follows a descriptor and the chunks through the
pipeline: the first message on a stream whose handler has read nothing is a
descriptor that the exporter gave out, so a collecting handler compares with the
hash of a committed state (`DescInv`); what is left of the export continues
where the engine stopped taking (`ExportInv`); on a clean attempt only the
engine's handler works, on the engine's descriptor, so that nobody installs
after its verdict (`AttemptInv`).

**Induction over data.** The applications fold over transactions and blocks. The
library's induction rules have a predicate as parameter, which the provers cannot
instantiate. `FoldTheorems` goes around them: a set of naturals that is not empty
has a least element (`LeastNat`, from `WFMin`), hence a set that holds 0 and with
i also i + 1 holds every number up to n (`UpTo`), and the induction hypothesis is
stated as membership of a set. So `FoldLeft`, whose definition chooses a
recursive function, is shown to go through the values one expects (`FoldTrace`,
`FoldIsTrace`). The operation is a constant of the module; the modules that fold
instantiate it once per operation.

**Counter.** `ExecuteTyped` and `OneBlock`: executing a block in `Width` bits is
adding up its admitted transactions and reducing once, so the count is that of
the chain (`CountOf`) however the blocks were cut. `CounterInv` joins types with
`PlaceInv` (the application is ahead of what the engine has noted by one block at
most, and executes the block after its own), `CountInv` (what both hold is of the
chain) and `ReadInv` (so is what a reader was told, no older than its call).
`PlaceInv` is why a replay neither skips a block nor executes one twice; all but
the types hold until a genesis Handshake met committed state (`forgot`).

**Dex.** `DexProposalProofs` has the facts that concern no history. A proposal
that BuildProposal made is good, fits, and begins with its oracle update
(`ProposalBuilt`, `ProposalFronted`). Inserting keeps a sequence ordered and
adds one to the number of equal values, so the value in the middle of the sorted
reports of a pair has at most half of them below and at most half above
(`MedianFacts`), and the collected feeds are in one-to-one correspondence with
the reports of the vote extensions (`CollectedFacts`, `OracleMedian`). Committed
prices come through a vote unchanged (`BuiltFromExtended`). `DexProofs` shows
what each transaction does to balances and orders: only a successful one changes
them, it succeeds only within the gate (`GateFits`), and a state that satisfied
`Conserved` with its books does so afterwards (`TxEffect`, `ConserveStep`),
hence blocks and whole chains (`BlockEffect`, `ChainEffect`). `Conserved` counts
how often a deposit wrapped, so that it is an equation and not one modulo
`2^Width`, and is about `Plain` denominations, those that JSON leaves alone and
makes of no other. For these a state parsed from its text has the balances and
the locked orders of the state that was written (`StateRoundTrip`, from
`MapRoundTrip` and `OrdersRoundTrip`), and the text of the parsed state is the
same text unless it has a key that may stand for other bytes (`Ambiguous`).
`DexInv` joins the current state with its books and with the hash the engine
has, or with an ambiguous text (`StateInv`), the shape of one's own proposal
(`RoundInv`), the outcomes of the last block (`OutcomeInv`) and the staged state
with books of its own (`StagedInv`). The last is needed because an import can
replace the current state under a staged block; what Commit then makes current
has to be conserved with respect to the chain it was executed on.

**Only model-checked.** `EveryCallReturns`, `EveryBlockCommits`, `SyncCompletes`,
`AttemptEnds` and `CatchesUp`: liveness under fairness and ENABLED are out of the
prover's reach. The five runs that expect a violation have a counterexample and
nothing to prove.

## Not modelled

Payloads, events, gas and the retain height: no state and no guard depends on
them. `codec.go` and `wire.go` hand records to a generic encoder, the same on
both sides, and decide nothing themselves. The MempoolObserver wrapper of the
client is a stub that fails without sending. The testing utilities call an
application in one fixed order each; those orders are behaviours of `Server`.
The data types have no operations.

## Plan

Every invariant and action property of the runs is proved. What could follow:

1. The refinement of `LifecycleContract` by the connection of one session in
   `GrpcLink`, seen from the application.
2. Safety counterparts of the liveness properties: where a call that does not
   return may stand (`EveryCallReturns`), which states an attempt can end in
   (`AttemptEnds`).
3. `SnapshotSync` and the import of `Dex` joined: the state that `ImportSnapshot`
   brings is one that `InstalledIsCommitted` describes.
