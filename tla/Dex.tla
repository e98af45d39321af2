-------------------------------- MODULE Dex ---------------------------------
(***************************************************************************)
(* example/dex/app.go: the exchange that ships with the library, as the    *)
(* engine drives it.  A round proposes a block, from vote extensions and   *)
(* the mempool or as another validator sent it, verifies the proposal,     *)
(* executes it on a copy of the state and commits the copy.                *)
(*                                                                         *)
(* Balances are maps of maps, absent entries included: writing to the map  *)
(* of an absent account is a panic.  Amounts are of Width bits.  A pair is *)
(* the tuple of its denominations, << >> the empty string.  A transaction  *)
(* is its decoded form with its length in bytes, and one that is too short *)
(* has fields that stand for nothing; "junk" stands for everything that is *)
(* empty or of an unknown type, Malformed for JSON that cannot be read.    *)
(*                                                                         *)
(* Denominations are bytes that nothing checks, and the JSON of a state is *)
(* text: bytes that are no UTF-8 are replaced in it, so that two           *)
(* denominations may become one key, twice there.  A hash stands for the   *)
(* text it is taken of.                                                    *)
(*                                                                         *)
(* The calls of a round are serialised by Server; ImportSnapshot comes at  *)
(* any time, as nothing orders it, and the way of the chunks is in         *)
(* SnapshotSync.  Events and the retain height are left out.               *)
(***************************************************************************)
EXTENDS Integers, SequencesExt

CONSTANTS
    Accounts, Denoms,
    utf8,           \* what encoding/json makes of the bytes of a denomination
    Width,          \* bits of an amount, 64 in the code
    MaxTxBytes,     \* ProposalContext.MaxTxBytes
    OracleEntrySize,\* bytes that one price takes in an oracle_update
    MaxHeight,      \* bound on the blocks executed
    Mempools,       \* sequences of transactions that BuildProposal may be given
    VoteSets,       \* sequences of vote extensions that it may be given with it
    ReceivedVoteSets, \* sequences of vote extensions that come with others' proposals
    Proposals,      \* sequences of transactions that others may propose
    SyncedChains,   \* sequences of blocks whose state a peer may offer as a snapshot
    MaxImports,     \* bound on the snapshots imported
    Malformed,      \* JSON that cannot be read
    NoState         \* nil

Amounts == 0..2^Width - 1

PriceEntries == [pair : Seq(STRING), price : Amounts]
Extensions == {Malformed} \cup Seq(PriceEntries)

Transactions ==
    [type : {"deposit", "withdraw"}, addr : Accounts, amount : Amounts, denom : Denoms, size : Nat]
    \cup [type : {"limit_order"}, addr : Accounts, amount : Amounts, price : Amounts,
          pair : Seq(Denoms) \ {<<>>}, size : Nat]
    \cup [type : {"oracle_update"}, prices : Extensions, size : Nat]
    \cup [type : {"junk"}, size : Nat]

ASSUME DexAssumption ==
    /\ IsFiniteSet(Denoms)
    /\ utf8 \in [Denoms -> Denoms] /\ \A d \in Denoms : utf8[utf8[d]] = utf8[d]
    /\ Width \in Nat /\ 2^Width \in Nat \ {0}
    /\ MaxTxBytes \in Nat /\ OracleEntrySize \in Nat /\ MaxHeight \in Nat /\ MaxImports \in Nat
    /\ Malformed \notin Seq(PriceEntries)
    /\ Mempools \subseteq Seq(Transactions) /\ Proposals \subseteq Seq(Transactions)
    /\ VoteSets \subseteq Seq(Extensions) /\ ReceivedVoteSets \subseteq Seq(Extensions)
    /\ SyncedChains \subseteq Seq(Seq(Transactions))
    /\ \A blocks \in SyncedChains : Len(blocks) <= MaxHeight

VARIABLES
    current,    \* App.current
    staged,     \* App.staged
    outcome,    \* the BlockOutcome of the staged block, with its transactions
    round,      \* the proposal at hand: its height, transactions, extensions, who made it
    books,      \* by account and denomination, what the outcomes of the chain that
                \* current is the state of reported as paid in and out
    known,      \* the AppHash that the engine has for the state of the application
    imports,    \* snapshots imported
    panicked    \* ExecuteBlock has panicked

vars == <<current, staged, outcome, round, books, known, imports, panicked>>

NoRound == [height |-> 0, txs |-> <<>>, exts |-> <<>>, by |-> "nobody"]
NoOutcome == [txs |-> <<>>, hash |-> NoState, books |-> NoState]
NoBooks == [a \in Accounts |-> [d \in Denoms |-> [paidIn |-> 0, paidOut |-> 0]]]

newState ==
    [height |-> 0, balances |-> <<>>, orders |-> <<>>, nilOrders |-> TRUE, prices |-> <<>>,
     nilWrite |-> FALSE]

(* A copy; its slice of orders is never nil, which JSON tells from empty.     *)
(* Values share nothing, so that the copy is as deep here as can be.         *)
clone(s) == [s EXCEPT !.nilOrders = FALSE]

(* The JSON of one account's map: the keys as text, each with the values of  *)
(* the denominations that it has become the name of, in their order.  The    *)
(* order of the keys is that of the bytes, which is lost only with them.     *)
MarshalMap(m) ==
    [u \in {utf8[d] : d \in DOMAIN m} |->
        LET ds == SetToSeq({d \in DOMAIN m : utf8[d] = u}) IN [i \in DOMAIN ds |-> m[ds[i]]]]

MarshalPair(pair) == [k \in DOMAIN pair |-> utf8[pair[k]]]

(* json.Marshal of a state; the pairs of prices come from JSON already. *)
Marshal(s) ==
    [height |-> s.height,
     balances |-> [a \in DOMAIN s.balances |-> MarshalMap(s.balances[a])],
     orders |-> [i \in DOMAIN s.orders |-> [s.orders[i] EXCEPT !.pair = MarshalPair(@)]],
     nilOrders |-> s.nilOrders,
     prices |-> s.prices]

(* json.Unmarshal: of the values of one key the last is kept. *)
UnmarshalMap(text) == [u \in DOMAIN text |-> Last(text[u])]

Unmarshal(text) ==
    [height |-> text.height,
     balances |-> [a \in DOMAIN text.balances |-> UnmarshalMap(text.balances[a])],
     orders |-> text.orders,
     nilOrders |-> text.nilOrders,
     prices |-> text.prices,
     nilWrite |-> FALSE]

appHash(s) == Marshal(s)

DexInit ==
    /\ current = newState
    /\ staged = NoState
    /\ outcome = NoOutcome
    /\ round = NoRound
    /\ books = NoBooks
    /\ known = appHash(newState)
    /\ imports = 0
    /\ panicked = FALSE

-----------------------------------------------------------------------------
(* Balances. *)

Balance(s, a, d) ==
    IF a \in DOMAIN s.balances /\ d \in DOMAIN s.balances[a] THEN s.balances[a][d] ELSE 0

(* An assignment to an entry of a map. *)
Put(f, k, v) == [x \in DOMAIN f \cup {k} |-> IF x = k THEN v ELSE f[x]]

SetBalance(s, a, d, v) ==
    IF a \in DOMAIN s.balances THEN [s EXCEPT !.balances = Put(@, a, Put(@[a], d, v))]
    ELSE [s EXCEPT !.nilWrite = TRUE]

MakeAccount(s, a) ==
    IF a \in DOMAIN s.balances THEN s ELSE [s EXCEPT !.balances = Put(@, a, <<>>)]

Without(f, k) == Restrict(f, DOMAIN f \ {k})

(* An entry of zero goes, and an account without entries goes too. *)
DropEmpty(s, a, d) ==
    IF a \notin DOMAIN s.balances \/ Balance(s, a, d) # 0 THEN s
    ELSE LET rest == Without(s.balances[a], d) IN
         [s EXCEPT !.balances = IF rest = <<>> THEN Without(@, a) ELSE Put(@, a, rest)]

-----------------------------------------------------------------------------
(* Transactions: the state after, and the code of the outcome. *)

Result(s, code) == [state |-> s, code |-> code]

(* A mutated form: one byte of denomination is not enough. *)
CheckTxOffByOne(tx) ==
    \/ tx.type \in {"deposit", "withdraw"} /\ ~(tx.size <= 30)
    \/ tx.type = "limit_order" /\ ~(tx.size < 38)

(* The gate of the mempool looks at type and length only. *)
CheckTx(tx) ==
    \/ tx.type \in {"deposit", "withdraw"} /\ ~(tx.size < 30)
    \/ tx.type = "limit_order" /\ ~(tx.size < 38)

(* A mutated form: the sum is kept in a wider integer. *)
DepositWide(s, tx) ==
    IF tx.size < 30 \/ tx.amount = 0 THEN Result(s, 1)
    ELSE LET m == MakeAccount(s, tx.addr) IN
         Result(SetBalance(m, tx.addr, tx.denom, Balance(m, tx.addr, tx.denom) + tx.amount), 0)

executeDeposit(s, tx) ==
    IF tx.size < 30 \/ tx.amount = 0 THEN Result(s, 1)
    ELSE LET m == MakeAccount(s, tx.addr)
             sum == (Balance(m, tx.addr, tx.denom) + tx.amount) % 2^Width
         IN Result(SetBalance(m, tx.addr, tx.denom, sum), 0)

(* The balance is known to suffice: take the amount from it. *)
Debit(s, a, d, amount) == SetBalance(s, a, d, (Balance(s, a, d) - amount) % 2^Width)

(* A mutated form: a withdrawal of zero is let through. *)
WithdrawZero(s, tx) ==
    IF tx.size < 30 THEN Result(s, 1)
    ELSE IF Balance(s, tx.addr, tx.denom) < tx.amount THEN Result(s, 2)
    ELSE Result(DropEmpty(Debit(s, tx.addr, tx.denom, tx.amount), tx.addr, tx.denom), 0)

executeWithdraw(s, tx) ==
    IF tx.size < 30 \/ tx.amount = 0 THEN Result(s, 1)
    ELSE IF Balance(s, tx.addr, tx.denom) < tx.amount THEN Result(s, 2)
    ELSE Result(DropEmpty(Debit(s, tx.addr, tx.denom, tx.amount), tx.addr, tx.denom), 0)

pairBase(pair) == Head(pair)

(* A mutated form: the balance is checked in the quote denomination. *)
OrderChecksQuote(s, tx) ==
    IF tx.size < 38 \/ tx.amount = 0 \/ tx.price = 0 THEN Result(s, 1)
    ELSE IF Balance(s, tx.addr, tx.pair[2]) < tx.amount THEN Result(s, 2)
    ELSE Result([Debit(s, tx.addr, pairBase(tx.pair), tx.amount)
                    EXCEPT !.orders = Append(@, [owner |-> tx.addr, pair |-> tx.pair,
                                                 amount |-> tx.amount, price |-> tx.price])], 0)

(* The funds of an order are locked; an entry of zero stays. *)
executeLimitOrder(s, tx) ==
    IF tx.size < 38 \/ tx.amount = 0 \/ tx.price = 0 THEN Result(s, 1)
    ELSE IF Balance(s, tx.addr, pairBase(tx.pair)) < tx.amount THEN Result(s, 2)
    ELSE Result([Debit(s, tx.addr, pairBase(tx.pair), tx.amount)
                    EXCEPT !.orders = Append(@, [owner |-> tx.addr, pair |-> tx.pair,
                                                 amount |-> tx.amount, price |-> tx.price])], 0)

Usable(p) == p.pair # <<>> /\ p.price > 0

SetPrice(s, p) == [s EXCEPT !.prices = Put(@, p.pair, p.price)]

(* A mutated form: every entry is taken over. *)
OracleTakesAll(s, tx) ==
    IF tx.size < 2 \/ tx.prices = Malformed THEN Result(s, 1)
    ELSE Result(FoldLeft(SetPrice, s, tx.prices), 0)

(* Entries without a pair or a price are skipped, later ones win. *)
TakePrice(s, p) == IF Usable(p) THEN SetPrice(s, p) ELSE s

executeOracleUpdate(s, tx) ==
    IF tx.size < 2 \/ tx.prices = Malformed THEN Result(s, 1)
    ELSE Result(FoldLeft(TakePrice, s, tx.prices), 0)

executeTx(s, tx) ==
    CASE tx.type = "deposit" -> executeDeposit(s, tx)
      [] tx.type = "withdraw" -> executeWithdraw(s, tx)
      [] tx.type = "limit_order" -> executeLimitOrder(s, tx)
      [] tx.type = "oracle_update" -> executeOracleUpdate(s, tx)
      [] OTHER -> Result(s, 1)

-----------------------------------------------------------------------------
(* Proposals and vote extensions. *)

IsOracle(tx) == tx.type = "oracle_update"

(* The usable prices of one extension, and of all that can be read, by pair. *)
CollectPrice(m, p) ==
    IF Usable(p) THEN Put(m, p.pair, Append(IF p.pair \in DOMAIN m THEN m[p.pair] ELSE <<>>, p.price))
    ELSE m

CollectExtension(m, ext) == IF ext = Malformed THEN m ELSE FoldLeft(CollectPrice, m, ext)

pairPrices(exts) == FoldLeft(CollectExtension, <<>>, exts)

(* sort.Slice: a value goes behind those that are not greater. *)
Insert(sorted, v) ==
    InsertAt(sorted, Cardinality({i \in DOMAIN sorted : sorted[i] <= v}) + 1, v)

Sorted(vals) == FoldLeft(Insert, <<>>, vals)

(* A mutated form: the prices are not sorted. *)
MedianUnsorted(vals) == vals[Len(vals) \div 2 + 1]

median(vals) == Sorted(vals)[Len(vals) \div 2 + 1]

(* One transaction with the median for each pair; none without a report. *)
buildOracleTxFromExtensions(exts) ==
    LET prices == pairPrices(exts)
        pairs == SetToSeq(DOMAIN prices)
    IN IF DOMAIN prices = {} THEN <<>>
       ELSE <<[type |-> "oracle_update", size |-> 1 + OracleEntrySize * Len(pairs),
               prices |-> [i \in 1..Len(pairs) |->
                              [pair |-> pairs[i], price |-> median(prices[pairs[i]])]]]>>

AddSize(n, tx) == n + tx.size
TotalSize(txs) == FoldLeft(AddSize, 0, txs)

(* A mutated form: oracle updates of the mempool are taken as well. *)
AddFromAnywhere(txs, tx) ==
    IF TotalSize(txs) + tx.size > MaxTxBytes THEN txs ELSE Append(txs, tx)

(* The mempool's transactions that still fit, oracle updates skipped. *)
AddFromMempool(txs, tx) ==
    IF TotalSize(txs) + tx.size > MaxTxBytes \/ IsOracle(tx) THEN txs ELSE Append(txs, tx)

BuildProposal(exts, mempool) ==
    LET oracleTx == buildOracleTxFromExtensions(exts)
        fits == oracleTx # <<>> /\ oracleTx[1].size <= MaxTxBytes
    IN FoldLeft(AddFromMempool, IF fits THEN oracleTx ELSE <<>>, mempool)

(* An empty proposal, and one that has extensions and no oracle update in    *)
(* front, are accepted without a look at the rest.                           *)
VerifyProposal(exts, txs) ==
    txs # <<>> /\ (exts = <<>> \/ IsOracle(txs[1])) =>
        /\ IsOracle(txs[1]) =>
             txs[1].prices # Malformed /\ \A p \in Range(txs[1].prices) : Usable(p)
        /\ \A i \in 2..Len(txs) : ~IsOracle(txs[i])

ExtendVote ==
    LET pairs == SetToSeq(DOMAIN current.prices) IN
    [i \in DOMAIN pairs |-> [pair |-> pairs[i], price |-> current.prices[pairs[i]]]]

VerifyExtension(ext) == ext # Malformed /\ \A p \in Range(ext) : p.pair # <<>>

-----------------------------------------------------------------------------
(* Blocks. *)

(* Simulate: the same execution on another copy of the current state. *)
Simulate(tx) == executeTx(clone(current), tx)

(* The outcomes of the block at height h on state s, and the state after it. *)
ApplyTx(acc, tx) ==
    LET r == executeTx(acc.state, tx) IN
    [state |-> r.state, outcomes |-> Append(acc.outcomes, [tx |-> tx, code |-> r.code])]

RunBlock(s, h, txs) ==
    FoldLeft(ApplyTx, [state |-> [clone(s) EXCEPT !.height = h], outcomes |-> <<>>], txs)

(* The amounts of the successful transactions among the outcomes. *)
Book(b, o) ==
    CASE o.code = 0 /\ o.tx.type = "deposit" ->
            [b EXCEPT ![o.tx.addr][o.tx.denom].paidIn = @ + o.tx.amount]
      [] o.code = 0 /\ o.tx.type = "withdraw" ->
            [b EXCEPT ![o.tx.addr][o.tx.denom].paidOut = @ + o.tx.amount]
      [] OTHER -> b

Booked(b, outs) == FoldLeft(Book, b, outs)

(* The state of a chain of blocks and its books. *)
ApplyBlock(acc, txs) ==
    LET done == RunBlock(acc.state, acc.state.height + 1, txs) IN
    [state |-> done.state, books |-> Booked(acc.books, done.outcomes)]

AfterChain(blocks) == FoldLeft(ApplyBlock, [state |-> newState, books |-> NoBooks], blocks)

-----------------------------------------------------------------------------
(* A round of the engine. *)

Between == round = NoRound /\ staged = NoState /\ ~panicked /\ current.height < MaxHeight

Propose(exts, mempool) ==
    /\ Between
    /\ round' = [height |-> current.height + 1, txs |-> BuildProposal(exts, mempool),
                 exts |-> exts, by |-> "self"]
    /\ UNCHANGED <<current, staged, outcome, books, known, imports, panicked>>

Receive(exts, txs) ==
    /\ Between
    /\ round' = [height |-> current.height + 1, txs |-> txs, exts |-> exts, by |-> "other"]
    /\ UNCHANGED <<current, staged, outcome, books, known, imports, panicked>>

Reject ==
    /\ round # NoRound
    /\ ~VerifyProposal(round.exts, round.txs)
    /\ round' = NoRound
    /\ UNCHANGED <<current, staged, outcome, books, known, imports, panicked>>

OutcomeOf(done) ==
    [txs |-> done.outcomes, hash |-> appHash(done.state), books |-> Booked(books, done.outcomes)]

(* The transactions one after the other, on a copy of the current state. *)
ExecuteBlock ==
    /\ round # NoRound
    /\ VerifyProposal(round.exts, round.txs)
    /\ LET done == RunBlock(current, round.height, round.txs) IN
          \/ /\ done.state.nilWrite
             /\ panicked' = TRUE
             /\ UNCHANGED <<staged, outcome>>
          \/ /\ ~done.state.nilWrite
             /\ staged' = done.state
             /\ outcome' = OutcomeOf(done)
             /\ UNCHANGED panicked
    /\ round' = NoRound
    /\ UNCHANGED <<current, books, known, imports>>

(* A mutated form: only the balances are taken over. *)
CommitMerges ==
    /\ staged # NoState
    /\ current' = [current EXCEPT !.balances = staged.balances, !.height = staged.height]
    /\ staged' = NoState
    /\ known' = outcome.hash
    /\ books' = outcome.books
    /\ outcome' = NoOutcome
    /\ UNCHANGED <<round, imports, panicked>>

(* The copy replaces whatever is current by now; the engine then holds the   *)
(* state to be the one of the outcome.                                       *)
Commit ==
    /\ staged # NoState
    /\ current' = staged
    /\ staged' = NoState
    /\ known' = outcome.hash
    /\ books' = outcome.books
    /\ outcome' = NoOutcome
    /\ UNCHANGED <<round, imports, panicked>>

(* The snapshot of a peer that is ahead, verified, parsed back from its JSON, *)
(* replaces the current state and not the staged one.  The engine has the    *)
(* AppHash of the chain for it.                                              *)
ImportSnapshot(blocks) ==
    /\ imports < MaxImports /\ ~panicked
    /\ Len(blocks) > current.height
    /\ LET peer == AfterChain(blocks) IN
        /\ current' = Unmarshal(Marshal(peer.state))
        /\ books' = peer.books
        /\ known' = appHash(peer.state)
    /\ imports' = imports + 1
    /\ UNCHANGED <<staged, outcome, round, panicked>>

(* A request without LastCommitted is taken for genesis, whatever the state: *)
(* the answer has no LastBlock.  One with it is a restart.  The AppHash is   *)
(* that of the state in both branches.                                       *)
Handshake(restart) ==
    [lastBlock |-> IF restart THEN current.height ELSE NoState,
     appHash |-> appHash(current)]

(* "/balance", "/orders" and "/price": value and height, from one state. *)
QueryBalance(a, d) == [value |-> Balance(current, a, d), height |-> current.height]
QueryOrders == [value |-> current.orders, height |-> current.height]
QueryPrice(pair) ==
    IF pair \in DOMAIN current.prices
      THEN [code |-> 0, value |-> current.prices[pair], height |-> current.height]
      ELSE [code |-> 1, value |-> 0, height |-> current.height]

DexNext ==
    \/ \E exts \in VoteSets, mempool \in Mempools : Propose(exts, mempool)
    \/ \E exts \in ReceivedVoteSets, txs \in Proposals : Receive(exts, txs)
    \/ Reject \/ ExecuteBlock \/ Commit
    \/ \E blocks \in SyncedChains : ImportSnapshot(blocks)

DexSpec == DexInit /\ [][DexNext]_vars

-----------------------------------------------------------------------------
(* Properties. *)

StateOK(s) ==
    /\ s.height \in 0..MaxHeight
    /\ DOMAIN s.balances \subseteq Accounts
    /\ \A a \in DOMAIN s.balances :
        /\ DOMAIN s.balances[a] \subseteq Denoms
        /\ \A d \in DOMAIN s.balances[a] : s.balances[a][d] \in Amounts
    /\ \A o \in Range(s.orders) : o.amount \in Amounts \ {0} /\ o.price > 0

DexTypeOK ==
    /\ StateOK(current)
    /\ staged = NoState \/ StateOK(staged)
    /\ \A o \in Range(outcome.txs) : o.code \in 0..2
    /\ imports \in 0..MaxImports
    /\ round.by \in {"nobody", "self", "other"}
    /\ panicked \in BOOLEAN

(* The amounts locked in orders, by account and denomination. *)
Lock(l, o) == [l EXCEPT ![o.owner][pairBase(o.pair)] = @ + o.amount]
NoLocks == [a \in Accounts |-> [d \in Denoms |-> 0]]
Locked(orders) == FoldLeft(Lock, NoLocks, orders)

(* Denominations that their JSON leaves alone and makes of no other. *)
Plain(d) == \A e \in Denoms : utf8[e] = d <=> e = d

(* What the outcomes reported is what "/balance" and "/orders" answer: an    *)
(* account's balance and its locked orders make up its reported deposits     *)
(* less its reported withdrawals, but for 2^Width each time that a deposit   *)
(* wrapped its balance around.  No sequence of transactions creates or       *)
(* overdraws funds, or loses any while the deposits fit into an amount.  A   *)
(* snapshot imported before, during or after a round brings the state and    *)
(* the books of its chain, and a Commit that follows those of the block:     *)
(* never the balances of one and the orders of the other.  Of denominations  *)
(* that are no UTF-8 a snapshot may lose funds, and they are left out.       *)
FundsConserved ==
    \A a \in Accounts, d \in Denoms : Plain(d) =>
        \E wraps \in 0..books[a][d].paidIn :
            QueryBalance(a, d).value + Locked(QueryOrders.value)[a][d] + wraps * 2^Width
              = books[a][d].paidIn - books[a][d].paidOut

(* The code fits the gate: only what the gate lets through succeeds, but for *)
(* oracle updates, and of what it lets through only zero amounts are found   *)
(* malformed.                                                                *)
FitsGate(tx, code) ==
    /\ code = 0 /\ ~IsOracle(tx) => CheckTx(tx)
    /\ code = 1 /\ CheckTx(tx) => tx.amount = 0 \/ (tx.type = "limit_order" /\ tx.price = 0)

(* The gate of the mempool and the execution, which check lengths and types  *)
(* each for itself, agree on what is too short or unknown: for every         *)
(* transaction of an executed block, and for Simulate of those proposed.     *)
GateAgrees ==
    /\ \A o \in Range(outcome.txs) : FitsGate(o.tx, o.code)
    /\ \A tx \in Range(round.txs) : FitsGate(tx, Simulate(tx).code)

(* A key of the text may stand for other bytes, or for those of several keys. *)
Ambiguous(text) ==
    \E a \in DOMAIN text.balances : \E u \in DOMAIN text.balances[a] : ~Plain(u)

(* At any time, a block staged or a snapshot just imported, Handshake        *)
(* answers a request of either kind with the AppHash that the last Commit or *)
(* import left the engine with, taken by ExecuteBlock of the copy, by the    *)
(* peer of its state and by Handshake of the current state, and a restart    *)
(* with the height of that state.  The one exception is a state parsed from  *)
(* a snapshot in which keys have been replaced: two that became one, or one  *)
(* that changed its place, make another AppHash.                             *)
HandshakeAgrees ==
    /\ \A restart \in BOOLEAN :
         \/ Handshake(restart).appHash = known
         \/ Ambiguous(known) /\ current = Unmarshal(known)
    /\ Handshake(TRUE).lastBlock = known.height

(* No transaction of an accepted block writes to the map of an account that  *)
(* is not there, and neither does Simulate of a proposed one: an account     *)
(* deleted by a withdrawal is met by later ones.                             *)
NoNilWrite ==
    /\ ~panicked
    /\ \A tx \in Range(round.txs) : ~Simulate(tx).state.nilWrite

Own == round.by = "self"

(* What BuildProposal builds, VerifyProposal accepts at the other validators *)
(* given the same extensions, whatever the mempool and the extensions hold,  *)
(* and it fits into the block, its oracle update included.                   *)
OwnProposalAccepted ==
    Own => VerifyProposal(round.exts, round.txs) /\ TotalSize(round.txs) <= MaxTxBytes

(* The usable reports of the extensions that can be read, by their place. *)
Reported(exts, r) == exts[r.vote][r.entry]

Reports(exts) ==
    {r \in UNION {[vote : {i}, entry : DOMAIN exts[i]] :
                     i \in {k \in DOMAIN exts : exts[k] # Malformed}} :
        Usable(Reported(exts, r))}

ReportsFor(exts, pair) == {r \in Reports(exts) : Reported(exts, r).pair = pair}

(* The oracle update of a proposal has, for every pair with a usable report, *)
(* a reported price that at most half of the reports are below and at most   *)
(* half are above, and nothing for other pairs.                              *)
MedianOfReports ==
    Own /\ round.txs # <<>> /\ IsOracle(round.txs[1]) =>
        LET prices == round.txs[1].prices IN
        /\ {p.pair : p \in Range(prices)} = {Reported(round.exts, r).pair : r \in Reports(round.exts)}
        /\ \A p \in Range(prices) :
             LET reports == ReportsFor(round.exts, p.pair)
                 below == {r \in reports : Reported(round.exts, r).price < p.price}
                 above == {r \in reports : Reported(round.exts, r).price > p.price}
             IN /\ \E r \in reports : Reported(round.exts, r).price = p.price
                /\ 2 * Cardinality(below) <= Cardinality(reports)
                /\ 2 * Cardinality(above) <= Cardinality(reports)

(* The extension that a validator makes from its committed prices passes the *)
(* check of the others, after any oracle updates of accepted proposals, and  *)
(* an oracle update built from it alone has the prices that "/price" answers *)
(* and no other: the way through a vote drops and changes nothing.           *)
OwnExtensionAccepted ==
    /\ VerifyExtension(ExtendVote)
    /\ LET built == buildOracleTxFromExtensions(<<ExtendVote>>)
           back == IF built = <<>> THEN {} ELSE Range(built[1].prices)
       IN back = {[pair |-> p, price |-> QueryPrice(p).value] : p \in DOMAIN current.prices}

-----------------------------------------------------------------------------
(* What a comment says and the code does not do. *)

(* app.go: no transaction but the first is an oracle update. *)
OracleOnlyFirst ==
    round # NoRound /\ VerifyProposal(round.exts, round.txs) =>
        \A i \in 2..Len(round.txs) : ~IsOracle(round.txs[i])

=============================================================================
