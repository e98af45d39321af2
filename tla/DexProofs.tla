----------------------------- MODULE DexProofs ------------------------------
(***************************************************************************)
(* Proofs about Dex, for any accounts, denominations and width of amounts, *)
(* any transactions, blocks, vote extensions and snapshots.                *)
(*                                                                         *)
(* What a transaction does to balances and orders comes first; then that   *)
(* deposits, less withdrawals and locked amounts, stay the balance of      *)
(* every account, modulo 2^Width, through a transaction, a block and a     *)
(* chain.  The invariant gives the staged state books of its own, as a     *)
(* snapshot may replace the current state while a block is staged.         *)
(***************************************************************************)
EXTENDS DexProposalProofs

Pricing == INSTANCE FoldTheorems WITH Op <- TakePrice
Running == INSTANCE FoldTheorems WITH Op <- ApplyTx
Booking == INSTANCE FoldTheorems WITH Op <- Book
Locking == INSTANCE FoldTheorems WITH Op <- Lock
Chaining == INSTANCE FoldTheorems WITH Op <- ApplyBlock

-----------------------------------------------------------------------------
(* States. *)

Holdings == Maps(Denoms, Amounts)
Balances == Maps(Accounts, Holdings)
Orders == [owner : Accounts, pair : Seq(Denoms) \ {<<>>}, amount : Amounts \ {0}, price : Amounts \ {0}]

(* States that no write to an absent account has led to. *)
States == [height : Nat, balances : Balances, orders : Seq(Orders), nilOrders : BOOLEAN,
           prices : PriceMap, nilWrite : {FALSE}]

(* A balance is an amount, and an account that has funds is there. *)
LEMMA BalanceTyped ==
  ASSUME NEW s \in States, NEW a, NEW d
  PROVE  /\ Balance(s, a, d) \in Amounts
         /\ Balance(s, a, d) # 0 => a \in DOMAIN s.balances
<1>1. s.balances \in Balances
  BY DEF States
<1>2. CASE a \in DOMAIN s.balances /\ d \in DOMAIN s.balances[a]
  <2>1. s.balances[a] \in Holdings
    BY <1>1, <1>2, MapGet DEF Balances
  <2>2. s.balances[a][d] \in Amounts
    BY <1>2, <2>1, MapGet DEF Holdings
  <2>3. QED
    BY <1>2, <2>2 DEF Balance
<1>3. CASE ~(a \in DOMAIN s.balances /\ d \in DOMAIN s.balances[a])
  BY <1>3, AmountFacts DEF Balance
<1>4. QED
  BY <1>2, <1>3

(* A state with other balances. *)
LEMMA WithBalances ==
  ASSUME NEW s \in States, NEW b \in Balances
  PROVE  LET t == [s EXCEPT !.balances = b] IN
         /\ t \in States /\ t.balances = b
         /\ t.height = s.height /\ t.orders = s.orders
BY DEF States

(* Balances of a and d alone may differ. *)
Elsewhere(s, t, a, d) ==
    \A x \in Accounts, y \in Denoms : x # a \/ y # d => Balance(t, x, y) = Balance(s, x, y)

(* Making an account leaves every balance. *)
LEMMA MakeEffect ==
  ASSUME NEW s \in States, NEW a \in Accounts
  PROVE  LET t == MakeAccount(s, a) IN
         /\ t \in States /\ a \in DOMAIN t.balances
         /\ t.height = s.height /\ t.orders = s.orders
         /\ \A x \in Accounts, y \in Denoms : Balance(t, x, y) = Balance(s, x, y)
<1> DEFINE b == Put(s.balances, a, <<>>)
           t == MakeAccount(s, a)
<1>1. CASE a \in DOMAIN s.balances
  BY <1>1 DEF MakeAccount
<1>2. CASE a \notin DOMAIN s.balances
  <2>1. s.balances \in Balances /\ <<>> \in Holdings /\ DOMAIN <<>> = {}
    BY MapEmpty DEF States, Holdings
  <2>2. /\ b \in Balances /\ DOMAIN b = DOMAIN s.balances \cup {a} /\ b[a] = <<>>
        /\ \A x \in DOMAIN s.balances : x # a => b[x] = s.balances[x]
    <3>1. b \in Balances
      BY <2>1, PutMap DEF Balances
    <3>2. DOMAIN b = DOMAIN s.balances \cup {a}
      BY PutDomain
    <3>3. b[a] = <<>>
      BY PutAt
    <3>4. \A x \in DOMAIN s.balances : x # a => b[x] = s.balances[x]
      BY PutElsewhere
    <3>5. QED
      BY <3>1, <3>2, <3>3, <3>4
  <2>3. t = [s EXCEPT !.balances = b]
    BY <1>2 DEF MakeAccount
  <2> HIDE DEF b, t
  <2>4. t \in States /\ t.balances = b /\ t.height = s.height /\ t.orders = s.orders
    BY <2>2, <2>3, WithBalances
  <2>5. ASSUME NEW x \in Accounts, NEW y \in Denoms PROVE Balance(t, x, y) = Balance(s, x, y)
    BY <1>2, <2>1, <2>2, <2>4 DEF Balance
  <2>6. QED
    BY <2>2, <2>4, <2>5 DEF t
<1>3. QED
  BY <1>1, <1>2

(* Setting a balance. *)
LEMMA SetEffect ==
  ASSUME NEW s \in States, NEW a \in DOMAIN s.balances, NEW d \in Denoms, NEW v \in Amounts
  PROVE  LET t == SetBalance(s, a, d, v) IN
         /\ t \in States
         /\ t.height = s.height /\ t.orders = s.orders
         /\ Balance(t, a, d) = v /\ Elsewhere(s, t, a, d)
<1> DEFINE h == Put(s.balances[a], d, v)
           b == Put(s.balances, a, h)
           t == SetBalance(s, a, d, v)
<1>1. s.balances \in Balances /\ a \in Accounts /\ s.balances[a] \in Holdings
  BY MapGet DEF States, Balances
<1>2. /\ h \in Holdings /\ DOMAIN h = DOMAIN s.balances[a] \cup {d} /\ h[d] = v
      /\ \A y \in DOMAIN s.balances[a] : y # d => h[y] = s.balances[a][y]
  <2>1. h \in Holdings
    BY <1>1, PutMap DEF Holdings
  <2>2. DOMAIN h = DOMAIN s.balances[a] \cup {d}
    BY PutDomain
  <2>3. h[d] = v
    BY PutAt
  <2>4. \A y \in DOMAIN s.balances[a] : y # d => h[y] = s.balances[a][y]
    BY PutElsewhere
  <2>5. QED
    BY <2>1, <2>2, <2>3, <2>4
<1> HIDE DEF h
<1>3. /\ b \in Balances /\ DOMAIN b = DOMAIN s.balances \cup {a} /\ b[a] = h
      /\ \A x \in DOMAIN s.balances : x # a => b[x] = s.balances[x]
  <2>1. b \in Balances
    BY <1>1, <1>2, PutMap DEF Balances
  <2>2. DOMAIN b = DOMAIN s.balances \cup {a}
    BY PutDomain
  <2>3. b[a] = h
    BY PutAt
  <2>4. \A x \in DOMAIN s.balances : x # a => b[x] = s.balances[x]
    BY PutElsewhere
  <2>5. QED
    BY <2>1, <2>2, <2>3, <2>4
<1>4. t = [s EXCEPT !.balances = b]
  BY DEF SetBalance, States, h
<1> HIDE DEF b, t
<1>5. t \in States /\ t.balances = b /\ t.height = s.height /\ t.orders = s.orders
  BY <1>3, <1>4, WithBalances
<1>6. Balance(t, a, d) = v
  BY <1>2, <1>3, <1>5 DEF Balance
<1>7. ASSUME NEW x \in Accounts, NEW y \in Denoms, x # a \/ y # d
      PROVE  Balance(t, x, y) = Balance(s, x, y)
  <2>1. CASE x = a
    BY <1>2, <1>3, <1>5, <1>7, <2>1 DEF Balance
  <2>2. CASE x # a
    BY <1>3, <1>5, <2>2 DEF Balance
  <2>3. QED
    BY <2>1, <2>2
<1>8. QED
  BY <1>5, <1>6, <1>7 DEF Elsewhere, t

(* Dropping empty entries leaves every balance. *)
LEMMA DropEffect ==
  ASSUME NEW s \in States, NEW a \in Accounts, NEW d \in Denoms
  PROVE  LET t == DropEmpty(s, a, d) IN
         /\ t \in States
         /\ t.height = s.height /\ t.orders = s.orders
         /\ \A x \in Accounts, y \in Denoms : Balance(t, x, y) = Balance(s, x, y)
<1> DEFINE rest == Without(s.balances[a], d)
           b == IF rest = <<>> THEN Without(s.balances, a) ELSE Put(s.balances, a, rest)
           t == DropEmpty(s, a, d)
<1>1. CASE a \notin DOMAIN s.balances \/ Balance(s, a, d) # 0
  BY <1>1 DEF DropEmpty
<1>2. CASE a \in DOMAIN s.balances /\ Balance(s, a, d) = 0
  <2>1. s.balances \in Balances /\ s.balances[a] \in Holdings
    BY <1>2, MapGet DEF States, Balances
  <2>2. /\ rest \in Holdings /\ DOMAIN rest = DOMAIN s.balances[a] \ {d}
        /\ \A y \in DOMAIN s.balances[a] : y # d => rest[y] = s.balances[a][y]
    <3>1. rest \in Holdings
      BY <2>1, WithoutMap DEF Holdings
    <3>2. DOMAIN rest = DOMAIN s.balances[a] \ {d}
      BY WithoutDomain
    <3>3. \A y \in DOMAIN s.balances[a] : y # d => rest[y] = s.balances[a][y]
      BY WithoutElsewhere
    <3>4. QED
      BY <3>1, <3>2, <3>3
  <2>3. t = [s EXCEPT !.balances = b]
    BY <1>2 DEF DropEmpty, States
  <2> HIDE DEF rest, t
  <2>4. /\ b \in Balances
        /\ \A x \in Accounts : x # a =>
            /\ x \in DOMAIN b <=> x \in DOMAIN s.balances
            /\ x \in DOMAIN b => b[x] = s.balances[x]
        /\ a \in DOMAIN b => b[a] = rest
        /\ a \notin DOMAIN b => DOMAIN rest = {}
    <3>1. CASE rest = <<>>
      <4>1. /\ Without(s.balances, a) \in Balances
            /\ DOMAIN Without(s.balances, a) = DOMAIN s.balances \ {a}
            /\ \A x \in DOMAIN s.balances : x # a => Without(s.balances, a)[x] = s.balances[x]
        <5>1. Without(s.balances, a) \in Balances
          BY <2>1, WithoutMap DEF Balances
        <5>2. DOMAIN Without(s.balances, a) = DOMAIN s.balances \ {a}
          BY WithoutDomain
        <5>3. \A x \in DOMAIN s.balances : x # a => Without(s.balances, a)[x] = s.balances[x]
          BY WithoutElsewhere
        <5>4. QED
          BY <5>1, <5>2, <5>3
      <4>2. DOMAIN rest = {}
        BY <3>1, MapEmpty
      <4>3. b = Without(s.balances, a)
        BY <3>1
      <4> HIDE DEF b
      <4>4. QED
        BY <4>1, <4>2, <4>3
    <3>2. CASE rest # <<>>
      <4>1. /\ Put(s.balances, a, rest) \in Balances
            /\ DOMAIN Put(s.balances, a, rest) = DOMAIN s.balances \cup {a}
            /\ Put(s.balances, a, rest)[a] = rest
            /\ \A x \in DOMAIN s.balances : x # a => Put(s.balances, a, rest)[x] = s.balances[x]
        <5>1. Put(s.balances, a, rest) \in Balances
          BY <2>1, <2>2, PutMap DEF Balances
        <5>2. DOMAIN Put(s.balances, a, rest) = DOMAIN s.balances \cup {a}
          BY PutDomain
        <5>3. Put(s.balances, a, rest)[a] = rest
          BY PutAt
        <5>4. \A x \in DOMAIN s.balances : x # a => Put(s.balances, a, rest)[x] = s.balances[x]
          BY PutElsewhere
        <5>5. QED
          BY <5>1, <5>2, <5>3, <5>4
      <4>2. b = Put(s.balances, a, rest)
        BY <3>2
      <4> HIDE DEF b
      <4>3. QED
        BY <4>1, <4>2
    <3>3. QED
      BY <3>1, <3>2
  <2> HIDE DEF b
  <2>5. t \in States /\ t.balances = b /\ t.height = s.height /\ t.orders = s.orders
    BY <2>3, <2>4, WithBalances
  <2>6. ASSUME NEW x \in Accounts, NEW y \in Denoms PROVE Balance(t, x, y) = Balance(s, x, y)
    <3>1. CASE x # a
      BY <2>4, <2>5, <3>1 DEF Balance
    <3>2. CASE x = a /\ y # d
      BY <1>2, <2>2, <2>4, <2>5, <3>2 DEF Balance
    <3>3. CASE x = a /\ y = d
      BY <1>2, <2>2, <2>4, <2>5, <3>3 DEF Balance
    <3>4. QED
      BY <3>1, <3>2, <3>3
  <2>7. QED
    BY <2>5, <2>6 DEF t
<1>3. QED
  BY <1>1, <1>2

-----------------------------------------------------------------------------
(* Transactions. *)

(* The fields of deposits and withdrawals. *)
LEMMA FundsTx ==
  ASSUME NEW tx \in Transactions, tx.type \in {"deposit", "withdraw"}
  PROVE  tx.addr \in Accounts /\ tx.amount \in Amounts /\ tx.denom \in Denoms
BY DEF Transactions

(* The fields of orders. *)
LEMMA OrderTx ==
  ASSUME NEW tx \in Transactions, tx.type = "limit_order"
  PROVE  /\ tx.addr \in Accounts /\ tx.amount \in Amounts /\ tx.price \in Amounts
         /\ tx.pair \in Seq(Denoms) \ {<<>>}
BY DEF Transactions

(* A deposit adds to a balance, in Width bits. *)
LEMMA DepositEffect ==
  ASSUME NEW s \in States, NEW tx \in Transactions, tx.type = "deposit"
  PROVE  LET r == executeDeposit(s, tx) IN
         /\ r.state \in States /\ r.state.height = s.height /\ r.state.orders = s.orders
         /\ r.code \in {0, 1}
         /\ r.code # 0 => r.state = s
         /\ r.code = 0 =>
              /\ Balance(r.state, tx.addr, tx.denom)
                    = (Balance(s, tx.addr, tx.denom) + tx.amount) % 2^Width
              /\ Elsewhere(s, r.state, tx.addr, tx.denom)
<1> DEFINE r == executeDeposit(s, tx)
<1>1. CASE tx.size < 30 \/ tx.amount = 0
  BY <1>1 DEF executeDeposit, Result
<1>2. CASE ~(tx.size < 30 \/ tx.amount = 0)
  <2> DEFINE m == MakeAccount(s, tx.addr)
             sum == (Balance(m, tx.addr, tx.denom) + tx.amount) % 2^Width
             t == SetBalance(m, tx.addr, tx.denom, sum)
  <2>1. tx.addr \in Accounts /\ tx.amount \in Amounts /\ tx.denom \in Denoms
    BY <1>2, FundsTx
  <2>2. /\ m \in States /\ tx.addr \in DOMAIN m.balances
        /\ m.height = s.height /\ m.orders = s.orders
        /\ \A x \in Accounts, y \in Denoms : Balance(m, x, y) = Balance(s, x, y)
    BY <2>1, MakeEffect
  <2>3. r.state = t /\ r.code = 0
    BY <1>2 DEF executeDeposit, Result
  <2> HIDE DEF m
  <2>4. sum \in Amounts
    <3>1. Balance(m, tx.addr, tx.denom) \in Amounts
      BY <2>2, BalanceTyped
    <3>2. Balance(m, tx.addr, tx.denom) \in Nat /\ tx.amount \in Nat
      BY <2>1, <3>1, AmountFacts
    <3>3. Balance(m, tx.addr, tx.denom) + tx.amount \in Int
      BY <3>2
    <3>4. QED
      BY <3>3, AmountFacts
  <2> HIDE DEF sum
  <2>5. /\ t \in States /\ t.height = m.height /\ t.orders = m.orders
        /\ Balance(t, tx.addr, tx.denom) = sum /\ Elsewhere(m, t, tx.addr, tx.denom)
    BY <2>1, <2>2, <2>4, SetEffect
  <2> HIDE DEF t
  <2>6. sum = (Balance(s, tx.addr, tx.denom) + tx.amount) % 2^Width
    BY <2>1, <2>2 DEF sum
  <2>7. Elsewhere(s, t, tx.addr, tx.denom)
    BY <2>2, <2>5 DEF Elsewhere
  <2> HIDE DEF r
  <2>8. QED
    BY <1>2, <2>1, <2>2, <2>3, <2>5, <2>6, <2>7 DEF r
<1>3. QED
  BY <1>1, <1>2

(* Taking an amount that the balance covers. *)
LEMMA DebitEffect ==
  ASSUME NEW s \in States, NEW a \in Accounts, NEW d \in Denoms, NEW v \in Amounts,
         v # 0, v <= Balance(s, a, d)
  PROVE  LET t == Debit(s, a, d, v) IN
         /\ t \in States /\ t.height = s.height /\ t.orders = s.orders
         /\ Balance(t, a, d) = Balance(s, a, d) - v
         /\ Elsewhere(s, t, a, d)
<1> DEFINE rest == (Balance(s, a, d) - v) % 2^Width
<1>1. Balance(s, a, d) \in Amounts /\ Balance(s, a, d) \in Nat /\ v \in Nat
  BY BalanceTyped, AmountFacts
<1>2. a \in DOMAIN s.balances
  BY <1>1, BalanceTyped
<1>3. Balance(s, a, d) - v \in Nat /\ Balance(s, a, d) - v < 2^Width
  BY <1>1, AmountFacts
<1>4. rest = Balance(s, a, d) - v /\ rest \in Amounts
  BY <1>3, AmountFacts
<1> HIDE DEF rest
<1>5. LET t == SetBalance(s, a, d, rest) IN
      /\ t \in States /\ t.height = s.height /\ t.orders = s.orders
      /\ Balance(t, a, d) = rest /\ Elsewhere(s, t, a, d)
  BY <1>2, <1>4, SetEffect
<1>6. Debit(s, a, d, v) = SetBalance(s, a, d, rest)
  BY DEF Debit, rest
<1>7. QED
  BY <1>4, <1>5, <1>6

(* A withdrawal takes what the account has. *)
LEMMA WithdrawEffect ==
  ASSUME NEW s \in States, NEW tx \in Transactions, tx.type = "withdraw"
  PROVE  LET r == executeWithdraw(s, tx) IN
         /\ r.state \in States /\ r.state.height = s.height /\ r.state.orders = s.orders
         /\ r.code \in 0 .. 2
         /\ r.code # 0 => r.state = s
         /\ r.code = 0 =>
              /\ Balance(r.state, tx.addr, tx.denom) = Balance(s, tx.addr, tx.denom) - tx.amount
              /\ Elsewhere(s, r.state, tx.addr, tx.denom)
<1> DEFINE r == executeWithdraw(s, tx)
<1>1. CASE tx.size < 30 \/ tx.amount = 0
  BY <1>1 DEF executeWithdraw, Result
<1>2. CASE ~(tx.size < 30 \/ tx.amount = 0) /\ Balance(s, tx.addr, tx.denom) < tx.amount
  BY <1>2 DEF executeWithdraw, Result
<1>3. CASE ~(tx.size < 30 \/ tx.amount = 0) /\ ~(Balance(s, tx.addr, tx.denom) < tx.amount)
  <2> DEFINE m == Debit(s, tx.addr, tx.denom, tx.amount)
             t == DropEmpty(m, tx.addr, tx.denom)
  <2>1. tx.addr \in Accounts /\ tx.amount \in Amounts /\ tx.denom \in Denoms /\ tx.amount # 0
    BY <1>3, FundsTx
  <2>2. tx.amount <= Balance(s, tx.addr, tx.denom)
    <3>1. Balance(s, tx.addr, tx.denom) \in Nat /\ tx.amount \in Nat
      BY <2>1, BalanceTyped, AmountFacts
    <3>2. QED
      BY <1>3, <3>1
  <2>3. /\ m \in States /\ m.height = s.height /\ m.orders = s.orders
        /\ Balance(m, tx.addr, tx.denom) = Balance(s, tx.addr, tx.denom) - tx.amount
        /\ Elsewhere(s, m, tx.addr, tx.denom)
    BY <2>1, <2>2, DebitEffect
  <2>4. r.state = t /\ r.code = 0
    BY <1>3 DEF executeWithdraw, Result
  <2> HIDE DEF m
  <2>5. /\ t \in States /\ t.height = m.height /\ t.orders = m.orders
        /\ \A x \in Accounts, y \in Denoms : Balance(t, x, y) = Balance(m, x, y)
    BY <2>1, <2>3, DropEffect
  <2> HIDE DEF t
  <2>6. Elsewhere(s, t, tx.addr, tx.denom)
    BY <2>3, <2>5 DEF Elsewhere
  <2> HIDE DEF r
  <2>7. QED
    BY <1>3, <2>1, <2>3, <2>4, <2>5, <2>6 DEF r
<1>4. QED
  BY <1>1, <1>2, <1>3

(* An order moves what the account has into the order. *)
LEMMA OrderEffect ==
  ASSUME NEW s \in States, NEW tx \in Transactions, tx.type = "limit_order"
  PROVE  LET r == executeLimitOrder(s, tx)
             base == pairBase(tx.pair)
             o == [owner |-> tx.addr, pair |-> tx.pair, amount |-> tx.amount, price |-> tx.price]
         IN
         /\ r.state \in States /\ r.state.height = s.height
         /\ r.code \in 0 .. 2
         /\ r.code # 0 => r.state = s
         /\ r.code = 0 =>
              /\ base \in Denoms
              /\ o \in Orders /\ r.state.orders = Append(s.orders, o)
              /\ Balance(r.state, tx.addr, base) = Balance(s, tx.addr, base) - tx.amount
              /\ Elsewhere(s, r.state, tx.addr, base)
<1> DEFINE r == executeLimitOrder(s, tx)
           base == pairBase(tx.pair)
           o == [owner |-> tx.addr, pair |-> tx.pair, amount |-> tx.amount, price |-> tx.price]
           bad == tx.size < 38 \/ tx.amount = 0 \/ tx.price = 0
<1>1. CASE bad
  BY <1>1 DEF executeLimitOrder, Result
<1>2. CASE ~bad /\ Balance(s, tx.addr, base) < tx.amount
  BY <1>2 DEF executeLimitOrder, Result
<1>3. CASE ~bad /\ ~(Balance(s, tx.addr, base) < tx.amount)
  <2> DEFINE m == Debit(s, tx.addr, base, tx.amount)
             t == [m EXCEPT !.orders = Append(@, o)]
  <2>1. /\ tx.addr \in Accounts /\ tx.amount \in Amounts \ {0} /\ tx.price \in Amounts \ {0}
        /\ tx.pair \in Seq(Denoms) /\ tx.pair # <<>>
    BY <1>3, OrderTx
  <2>2. base \in Denoms
    BY <2>1 DEF pairBase
  <2>3. o \in Orders
    BY <2>1 DEF Orders
  <2>4. r.state = t /\ r.code = 0
    BY <1>3 DEF executeLimitOrder, Result
  <2> HIDE DEF base, o
  <2>5. tx.amount <= Balance(s, tx.addr, base) /\ tx.amount # 0
    <3>1. Balance(s, tx.addr, base) \in Nat /\ tx.amount \in Nat
      BY <2>1, BalanceTyped, AmountFacts
    <3>2. QED
      BY <1>3, <2>1, <3>1
  <2>6. /\ m \in States /\ m.height = s.height /\ m.orders = s.orders
        /\ Balance(m, tx.addr, base) = Balance(s, tx.addr, base) - tx.amount
        /\ Elsewhere(s, m, tx.addr, base)
    BY <2>1, <2>2, <2>5, DebitEffect
  <2> HIDE DEF m
  <2>7. Append(m.orders, o) \in Seq(Orders)
    BY <2>3, <2>6 DEF States
  <2>8. /\ t \in States /\ t.height = m.height /\ t.balances = m.balances
        /\ t.orders = Append(m.orders, o)
    BY <2>6, <2>7 DEF States
  <2> HIDE DEF t
  <2>9. \A x, y : Balance(t, x, y) = Balance(m, x, y)
    BY <2>8 DEF Balance
  <2>10. Elsewhere(s, t, tx.addr, base)
    BY <2>6, <2>9 DEF Elsewhere
  <2> HIDE DEF r, bad
  <2>11. QED
    BY <2>2, <2>3, <2>4, <2>6, <2>8, <2>9, <2>10 DEF r, base, o
<1>4. QED
  BY <1>1, <1>2, <1>3

(* The folds of the model are those of FoldTheorems. *)
LEMMA FoldNames ==
  ASSUME NEW base, NEW seq
  PROVE  /\ FoldLeft(TakePrice, base, seq) = Pricing!Fold(base, seq)
         /\ FoldLeft(ApplyTx, base, seq) = Running!Fold(base, seq)
         /\ FoldLeft(Book, base, seq) = Booking!Fold(base, seq)
         /\ FoldLeft(Lock, base, seq) = Locking!Fold(base, seq)
         /\ FoldLeft(ApplyBlock, base, seq) = Chaining!Fold(base, seq)
<1>1. FoldLeft(TakePrice, base, seq) = Pricing!Fold(base, seq)
  BY DEF FoldLeft, MapThenFoldSet, Max, Pricing!Fold, Pricing!FoldLeft,
     Pricing!MapThenFoldSet, Pricing!Max
<1>2. FoldLeft(ApplyTx, base, seq) = Running!Fold(base, seq)
  BY DEF FoldLeft, MapThenFoldSet, Max, Running!Fold, Running!FoldLeft,
     Running!MapThenFoldSet, Running!Max
<1>3. FoldLeft(Book, base, seq) = Booking!Fold(base, seq)
  BY DEF FoldLeft, MapThenFoldSet, Max, Booking!Fold, Booking!FoldLeft,
     Booking!MapThenFoldSet, Booking!Max
<1>4. FoldLeft(Lock, base, seq) = Locking!Fold(base, seq)
  BY DEF FoldLeft, MapThenFoldSet, Max, Locking!Fold, Locking!FoldLeft,
     Locking!MapThenFoldSet, Locking!Max
<1>5. FoldLeft(ApplyBlock, base, seq) = Chaining!Fold(base, seq)
  BY DEF FoldLeft, MapThenFoldSet, Max, Chaining!Fold, Chaining!FoldLeft,
     Chaining!MapThenFoldSet, Chaining!Max
<1>6. QED
  BY <1>1, <1>2, <1>3, <1>4, <1>5

(* An oracle update changes prices alone. *)
LEMMA OracleEffect ==
  ASSUME NEW s \in States, NEW tx \in Transactions, tx.type = "oracle_update"
  PROVE  LET r == executeOracleUpdate(s, tx) IN
         /\ r.state \in States /\ r.state.height = s.height
         /\ r.state.orders = s.orders /\ r.state.balances = s.balances
         /\ r.code \in {0, 1}
<1> DEFINE S == {t \in States : t.height = s.height /\ t.orders = s.orders /\ t.balances = s.balances}
           r == executeOracleUpdate(s, tx)
<1>1. CASE tx.size < 2 \/ tx.prices = Malformed
  BY <1>1 DEF executeOracleUpdate, Result
<1>2. CASE ~(tx.size < 2) /\ tx.prices # Malformed
  <2>1. tx.prices \in Seq(PriceEntries)
    BY <1>2 DEF Transactions, Extensions
  <2>2. ASSUME NEW t \in S, NEW p \in PriceEntries PROVE TakePrice(t, p) \in S
    <3>1. CASE ~Usable(p)
      BY <3>1 DEF TakePrice
    <3>2. CASE Usable(p)
      <4> DEFINE q == Put(t.prices, p.pair, p.price)
      <4>1. t.prices \in PriceMap
        BY DEF States
      <4>2. q \in PriceMap
        <5>1. p.pair \in GoodPairs /\ p.price \in GoodPrices
          BY <3>2, AmountFacts DEF PriceEntries, Usable, GoodPairs, GoodPrices
        <5>2. t.prices \in Maps(GoodPairs, GoodPrices) /\ IsFiniteSet(DOMAIN t.prices)
          BY <4>1 DEF PriceMap
        <5>3. q \in Maps(GoodPairs, GoodPrices)
          BY <5>1, <5>2, PutMap
        <5>4. DOMAIN q = DOMAIN t.prices \cup {p.pair}
          BY PutDomain
        <5>5. IsFiniteSet(DOMAIN t.prices \cup {p.pair})
          BY <5>2, FS_AddElement
        <5> HIDE DEF q
        <5>6. QED
          BY <5>3, <5>4, <5>5 DEF PriceMap
      <4>3. TakePrice(t, p) = [t EXCEPT !.prices = q]
        BY <3>2 DEF TakePrice, SetPrice
      <4> HIDE DEF q
      <4>4. [t EXCEPT !.prices = q] \in S
        BY <4>2 DEF States
      <4>5. QED
        BY <4>3, <4>4
    <3>3. QED
      BY <3>1, <3>2
  <2>3. s \in S
    OBVIOUS
  <2>4. Pricing!Fold(s, tx.prices) \in S
    <3> HIDE DEF S
    <3>1. QED
      BY <2>1, <2>2, <2>3, Pricing!FoldWithin
  <2>5. FoldLeft(TakePrice, s, tx.prices) = Pricing!Fold(s, tx.prices)
    BY FoldNames
  <2>6. r = Result(FoldLeft(TakePrice, s, tx.prices), 0)
    BY <1>2 DEF executeOracleUpdate
  <2>7. r = Result(Pricing!Fold(s, tx.prices), 0)
    BY <2>5, <2>6
  <2> HIDE DEF r
  <2>8. r.state = Pricing!Fold(s, tx.prices) /\ r.code = 0
    BY <2>7 DEF Result
  <2>9. QED
    BY <2>4, <2>8 DEF r
<1>3. QED
  BY <1>1, <1>2

(* Which of them a transaction is given to. *)
LEMMA ByType ==
  ASSUME NEW s, NEW tx \in Transactions
  PROVE  /\ tx.type \in {"deposit", "withdraw", "limit_order", "oracle_update", "junk"}
         /\ tx.type = "deposit" => executeTx(s, tx) = executeDeposit(s, tx)
         /\ tx.type = "withdraw" => executeTx(s, tx) = executeWithdraw(s, tx)
         /\ tx.type = "limit_order" => executeTx(s, tx) = executeLimitOrder(s, tx)
         /\ tx.type = "oracle_update" => executeTx(s, tx) = executeOracleUpdate(s, tx)
         /\ tx.type = "junk" => executeTx(s, tx) = Result(s, 1)
<1>1. tx.type \in {"deposit", "withdraw", "limit_order", "oracle_update", "junk"}
  BY DEF Transactions
<1>2. QED
  BY <1>1 DEF executeTx

(* No transaction writes to an absent account. *)
LEMMA TxEffect ==
  ASSUME NEW s \in States, NEW tx \in Transactions
  PROVE  LET r == executeTx(s, tx) IN
         r.state \in States /\ r.state.height = s.height /\ r.code \in 0 .. 2
<1>1. CASE tx.type = "deposit"
  BY <1>1, ByType, DepositEffect
<1>2. CASE tx.type = "withdraw"
  BY <1>2, ByType, WithdrawEffect
<1>3. CASE tx.type = "limit_order"
  <2> DEFINE r == executeLimitOrder(s, tx)
  <2>1. r.state \in States /\ r.state.height = s.height /\ r.code \in 0 .. 2
    BY <1>3, OrderEffect
  <2>2. executeTx(s, tx) = r
    BY <1>3, ByType
  <2> HIDE DEF r
  <2>3. QED
    BY <2>1, <2>2
<1>4. CASE tx.type = "oracle_update"
  BY <1>4, ByType, OracleEffect
<1>5. CASE tx.type = "junk"
  BY <1>5, ByType DEF Result
<1>6. QED
  BY <1>1, <1>2, <1>3, <1>4, <1>5, ByType

(* The length checks of the mempool's gate and of the execution, type by     *)
(* type: on any state the code of a transaction fits the gate.               *)
LEMMA GateFits ==
  ASSUME NEW s, NEW tx \in Transactions
  PROVE  FitsGate(tx, executeTx(s, tx).code)
<1>1. CASE tx.type = "deposit"
  <2>1. executeDeposit(s, tx).code = IF tx.size < 30 \/ tx.amount = 0 THEN 1 ELSE 0
    BY DEF executeDeposit, Result
  <2>2. executeTx(s, tx) = executeDeposit(s, tx)
    BY <1>1, ByType
  <2>3. QED
    BY <1>1, <2>1, <2>2 DEF FitsGate, CheckTx
<1>2. CASE tx.type = "withdraw"
  <2>1. /\ executeWithdraw(s, tx).code = 1 <=> tx.size < 30 \/ tx.amount = 0
        /\ executeWithdraw(s, tx).code \in 0 .. 2
    BY DEF executeWithdraw, Result
  <2>2. executeTx(s, tx) = executeWithdraw(s, tx)
    BY <1>2, ByType
  <2>3. executeWithdraw(s, tx).code = 0 => ~(tx.size < 30)
    BY DEF executeWithdraw, Result
  <2>4. QED
    BY <1>2, <2>1, <2>2, <2>3 DEF FitsGate, CheckTx
<1>3. CASE tx.type = "limit_order"
  <2>1. executeLimitOrder(s, tx).code = 1 => tx.size < 38 \/ tx.amount = 0 \/ tx.price = 0
    BY DEF executeLimitOrder, Result
  <2>2. executeLimitOrder(s, tx).code = 0 => ~(tx.size < 38)
    BY DEF executeLimitOrder, Result
  <2>3. executeTx(s, tx) = executeLimitOrder(s, tx)
    BY <1>3, ByType
  <2>4. QED
    BY <1>3, <2>1, <2>2, <2>3 DEF FitsGate, CheckTx
<1>4. CASE tx.type = "oracle_update"
  BY <1>4 DEF FitsGate, CheckTx, IsOracle
<1>5. CASE tx.type = "junk"
  <2>1. executeTx(s, tx).code = 1
    BY <1>5, ByType DEF Result
  <2>2. QED
    BY <1>5, <2>1 DEF FitsGate, CheckTx
<1>6. QED
  BY <1>1, <1>2, <1>3, <1>4, <1>5, ByType

-----------------------------------------------------------------------------
(* Funds. *)

Books == [Accounts -> [Denoms -> [paidIn : Nat, paidOut : Nat]]]
Locks == [Accounts -> [Denoms -> Nat]]

(* FundsConserved, for any state and books: bal and locked are those of one  *)
(* account and denomination, which has wrapped around some times.            *)
Adds(bal, locked, wraps, entry) == bal + locked + wraps * 2^Width = entry.paidIn - entry.paidOut

Conserved(s, b) ==
    \A a \in Accounts, d \in Denoms : Plain(d) =>
        \E wraps \in Nat : Adds(Balance(s, a, d), Locked(s.orders)[a][d], wraps, b[a][d])

(* A sum below twice the modulus is reduced by it once or not at all. *)
LEMMA WrapOnce ==
  ASSUME NEW m \in Nat \ {0}, NEW x \in Nat, x < m + m
  PROVE  x % m = x \/ x % m = x - m
<1>1. CASE x < m
  BY <1>1, SmallMod
<1>2. CASE ~(x < m)
  <2>1. x - m \in 0 .. m - 1
    BY <1>2
  <2>2. x % m = x - m
    BY <2>1
  <2>3. QED
    BY <2>2
<1>3. QED
  BY <1>1, <1>2

(* Multiples of a modulus. *)
LEMMA Multiples ==
  ASSUME NEW m \in Nat \ {0}, NEW q \in Nat
  PROVE  /\ q * m \in Nat /\ (q + 1) * m = q * m + m /\ q <= q * m
<1>1. q * m \in Nat /\ (q + 1) * m = q * m + m
  OBVIOUS
<1>2. q <= q * m
  <2>1. m >= 1
    OBVIOUS
  <2>2. q * (m - 1) \in Nat
    BY <2>1
  <2>3. q * m = q + q * (m - 1)
    OBVIOUS
  <2>4. QED
    BY <1>1, <2>2, <2>3
<1>3. QED
  BY <1>1, <1>2

(* Locking an order adds to one entry. *)
LEMMA LockEffect ==
  ASSUME NEW l \in Locks, NEW o \in Orders
  PROVE  /\ Lock(l, o) \in Locks /\ pairBase(o.pair) \in Denoms
         /\ \A a \in Accounts, d \in Denoms :
              Lock(l, o)[a][d] = IF a = o.owner /\ d = pairBase(o.pair)
                                   THEN l[a][d] + o.amount ELSE l[a][d]
<1>1. o.owner \in Accounts /\ o.amount \in Nat /\ o.pair \in Seq(Denoms) /\ o.pair # <<>>
  BY AmountFacts DEF Orders
<1>2. pairBase(o.pair) \in Denoms
  BY <1>1 DEF pairBase
<1> DEFINE d0 == pairBase(o.pair)
<1>3. Lock(l, o) = [l EXCEPT ![o.owner] = [l[o.owner] EXCEPT ![d0] = l[o.owner][d0] + o.amount]]
  BY <1>1, <1>2 DEF Lock, Locks
<1> HIDE DEF d0
<1>4. d0 \in Denoms
  BY <1>2 DEF d0
<1>5. l[o.owner] \in [Denoms -> Nat] /\ l[o.owner][d0] + o.amount \in Nat
  BY <1>1, <1>4 DEF Locks
<1>6. [l[o.owner] EXCEPT ![d0] = l[o.owner][d0] + o.amount] \in [Denoms -> Nat]
  BY <1>4, <1>5
<1>7. Lock(l, o) \in Locks
  BY <1>1, <1>3, <1>6 DEF Locks
<1>8. ASSUME NEW a \in Accounts, NEW d \in Denoms
      PROVE  Lock(l, o)[a][d] = IF a = o.owner /\ d = d0 THEN l[a][d] + o.amount ELSE l[a][d]
  BY <1>1, <1>3, <1>4, <1>5 DEF Locks
<1>9. QED
  BY <1>2, <1>7, <1>8 DEF d0

(* Nothing locked, and one order more. *)
LEMMA LockedFacts ==
  /\ Locked(<<>>) = NoLocks
  /\ \A orders \in Seq(Orders) :
       /\ Locked(orders) \in Locks
       /\ \A o \in Orders : Locked(Append(orders, o)) = Lock(Locked(orders), o)
<1>1. \A orders : Locked(orders) = Locking!Fold(NoLocks, orders)
  BY FoldNames DEF Locked
<1>2. Locked(<<>>) = NoLocks
  BY <1>1, Locking!FoldEmpty
<1>3. NoLocks \in Locks
  BY DEF NoLocks, Locks
<1>4. \A l \in Locks, o \in Orders : Lock(l, o) \in Locks
  BY LockEffect
<1>5. ASSUME NEW orders \in Seq(Orders)
      PROVE  Locked(orders) \in Locks
  <2>1. Locking!Fold(NoLocks, orders) \in Locks
    BY <1>3, <1>4, Locking!FoldWithin
  <2>2. QED
    BY <1>1, <2>1
<1>6. ASSUME NEW orders \in Seq(Orders), NEW o \in Orders
      PROVE  Locked(Append(orders, o)) = Lock(Locked(orders), o)
  <2>1. Locking!Fold(NoLocks, Append(orders, o)) = Lock(Locking!Fold(NoLocks, orders), o)
    BY Locking!FoldAppend
  <2>2. QED
    BY <1>1, <2>1
<1>7. QED
  BY <1>2, <1>5, <1>6

(* A reported deposit adds to one entry of the books. *)
LEMMA BookIn ==
  ASSUME NEW b \in Books, NEW a0 \in Accounts, NEW d0 \in Denoms, NEW n \in Nat
  PROVE  LET c == [b EXCEPT ![a0][d0].paidIn = @ + n] IN
         /\ c \in Books
         /\ \A a \in Accounts, d \in Denoms :
              /\ c[a][d].paidOut = b[a][d].paidOut
              /\ c[a][d].paidIn = IF a = a0 /\ d = d0 THEN b[a][d].paidIn + n ELSE b[a][d].paidIn
BY DEF Books

(* A reported withdrawal adds to one entry of the books. *)
LEMMA BookOut ==
  ASSUME NEW b \in Books, NEW a0 \in Accounts, NEW d0 \in Denoms, NEW n \in Nat
  PROVE  LET c == [b EXCEPT ![a0][d0].paidOut = @ + n] IN
         /\ c \in Books
         /\ \A a \in Accounts, d \in Denoms :
              /\ c[a][d].paidIn = b[a][d].paidIn
              /\ c[a][d].paidOut = IF a = a0 /\ d = d0 THEN b[a][d].paidOut + n ELSE b[a][d].paidOut
BY DEF Books

(* Outcomes that the gate of the mempool agrees with. *)
Outcomes == {o \in [tx : Transactions, code : 0 .. 2] : FitsGate(o.tx, o.code)}

(* What the books take from an outcome. *)
LEMMA BookCases ==
  ASSUME NEW b \in Books, NEW o \in Outcomes
  PROVE  /\ o.code = 0 /\ o.tx.type \in {"deposit", "withdraw"} =>
              o.tx.addr \in Accounts /\ o.tx.denom \in Denoms /\ o.tx.amount \in Nat
         /\ o.code = 0 /\ o.tx.type = "deposit" =>
              Book(b, o) = [b EXCEPT ![o.tx.addr][o.tx.denom].paidIn = @ + o.tx.amount]
         /\ o.code = 0 /\ o.tx.type = "withdraw" =>
              Book(b, o) = [b EXCEPT ![o.tx.addr][o.tx.denom].paidOut = @ + o.tx.amount]
         /\ o.code # 0 \/ o.tx.type \notin {"deposit", "withdraw"} => Book(b, o) = b
         /\ Book(b, o) \in Books
<1>1. o.tx \in Transactions
  BY DEF Outcomes
<1>2. CASE o.code = 0 /\ o.tx.type \in {"deposit", "withdraw"}
  <2>1. o.tx.addr \in Accounts /\ o.tx.denom \in Denoms /\ o.tx.amount \in Nat
    BY <1>1, <1>2, FundsTx, AmountFacts
  <2>2. CASE o.tx.type = "deposit"
    <3>1. Book(b, o) = [b EXCEPT ![o.tx.addr][o.tx.denom].paidIn = @ + o.tx.amount]
      BY <1>2, <2>2 DEF Book
    <3>2. [b EXCEPT ![o.tx.addr][o.tx.denom].paidIn = @ + o.tx.amount] \in Books
      BY <2>1, BookIn
    <3>3. QED
      BY <1>2, <2>1, <2>2, <3>1, <3>2
  <2>3. CASE o.tx.type = "withdraw"
    <3>1. Book(b, o) = [b EXCEPT ![o.tx.addr][o.tx.denom].paidOut = @ + o.tx.amount]
      BY <1>2, <2>3 DEF Book
    <3>2. [b EXCEPT ![o.tx.addr][o.tx.denom].paidOut = @ + o.tx.amount] \in Books
      BY <2>1, BookOut
    <3>3. QED
      BY <1>2, <2>1, <2>3, <3>1, <3>2
  <2>4. QED
    BY <1>2, <2>2, <2>3
<1>3. CASE ~(o.code = 0 /\ o.tx.type \in {"deposit", "withdraw"})
  <2>1. Book(b, o) = b
    BY <1>3 DEF Book
  <2>2. QED
    BY <1>3, <2>1
<1>4. QED
  BY <1>2, <1>3

(* The books of no outcomes, and of one outcome more. *)
LEMMA BookedFacts ==
  ASSUME NEW b \in Books
  PROVE  /\ Booked(b, <<>>) = b
         /\ \A outs \in Seq(Outcomes) :
              /\ Booked(b, outs) \in Books
              /\ \A o \in Outcomes : Booked(b, Append(outs, o)) = Book(Booked(b, outs), o)
<1>1. \A outs : Booked(b, outs) = Booking!Fold(b, outs)
  BY FoldNames DEF Booked
<1>2. Booked(b, <<>>) = b
  BY <1>1, Booking!FoldEmpty
<1>3. \A c \in Books, o \in Outcomes : Book(c, o) \in Books
  BY BookCases
<1>4. ASSUME NEW outs \in Seq(Outcomes)
      PROVE  Booked(b, outs) \in Books
  <2>1. Booking!Fold(b, outs) \in Books
    BY <1>3, Booking!FoldWithin
  <2>2. QED
    BY <1>1, <2>1
<1>5. ASSUME NEW outs \in Seq(Outcomes), NEW o \in Outcomes
      PROVE  Booked(b, Append(outs, o)) = Book(Booked(b, outs), o)
  <2>1. Booking!Fold(b, Append(outs, o)) = Book(Booking!Fold(b, outs), o)
    BY Booking!FoldAppend
  <2>2. QED
    BY <1>1, <2>1
<1>6. QED
  BY <1>2, <1>4, <1>5

(* The outcome of a transaction. *)
LEMMA OutcomeTyped ==
  ASSUME NEW s \in States, NEW tx \in Transactions
  PROVE  [tx |-> tx, code |-> executeTx(s, tx).code] \in Outcomes
<1> DEFINE c == executeTx(s, tx).code
<1>1. c \in 0 .. 2 /\ FitsGate(tx, c)
  BY TxEffect, GateFits
<1> HIDE DEF c
<1>2. [tx |-> tx, code |-> c] \in Outcomes
  BY <1>1 DEF Outcomes
<1>3. QED
  BY <1>2 DEF c

(* A state that has the same of every plain denomination, in balances and    *)
(* locked, has the same funds.                                               *)
LEMMA SameFunds ==
  ASSUME NEW s, NEW t, NEW b, Conserved(s, b),
         \A a \in Accounts, d \in Denoms : Plain(d) =>
            /\ Balance(t, a, d) = Balance(s, a, d)
            /\ Locked(t.orders)[a][d] = Locked(s.orders)[a][d]
  PROVE  Conserved(t, b)
BY DEF Conserved

(* A transaction and its outcome conserve funds. *)
LEMMA ConserveStep ==
  ASSUME NEW s \in States, NEW b \in Books, Conserved(s, b), NEW tx \in Transactions
  PROVE  LET r == executeTx(s, tx) IN
         Conserved(r.state, Book(b, [tx |-> tx, code |-> r.code]))
<1> DEFINE r == executeTx(s, tx)
           t == r.state
           o == [tx |-> tx, code |-> r.code]
           c == Book(b, o)
           L == Locked(s.orders)
<1>1. o \in Outcomes /\ o.tx = tx /\ o.code = r.code
  BY OutcomeTyped
<1>2. /\ L \in Locks
      /\ \A a \in Accounts, d \in Denoms : L[a][d] \in Nat
  <2>1. s.orders \in Seq(Orders)
    BY DEF States
  <2>2. L \in Locks
    BY <2>1, LockedFacts
  <2> HIDE DEF L
  <2>3. QED
    BY <2>2 DEF Locks
<1>3. \A a, d : Balance(s, a, d) \in Amounts /\ Balance(s, a, d) \in Nat
  BY BalanceTyped, AmountFacts
<1>4. \A a \in Accounts, d \in Denoms : b[a][d].paidIn \in Nat /\ b[a][d].paidOut \in Nat
  BY DEF Books
<1>5. \A a \in Accounts, d \in Denoms : Plain(d) =>
        \E wraps \in Nat : Adds(Balance(s, a, d), L[a][d], wraps, b[a][d])
  BY DEF Conserved
<1>6. 2^Width \in Nat \ {0}
  BY AmountFacts
<1>7. CASE tx.type = "deposit" /\ r.code = 0
  <2>1. r = executeDeposit(s, tx)
    BY <1>7, ByType
  <2>2. /\ tx.addr \in Accounts /\ tx.denom \in Denoms /\ tx.amount \in Nat
        /\ c = [b EXCEPT ![tx.addr][tx.denom].paidIn = @ + tx.amount]
    BY <1>1, <1>7, BookCases
  <2>3. t.orders = s.orders /\ Elsewhere(s, t, tx.addr, tx.denom)
    BY <1>7, <2>1, DepositEffect
  <2>4. Balance(t, tx.addr, tx.denom) = (Balance(s, tx.addr, tx.denom) + tx.amount) % 2^Width
    BY <1>7, <2>1, DepositEffect
  <2> HIDE DEF r, t, o, c, L
  <2>5. \A a \in Accounts, d \in Denoms :
          /\ c[a][d].paidOut = b[a][d].paidOut
          /\ c[a][d].paidIn = IF a = tx.addr /\ d = tx.denom
                                THEN b[a][d].paidIn + tx.amount ELSE b[a][d].paidIn
    BY <2>2 DEF Books
  <2>6. ASSUME NEW a \in Accounts, NEW d \in Denoms, Plain(d)
        PROVE  \E wraps \in Nat : Adds(Balance(t, a, d), L[a][d], wraps, c[a][d])
    <3> DEFINE W == 2^Width
    <3>1. PICK q \in Nat : Adds(Balance(s, a, d), L[a][d], q, b[a][d])
      BY <1>5, <2>6
    <3>2. CASE a = tx.addr /\ d = tx.denom
      <4>1. c[a][d].paidIn = b[a][d].paidIn + tx.amount /\ c[a][d].paidOut = b[a][d].paidOut
        BY <2>5, <3>2
      <4>2. W \in Nat \ {0} /\ Balance(s, a, d) < W /\ tx.amount < W
        <5>1. tx.amount \in Amounts /\ Balance(s, a, d) \in Amounts
          BY <1>3, <1>7, FundsTx
        <5>2. QED
          BY <1>6, <5>1, AmountFacts
      <4>3. Balance(t, a, d) = (Balance(s, a, d) + tx.amount) % W
        BY <2>4, <3>2
      <4>4. Balance(s, a, d) + L[a][d] + q * W = b[a][d].paidIn - b[a][d].paidOut
        BY <3>1 DEF Adds
      <4> HIDE DEF W
      <4>5. q * W \in Nat /\ (q + 1) * W = q * W + W
        BY <4>2, Multiples
      <4>6. /\ Balance(s, a, d) + tx.amount \in Nat
            /\ Balance(s, a, d) + tx.amount < W + W
        BY <1>3, <2>2, <4>2
      <4>7. \/ Balance(t, a, d) = Balance(s, a, d) + tx.amount
            \/ Balance(t, a, d) = (Balance(s, a, d) + tx.amount) - W
        <5> DEFINE x == Balance(s, a, d) + tx.amount
        <5>1. x \in Nat /\ x < W + W /\ Balance(t, a, d) = x % W
          BY <4>3, <4>6
        <5> HIDE DEF x
        <5>2. x % W = x \/ x % W = x - W
          BY <4>2, <5>1, WrapOnce
        <5>3. Balance(t, a, d) = x \/ Balance(t, a, d) = x - W
          BY <5>1, <5>2, Zenon
        <5>4. QED
          BY <5>3 DEF x
      <4>8. CASE Balance(t, a, d) = Balance(s, a, d) + tx.amount
        <5>1. Balance(t, a, d) + L[a][d] + q * W = c[a][d].paidIn - c[a][d].paidOut
          BY <1>2, <1>3, <1>4, <2>2, <4>1, <4>4, <4>5, <4>8
        <5>2. QED
          BY <5>1 DEF Adds, W
      <4>9. CASE Balance(t, a, d) = (Balance(s, a, d) + tx.amount) - W
        <5>1. Balance(t, a, d) + L[a][d] + (q + 1) * W = c[a][d].paidIn - c[a][d].paidOut
          <6> DEFINE old == q * W
                     new == (q + 1) * W
          <6>1. old \in Nat /\ new = old + W
            BY <4>5
          <6>2. Balance(s, a, d) + L[a][d] + old = b[a][d].paidIn - b[a][d].paidOut
            BY <4>4
          <6> HIDE DEF old, new
          <6>3. L[a][d] \in Nat /\ Balance(s, a, d) \in Nat /\ tx.amount \in Nat /\ W \in Nat
            BY <1>2, <1>3, <2>2, <4>2
          <6>4. b[a][d].paidIn \in Nat /\ b[a][d].paidOut \in Nat
            BY <1>4
          <6>5. Balance(t, a, d) + L[a][d] + new = c[a][d].paidIn - c[a][d].paidOut
            BY <4>1, <4>9, <6>1, <6>2, <6>3, <6>4
          <6>6. QED
            BY <6>5 DEF new
        <5>2. q + 1 \in Nat
          OBVIOUS
        <5>3. QED
          BY <5>1, <5>2 DEF Adds, W
      <4>10. QED
        BY <4>7, <4>8, <4>9
    <3>3. CASE ~(a = tx.addr /\ d = tx.denom)
      <4>1. Balance(t, a, d) = Balance(s, a, d)
        BY <2>3, <3>3 DEF Elsewhere
      <4>2. c[a][d].paidIn = b[a][d].paidIn /\ c[a][d].paidOut = b[a][d].paidOut
        BY <2>5, <3>3
      <4>3. QED
        BY <3>1, <4>1, <4>2 DEF Adds
    <3>4. QED
      BY <3>2, <3>3
  <2>7. L = Locked(t.orders)
    BY <2>3 DEF L
  <2>8. Conserved(t, c)
    BY <2>6, <2>7 DEF Conserved
  <2>9. QED
    BY <2>8 DEF c, o, t, r
<1>8. CASE tx.type = "withdraw" /\ r.code = 0
  <2>1. r = executeWithdraw(s, tx)
    BY <1>8, ByType
  <2>2. /\ tx.addr \in Accounts /\ tx.denom \in Denoms /\ tx.amount \in Nat
        /\ c = [b EXCEPT ![tx.addr][tx.denom].paidOut = @ + tx.amount]
    BY <1>1, <1>8, BookCases
  <2>3. t.orders = s.orders /\ Elsewhere(s, t, tx.addr, tx.denom)
    BY <1>8, <2>1, WithdrawEffect
  <2>4. Balance(t, tx.addr, tx.denom) = Balance(s, tx.addr, tx.denom) - tx.amount
    BY <1>8, <2>1, WithdrawEffect
  <2> HIDE DEF r, t, o, c, L
  <2>5. \A a \in Accounts, d \in Denoms :
          /\ c[a][d].paidIn = b[a][d].paidIn
          /\ c[a][d].paidOut = IF a = tx.addr /\ d = tx.denom
                                 THEN b[a][d].paidOut + tx.amount ELSE b[a][d].paidOut
    BY <2>2 DEF Books
  <2>6. ASSUME NEW a \in Accounts, NEW d \in Denoms, Plain(d)
        PROVE  \E wraps \in Nat : Adds(Balance(t, a, d), L[a][d], wraps, c[a][d])
    <3>1. PICK q \in Nat : Adds(Balance(s, a, d), L[a][d], q, b[a][d])
      BY <1>5, <2>6
    <3>2. q * 2^Width \in Nat
      BY <1>6, Multiples
    <3>3. c[a][d].paidIn = b[a][d].paidIn
      BY <2>5
    <3>4. CASE a = tx.addr /\ d = tx.denom
      <4>1. /\ c[a][d].paidOut = b[a][d].paidOut + tx.amount
            /\ Balance(t, a, d) = Balance(s, a, d) - tx.amount
        BY <2>4, <2>5, <3>4
      <4>2. Adds(Balance(t, a, d), L[a][d], q, c[a][d])
        BY <1>2, <1>3, <1>4, <2>2, <3>1, <3>2, <3>3, <4>1 DEF Adds
      <4>3. QED
        BY <4>2
    <3>5. CASE ~(a = tx.addr /\ d = tx.denom)
      <4>1. Balance(t, a, d) = Balance(s, a, d)
        BY <2>3, <3>5 DEF Elsewhere
      <4>2. c[a][d].paidOut = b[a][d].paidOut
        BY <2>5, <3>5
      <4>3. QED
        BY <3>1, <3>3, <4>1, <4>2 DEF Adds
    <3>6. QED
      BY <3>4, <3>5
  <2>7. L = Locked(t.orders)
    BY <2>3 DEF L
  <2>8. Conserved(t, c)
    BY <2>6, <2>7 DEF Conserved
  <2>9. QED
    BY <2>8 DEF c, o, t, r
<1>9. CASE tx.type = "limit_order" /\ r.code = 0
  <2> DEFINE base == pairBase(tx.pair)
             new == [owner |-> tx.addr, pair |-> tx.pair, amount |-> tx.amount, price |-> tx.price]
  <2>1. r = executeLimitOrder(s, tx)
    BY <1>9, ByType
  <2>2. c = b
    BY <1>1, <1>9, BookCases
  <2>3. new \in Orders /\ t.orders = Append(s.orders, new) /\ base \in Denoms
    BY <1>9, <2>1, OrderEffect
  <2>4. /\ Balance(t, tx.addr, base) = Balance(s, tx.addr, base) - tx.amount
        /\ Elsewhere(s, t, tx.addr, base)
    BY <1>9, <2>1, OrderEffect
  <2>5. tx.amount \in Nat
    BY <1>9, OrderTx, AmountFacts
  <2>6. new.owner = tx.addr /\ new.amount = tx.amount /\ pairBase(new.pair) = base
    OBVIOUS
  <2> HIDE DEF r, t, o, c, base, new
  <2>7. Locked(t.orders) = Lock(L, new)
    <3>1. s.orders \in Seq(Orders)
      BY DEF States
    <3>2. Locked(Append(s.orders, new)) = Lock(L, new)
      BY <2>3, <3>1, LockedFacts
    <3>3. QED
      BY <2>3, <3>2
  <2> HIDE DEF L
  <2>8. \A a \in Accounts, d \in Denoms :
          Lock(L, new)[a][d] = IF a = tx.addr /\ d = base THEN L[a][d] + tx.amount ELSE L[a][d]
    BY <1>2, <2>3, <2>6, LockEffect
  <2>9. ASSUME NEW a \in Accounts, NEW d \in Denoms, Plain(d)
        PROVE  \E wraps \in Nat : Adds(Balance(t, a, d), Lock(L, new)[a][d], wraps, b[a][d])
    <3>1. PICK q \in Nat : Adds(Balance(s, a, d), L[a][d], q, b[a][d])
      BY <1>5, <2>9
    <3>2. q * 2^Width \in Nat
      BY <1>6, Multiples
    <3>3. CASE a = tx.addr /\ d = base
      <4>1. /\ Lock(L, new)[a][d] = L[a][d] + tx.amount
            /\ Balance(t, a, d) = Balance(s, a, d) - tx.amount
        BY <2>4, <2>8, <3>3
      <4>2. Balance(t, a, d) + Lock(L, new)[a][d] = Balance(s, a, d) + L[a][d]
        BY <1>2, <1>3, <2>5, <4>1
      <4>3. Adds(Balance(t, a, d), Lock(L, new)[a][d], q, b[a][d])
        BY <3>1, <4>2 DEF Adds
      <4>4. QED
        BY <4>3
    <3>4. CASE ~(a = tx.addr /\ d = base)
      <4>1. Balance(t, a, d) = Balance(s, a, d)
        BY <2>4, <3>4 DEF Elsewhere
      <4>2. Lock(L, new)[a][d] = L[a][d]
        BY <2>8, <3>4
      <4>3. QED
        BY <3>1, <4>1, <4>2
    <3>5. QED
      BY <3>3, <3>4
  <2>10. Conserved(t, c)
    BY <2>2, <2>7, <2>9 DEF Conserved
  <2>11. QED
    BY <2>10 DEF c, o, t, r
<1>10. CASE r.code # 0 \/ tx.type \in {"oracle_update", "junk"}
  <2>1. c = b
    BY <1>1, <1>10, BookCases
  <2>2. t.orders = s.orders /\ \A x, y : Balance(t, x, y) = Balance(s, x, y)
    <3>1. CASE tx.type = "deposit"
      BY <1>10, <3>1, ByType, DepositEffect
    <3>2. CASE tx.type = "withdraw"
      BY <1>10, <3>2, ByType, WithdrawEffect
    <3>3. CASE tx.type = "limit_order"
      <4> DEFINE e == executeLimitOrder(s, tx)
      <4>1. e.code # 0 => e.state = s
        BY <3>3, OrderEffect
      <4>2. r = e /\ r.code # 0
        BY <1>10, <3>3, ByType
      <4> HIDE DEF e
      <4>3. t = s
        BY <4>1, <4>2
      <4>4. QED
        BY <4>3
    <3>4. CASE tx.type = "oracle_update"
      BY <3>4, ByType, OracleEffect DEF Balance
    <3>5. CASE tx.type = "junk"
      BY <3>5, ByType DEF Result
    <3>6. QED
      BY <3>1, <3>2, <3>3, <3>4, <3>5, ByType
  <2> HIDE DEF r, t, o, c
  <2>3. Conserved(t, c)
    BY <2>1, <2>2, SameFunds
  <2>4. QED
    BY <2>3 DEF c, o, t, r
<1>11. QED
  BY <1>7, <1>8, <1>9, <1>10, ByType

-----------------------------------------------------------------------------
(* Blocks. *)

(* The copy that a block starts from. *)
LEMMA StartEffect ==
  ASSUME NEW s \in States, NEW h \in Nat
  PROVE  LET t == [clone(s) EXCEPT !.height = h] IN
         /\ t \in States /\ t.height = h /\ t.orders = s.orders
         /\ \A a, d : Balance(t, a, d) = Balance(s, a, d)
<1> DEFINE t == [clone(s) EXCEPT !.height = h]
<1>1. t \in States /\ t.height = h /\ t.orders = s.orders /\ t.balances = s.balances
  BY DEF clone, States
<1> HIDE DEF t
<1>2. \A a, d : Balance(t, a, d) = Balance(s, a, d)
  BY <1>1 DEF Balance
<1>3. QED
  BY <1>1, <1>2 DEF t

(* A block keeps to the types, takes the height and conserves funds. *)
LEMMA BlockEffect ==
  ASSUME NEW s \in States, NEW h \in Nat, NEW txs \in Seq(Transactions),
         NEW b \in Books, Conserved(s, b)
  PROVE  LET done == RunBlock(s, h, txs) IN
         /\ done.state \in States /\ done.state.height = h
         /\ done.outcomes \in Seq(Outcomes)
         /\ Booked(b, done.outcomes) \in Books
         /\ Conserved(done.state, Booked(b, done.outcomes))
<1> DEFINE start == [clone(s) EXCEPT !.height = h]
           base == [state |-> start, outcomes |-> <<>>]
           Right(acc) == /\ acc.state.height = h
                         /\ Conserved(acc.state, Booked(b, acc.outcomes))
           S == {acc \in [state : States, outcomes : Seq(Outcomes)] : Right(acc)}
<1>1. /\ start \in States /\ start.height = h /\ start.orders = s.orders
      /\ \A a, d : Balance(start, a, d) = Balance(s, a, d)
  BY StartEffect
<1> HIDE DEF start
<1>2. base \in S
  <2>1. <<>> \in Seq(Outcomes)
    OBVIOUS
  <2>2. base.state = start /\ base.outcomes = <<>>
    OBVIOUS
  <2>3. Conserved(start, Booked(b, <<>>))
    BY <1>1, BookedFacts, SameFunds
  <2>4. base \in [state : States, outcomes : Seq(Outcomes)]
    BY <1>1, <2>1
  <2> HIDE DEF base
  <2>5. QED
    BY <1>1, <2>2, <2>3, <2>4
<1>3. ASSUME NEW acc \in S, NEW tx \in Transactions PROVE ApplyTx(acc, tx) \in S
  <2> DEFINE r == executeTx(acc.state, tx)
             o == [tx |-> tx, code |-> r.code]
             outs == Append(acc.outcomes, o)
             new == ApplyTx(acc, tx)
  <2>1. /\ acc.state \in States /\ acc.outcomes \in Seq(Outcomes)
        /\ acc.state.height = h
        /\ Conserved(acc.state, Booked(b, acc.outcomes))
    OBVIOUS
  <2>2. new = [state |-> r.state, outcomes |-> outs]
    BY DEF ApplyTx
  <2>3. r.state \in States /\ r.state.height = h
    BY <2>1, TxEffect
  <2>4. o \in Outcomes
    BY <2>1, OutcomeTyped
  <2>5. Booked(b, acc.outcomes) \in Books
    BY <2>1, BookedFacts
  <2>6. Conserved(r.state, Book(Booked(b, acc.outcomes), o))
    BY <2>1, <2>5, ConserveStep
  <2> HIDE DEF r, o
  <2>7. Booked(b, outs) = Book(Booked(b, acc.outcomes), o)
    BY <2>1, <2>4, BookedFacts
  <2>8. outs \in Seq(Outcomes)
    BY <2>1, <2>4
  <2> HIDE DEF outs
  <2>9. /\ new.state = r.state /\ new.outcomes = outs
        /\ new \in [state : States, outcomes : Seq(Outcomes)]
    BY <2>2, <2>3, <2>8
  <2>10. Conserved(new.state, Booked(b, new.outcomes))
    BY <2>6, <2>7, <2>9
  <2> HIDE DEF new
  <2>11. Right(new)
    BY <2>3, <2>9, <2>10
  <2>12. QED
    BY <2>9, <2>11 DEF new
<1>4. RunBlock(s, h, txs) = Running!Fold(base, txs)
  <2>1. FoldLeft(ApplyTx, base, txs) = Running!Fold(base, txs)
    BY FoldNames
  <2>2. RunBlock(s, h, txs) = FoldLeft(ApplyTx, base, txs)
    BY DEF RunBlock, start
  <2>3. QED
    BY <2>1, <2>2
<1>5. Running!Fold(base, txs) \in S
  <2> HIDE DEF S, base
  <2>1. QED
    BY <1>2, <1>3, Running!FoldWithin
<1>6. RunBlock(s, h, txs) \in S
  BY <1>4, <1>5
<1> DEFINE done == RunBlock(s, h, txs)
<1> HIDE DEF done
<1>7. /\ done.state \in States /\ done.outcomes \in Seq(Outcomes)
      /\ done.state.height = h
      /\ Conserved(done.state, Booked(b, done.outcomes))
  BY <1>6 DEF done
<1>8. Booked(b, done.outcomes) \in Books
  BY <1>7, BookedFacts
<1>9. QED
  BY <1>7, <1>8 DEF done

(* The state that every chain starts from. *)
LEMMA NewStateFacts ==
  newState \in States /\ newState.height = 0 /\ NoBooks \in Books /\ Conserved(newState, NoBooks)
<1>1. <<>> \in Balances /\ <<>> \in PriceMap /\ DOMAIN <<>> = {}
  <2>1. <<>> \in Balances /\ <<>> \in Maps(GoodPairs, GoodPrices) /\ DOMAIN <<>> = {}
    BY MapEmpty DEF Balances
  <2>2. IsFiniteSet(DOMAIN <<>>)
    BY <2>1, FS_EmptySet
  <2>3. QED
    BY <2>1, <2>2 DEF PriceMap
<1>2. <<>> \in Seq(Orders)
  OBVIOUS
<1>3. newState \in States /\ newState.height = 0
  BY <1>1, <1>2 DEF newState, States
<1>4. NoBooks \in Books
  BY DEF NoBooks, Books
<1>5. ASSUME NEW a \in Accounts, NEW d \in Denoms
      PROVE  Adds(Balance(newState, a, d), Locked(newState.orders)[a][d], 0, NoBooks[a][d])
  <2>1. Balance(newState, a, d) = 0
    BY <1>1 DEF Balance, newState
  <2>2. newState.orders = <<>>
    BY DEF newState
  <2>3. Locked(newState.orders)[a][d] = 0
    BY <2>2, LockedFacts DEF NoLocks
  <2>4. NoBooks[a][d].paidIn = 0 /\ NoBooks[a][d].paidOut = 0
    BY DEF NoBooks
  <2>5. 2^Width \in Nat
    BY AmountFacts
  <2>6. QED
    BY <2>1, <2>3, <2>4, <2>5 DEF Adds
<1>6. QED
  BY <1>3, <1>4, <1>5 DEF Conserved

(* A chain keeps to the types and conserves funds. *)
LEMMA ChainEffect ==
  ASSUME NEW blocks \in Seq(Seq(Transactions))
  PROVE  LET s == AfterChain(blocks) IN
         /\ s.state \in States /\ s.state.height = Len(blocks)
         /\ s.books \in Books /\ Conserved(s.state, s.books)
<1> DEFINE base == [state |-> newState, books |-> NoBooks]
           n == Len(blocks)
           Right(acc, i) == /\ acc.state \in States /\ acc.state.height = i
                            /\ acc.books \in Books /\ Conserved(acc.state, acc.books)
<1>1. n \in Nat /\ \A i \in 1 .. n : blocks[i] \in Seq(Transactions)
  OBVIOUS
<1>2. AfterChain(blocks) = Chaining!Fold(base, blocks)
  BY FoldNames DEF AfterChain
<1>3. PICK f : Chaining!Trace(f, base, blocks, n) /\ Chaining!Fold(base, blocks) = f[n]
  BY Chaining!FoldTrace
<1> DEFINE S == {i \in 0 .. n : Right(f[i], i)}
<1> HIDE DEF n
<1>4. 0 \in S
  <2>1. f[0] = base
    BY <1>3 DEF Chaining!Trace
  <2>2. Right(base, 0)
    BY NewStateFacts
  <2> HIDE DEF Right, base
  <2>3. QED
    BY <1>1, <2>1, <2>2
<1>5. ASSUME NEW i \in 0 .. n - 1, i \in S PROVE i + 1 \in S
  <2> DEFINE acc == f[i]
             done == RunBlock(acc.state, acc.state.height + 1, blocks[i + 1])
  <2>1. i + 1 \in 1 .. n /\ (i + 1) - 1 = i /\ i \in Nat
    BY <1>1
  <2>2. f[i + 1] = ApplyBlock(acc, blocks[i + 1])
    BY <1>3, <2>1 DEF Chaining!Trace
  <2>3. Right(acc, i)
    BY <1>5
  <2>4. f[i + 1] = [state |-> done.state, books |-> Booked(acc.books, done.outcomes)]
    BY <2>2 DEF ApplyBlock
  <2>5. acc.state.height + 1 \in Nat /\ acc.state.height + 1 = i + 1 /\ blocks[i + 1] \in Seq(Transactions)
    BY <1>1, <2>1, <2>3
  <2> HIDE DEF acc
  <2>6. /\ done.state \in States /\ done.state.height = i + 1
        /\ Booked(acc.books, done.outcomes) \in Books
        /\ Conserved(done.state, Booked(acc.books, done.outcomes))
    BY <2>3, <2>5, BlockEffect
  <2> HIDE DEF done
  <2>7. Right(f[i + 1], i + 1)
    BY <2>4, <2>6
  <2> HIDE DEF Right
  <2>8. QED
    BY <1>1, <2>1, <2>7
<1>6. n \in S
  <2> HIDE DEF S
  <2>1. \A i \in 0 .. n : i \in S
    BY <1>1, <1>4, <1>5, Chaining!UpTo
  <2>2. QED
    BY <1>1, <2>1
<1>7. QED
  BY <1>2, <1>3, <1>6 DEF n

-----------------------------------------------------------------------------
(* Snapshots. *)

(* A set of one element as a sequence. *)
LEMMA SetToSeqOne ==
  ASSUME NEW x
  PROVE  SetToSeq({x}) = <<x>>
<1>1. IsFiniteSet({x}) /\ Cardinality({x}) = 1
  BY FS_Singleton
<1>2. SetToSeq({x}) \in [1 .. Cardinality({x}) -> {x}]
  BY <1>1, SetToSeqFacts
<1> DEFINE f == SetToSeq({x})
<1>3. f \in [1 .. 1 -> {x}]
  BY <1>1, <1>2
<1> HIDE DEF f
<1>4. f = <<x>>
  BY <1>3
<1>5. QED
  BY <1>4 DEF f

(* The denominations of a map that become u in its JSON. *)
Renamed(m, u) == {d \in DOMAIN m : utf8[d] = u}

(* The JSON of one account's map. *)
LEMMA MarshalMapFacts ==
  ASSUME NEW m \in Holdings
  PROVE  LET text == MarshalMap(m) IN
         /\ DOMAIN text = {utf8[d] : d \in DOMAIN m} /\ DOMAIN text \subseteq Denoms
         /\ \A u \in DOMAIN text : text[u] \in Seq(Amounts) /\ Len(text[u]) >= 1
         /\ \A u \in DOMAIN text : \A e : Renamed(m, u) = {e} => text[u] = <<m[e]>>
<1> DEFINE text == MarshalMap(m)
           Vals(u) == LET ds == SetToSeq(Renamed(m, u)) IN [i \in DOMAIN ds |-> m[ds[i]]]
<1>1. DOMAIN m \subseteq Denoms /\ \A d \in DOMAIN m : m[d] \in Amounts
  BY MapGet DEF Holdings
<1>2. text = [u \in {utf8[d] : d \in DOMAIN m} |-> Vals(u)]
  BY DEF MarshalMap, Renamed
<1>3. DOMAIN text = {utf8[d] : d \in DOMAIN m} /\ \A u \in DOMAIN text : text[u] = Vals(u)
  BY <1>2
<1>4. DOMAIN text \subseteq Denoms
  BY <1>1, <1>3, DexAssumption
<1> HIDE DEF text
<1>5. ASSUME NEW u \in DOMAIN text
      PROVE  text[u] \in Seq(Amounts) /\ Len(text[u]) >= 1
  <2> DEFINE R == Renamed(m, u)
             ds == SetToSeq(R)
             n == Cardinality(R)
  <2>1. IsFiniteSet(R)
    <3>1. R \subseteq Denoms
      BY <1>1 DEF Renamed
    <3> HIDE DEF R
    <3>2. QED
      BY <3>1, DexAssumption, FS_Subset
  <2>2. R # {} /\ R \subseteq DOMAIN m
    BY <1>3 DEF Renamed
  <2>3. text[u] = [i \in DOMAIN ds |-> m[ds[i]]]
    BY <1>3
  <2> HIDE DEF R
  <2>4. n \in Nat /\ n # 0
    BY <2>1, <2>2, FS_EmptySet, FS_CardinalityType
  <2>5. ds \in [1 .. n -> R]
    BY <2>1, SetToSeqFacts
  <2> HIDE DEF ds, n
  <2>6. text[u] \in [1 .. n -> Amounts]
    BY <1>1, <2>2, <2>3, <2>5
  <2>7. text[u] \in Seq(Amounts) /\ Len(text[u]) = n
    BY <2>4, <2>6
  <2>8. QED
    BY <2>4, <2>7
<1>6. ASSUME NEW u \in DOMAIN text, NEW e, Renamed(m, u) = {e}
      PROVE  text[u] = <<m[e]>>
  <2>1. SetToSeq(Renamed(m, u)) = <<e>>
    BY <1>6, SetToSeqOne
  <2>2. text[u] = [i \in DOMAIN <<e>> |-> m[<<e>>[i]]]
    BY <1>3, <2>1
  <2>3. DOMAIN <<e>> = 1 .. 1 /\ <<e>>[1] = e
    OBVIOUS
  <2>4. [i \in DOMAIN <<e>> |-> m[<<e>>[i]]] = <<m[e]>>
    BY <2>3
  <2>5. QED
    BY <2>2, <2>4
<1>7. QED
  BY <1>3, <1>4, <1>5, <1>6 DEF text

(* One account's map parsed back: a map that has the plain denominations as  *)
(* they were, and the same text unless a key is twice there.                 *)
LEMMA MapRoundTrip ==
  ASSUME NEW m \in Holdings
  PROVE  LET text == MarshalMap(m)
             back == UnmarshalMap(text)
         IN
         /\ back \in Holdings
         /\ \A d \in Denoms : Plain(d) =>
              (d \in DOMAIN back <=> d \in DOMAIN m) /\ (d \in DOMAIN m => back[d] = m[d])
         /\ (\A u \in DOMAIN text : ~(Len(text[u]) > 1)) => MarshalMap(back) = text
<1> DEFINE text == MarshalMap(m)
           back == UnmarshalMap(text)
<1>1. DOMAIN m \subseteq Denoms /\ \A d \in DOMAIN m : m[d] \in Amounts
  BY MapGet DEF Holdings
<1>2. /\ DOMAIN text = {utf8[d] : d \in DOMAIN m} /\ DOMAIN text \subseteq Denoms
      /\ \A u \in DOMAIN text : text[u] \in Seq(Amounts) /\ Len(text[u]) >= 1
  BY MarshalMapFacts
<1>3. \A u \in DOMAIN text : \A e : Renamed(m, u) = {e} => text[u] = <<m[e]>>
  BY MarshalMapFacts
<1> HIDE DEF text
<1>4. DOMAIN back = DOMAIN text /\ \A u \in DOMAIN text : back[u] = Last(text[u])
  BY DEF UnmarshalMap
<1>5. back \in Holdings
  <2>1. ASSUME NEW u \in DOMAIN text PROVE Last(text[u]) \in Amounts
    <3>1. text[u] \in Seq(Amounts) /\ Len(text[u]) >= 1
      BY <1>2
    <3>2. Len(text[u]) \in 1 .. Len(text[u])
      BY <3>1
    <3>3. QED
      BY <3>1, <3>2 DEF Last
  <2>2. back \in [DOMAIN text -> Amounts]
    BY <2>1 DEF UnmarshalMap
  <2> HIDE DEF back
  <2>3. QED
    BY <1>2, <2>2, MapIs DEF Holdings
<1> HIDE DEF back
<1>6. ASSUME NEW d \in Denoms, Plain(d)
      PROVE  (d \in DOMAIN back <=> d \in DOMAIN m) /\ (d \in DOMAIN m => back[d] = m[d])
  <2>1. utf8[d] = d /\ \A e \in Denoms : utf8[e] = d => e = d
    BY <1>6 DEF Plain
  <2>2. d \in DOMAIN text <=> d \in DOMAIN m
    BY <1>1, <1>2, <2>1
  <2>3. ASSUME d \in DOMAIN m PROVE back[d] = m[d]
    <3>1. Renamed(m, d) = {d}
      BY <1>1, <2>1, <2>3 DEF Renamed
    <3>2. d \in DOMAIN text /\ text[d] = <<m[d]>>
      BY <1>3, <2>2, <2>3, <3>1
    <3>3. Last(<<m[d]>>) = m[d]
      BY DEF Last
    <3>4. QED
      BY <1>4, <3>2, <3>3
  <2>4. QED
    BY <1>4, <2>2, <2>3
<1>7. ASSUME \A u \in DOMAIN text : ~(Len(text[u]) > 1)
      PROVE  MarshalMap(back) = text
  <2> DEFINE again == MarshalMap(back)
  <2>1. \A u \in DOMAIN back : utf8[u] = u
    BY <1>1, <1>2, <1>4, DexAssumption
  <2>2. DOMAIN again = {utf8[d] : d \in DOMAIN back}
    BY <1>5, MarshalMapFacts
  <2>3. DOMAIN again = DOMAIN text
    BY <1>4, <2>1, <2>2
  <2>4. ASSUME NEW u \in DOMAIN text PROVE again[u] = text[u]
    <3>1. Renamed(back, u) = {u}
      BY <1>4, <2>1 DEF Renamed
    <3>2. again[u] = <<back[u]>>
      BY <1>5, <2>3, <3>1, MarshalMapFacts
    <3>3. text[u] \in Seq(Amounts) /\ Len(text[u]) >= 1 /\ ~(Len(text[u]) > 1)
      BY <1>2, <1>7
    <3>4. Len(text[u]) = 1
      <4> DEFINE k == Len(text[u])
      <4>1. k \in Nat /\ k >= 1 /\ ~(k > 1)
        BY <3>3
      <4> HIDE DEF k
      <4>2. k = 1
        BY <4>1
      <4>3. QED
        BY <4>2 DEF k
    <3>5. back[u] = text[u][1]
      BY <1>4, <3>4 DEF Last
    <3>6. text[u] = <<text[u][1]>>
      <4> DEFINE t == text[u]
      <4>1. t \in Seq(Amounts) /\ Len(t) = 1
        BY <3>3, <3>4
      <4> HIDE DEF t
      <4>2. t = <<t[1]>>
        BY <4>1
      <4>3. QED
        BY <4>2 DEF t
    <3>7. QED
      BY <3>2, <3>5, <3>6
  <2>5. again = [u \in DOMAIN again |-> again[u]]
    BY DEF MarshalMap
  <2>6. text = [u \in DOMAIN text |-> text[u]]
    BY DEF MarshalMap, text
  <2> HIDE DEF again
  <2>7. again = text
    BY <2>3, <2>4, <2>5, <2>6
  <2>8. QED
    BY <2>7 DEF again
<1>8. QED
  BY <1>5, <1>6, <1>7 DEF back, text

(* The orders of a state in its JSON. *)
MarshalOrders(orders) == [i \in DOMAIN orders |-> [orders[i] EXCEPT !.pair = MarshalPair(@)]]

(* One order: only the text of its pair may change, and not twice. *)
LEMMA OrderRoundTrip ==
  ASSUME NEW o \in Orders
  PROVE  LET q == [o EXCEPT !.pair = MarshalPair(@)] IN
         /\ q \in Orders /\ q.owner = o.owner /\ q.amount = o.amount
         /\ pairBase(o.pair) \in Denoms /\ pairBase(q.pair) = utf8[pairBase(o.pair)]
         /\ [q EXCEPT !.pair = MarshalPair(@)] = q
<1> DEFINE p == o.pair
           r == MarshalPair(p)
           q == [o EXCEPT !.pair = r]
<1>1. p \in Seq(Denoms) /\ p # <<>>
  BY DEF Orders
<1>2. Len(p) \in Nat /\ Len(p) >= 1 /\ DOMAIN p = 1 .. Len(p) /\ \A k \in 1 .. Len(p) : p[k] \in Denoms
  BY <1>1
<1> HIDE DEF p
<1>3. r = [k \in 1 .. Len(p) |-> utf8[p[k]]]
  BY <1>2 DEF MarshalPair
<1>4. r \in [1 .. Len(p) -> Denoms]
  BY <1>2, <1>3, DexAssumption
<1>5. r \in Seq(Denoms) /\ Len(r) = Len(p) /\ r # <<>>
  BY <1>2, <1>4
<1>6. MarshalPair(r) = r
  <2>1. \A k \in 1 .. Len(p) : utf8[r[k]] = r[k]
    BY <1>2, <1>3, DexAssumption
  <2>2. DOMAIN r = 1 .. Len(p)
    BY <1>4
  <2> HIDE DEF r
  <2>3. MarshalPair(r) = [k \in 1 .. Len(p) |-> utf8[r[k]]]
    BY <2>2 DEF MarshalPair
  <2>4. r = [k \in 1 .. Len(p) |-> r[k]]
    BY <1>4
  <2>5. QED
    BY <2>1, <2>3, <2>4
<1>7. r[1] = utf8[p[1]] /\ pairBase(p) = p[1] /\ pairBase(r) = r[1] /\ p[1] \in Denoms
  <2>1. 1 \in 1 .. Len(p)
    BY <1>2
  <2>2. QED
    BY <1>2, <1>3, <2>1 DEF pairBase
<1> HIDE DEF r
<1>8. /\ q \in Orders /\ q.owner = o.owner /\ q.amount = o.amount /\ q.pair = r
      /\ [q EXCEPT !.pair = r] = q
  BY <1>5 DEF Orders
<1>9. QED
  BY <1>6, <1>7, <1>8 DEF q, r, p

(* The orders parsed back lock the same of every plain denomination. *)
LEMMA OrdersRoundTrip ==
  ASSUME NEW orders \in Seq(Orders)
  PROVE  LET back == MarshalOrders(orders) IN
         /\ back \in Seq(Orders) /\ MarshalOrders(back) = back
         /\ \A a \in Accounts, d \in Denoms :
              Plain(d) => Locked(back)[a][d] = Locked(orders)[a][d]
<1> DEFINE back == MarshalOrders(orders)
           n == Len(orders)
           Sent(o) == [o EXCEPT !.pair = MarshalPair(@)]
<1>1. n \in Nat /\ DOMAIN orders = 1 .. n /\ \A i \in 1 .. n : orders[i] \in Orders
  OBVIOUS
<1>2. back = [i \in 1 .. n |-> Sent(orders[i])]
  BY <1>1 DEF MarshalOrders
<1>3. \A o \in Orders :
        /\ Sent(o) \in Orders /\ Sent(o).owner = o.owner /\ Sent(o).amount = o.amount
        /\ pairBase(o.pair) \in Denoms /\ pairBase(Sent(o).pair) = utf8[pairBase(o.pair)]
        /\ Sent(Sent(o)) = Sent(o)
  BY OrderRoundTrip
<1> HIDE DEF back, n
<1>4. /\ back \in [1 .. n -> Orders]
      /\ \A i \in 1 .. n : back[i] = Sent(orders[i])
  <2> HIDE DEF Sent
  <2>1. QED
    BY <1>1, <1>2, <1>3
<1>5. back \in Seq(Orders) /\ Len(back) = n /\ DOMAIN back = 1 .. n
  BY <1>1, <1>4
<1>6. MarshalOrders(back) = back
  <2>1. MarshalOrders(back) = [i \in 1 .. n |-> Sent(back[i])]
    BY <1>5 DEF MarshalOrders
  <2> HIDE DEF Sent
  <2>2. \A i \in 1 .. n : Sent(back[i]) = back[i]
    BY <1>1, <1>3, <1>4
  <2>3. back = [i \in 1 .. n |-> back[i]]
    BY <1>4
  <2>4. QED
    BY <2>1, <2>2, <2>3
<1> HIDE DEF Sent
<1>7. ASSUME NEW a \in Accounts, NEW d \in Denoms, Plain(d)
      PROVE  Locked(back)[a][d] = Locked(orders)[a][d]
  <2>1. \A e \in Denoms : utf8[e] = d <=> e = d
    BY <1>7 DEF Plain
  <2>2. PICK f : Locking!Trace(f, NoLocks, orders, n) /\ Locking!Fold(NoLocks, orders) = f[n]
    BY Locking!FoldTrace DEF n
  <2>3. PICK g : Locking!Trace(g, NoLocks, back, n) /\ Locking!Fold(NoLocks, back) = g[n]
    BY <1>5, Locking!FoldTrace
  <2> DEFINE S == {i \in 0 .. n : f[i] \in Locks /\ g[i] \in Locks /\ f[i][a][d] = g[i][a][d]}
  <2>4. 0 \in S
    <3>1. NoLocks \in Locks
      BY DEF NoLocks, Locks
    <3>2. f[0] = NoLocks /\ g[0] = NoLocks
      BY <2>2, <2>3 DEF Locking!Trace
    <3>3. QED
      BY <1>1, <3>1, <3>2
  <2>5. ASSUME NEW i \in 0 .. n - 1, i \in S PROVE i + 1 \in S
    <3> DEFINE o == orders[i + 1]
    <3>1. i + 1 \in 1 .. n /\ (i + 1) - 1 = i /\ i + 1 \in 0 .. n
      BY <1>1
    <3>2. f[i + 1] = Lock(f[i], o) /\ g[i + 1] = Lock(g[i], Sent(o))
      BY <1>4, <2>2, <2>3, <3>1 DEF Locking!Trace
    <3>3. o \in Orders
      BY <1>1, <3>1
    <3> HIDE DEF o
    <3>4. /\ Sent(o) \in Orders /\ Sent(o).owner = o.owner /\ Sent(o).amount = o.amount
          /\ pairBase(o.pair) \in Denoms /\ pairBase(Sent(o).pair) = utf8[pairBase(o.pair)]
      BY <1>3, <3>3
    <3>5. f[i] \in Locks /\ g[i] \in Locks /\ f[i][a][d] = g[i][a][d]
      BY <2>5
    <3>6. /\ Lock(f[i], o) \in Locks
          /\ Lock(f[i], o)[a][d] = IF a = o.owner /\ d = pairBase(o.pair)
                                     THEN f[i][a][d] + o.amount ELSE f[i][a][d]
      BY <3>3, <3>5, LockEffect
    <3>7. /\ Lock(g[i], Sent(o)) \in Locks
          /\ Lock(g[i], Sent(o))[a][d] = IF a = o.owner /\ d = pairBase(Sent(o).pair)
                                           THEN g[i][a][d] + o.amount ELSE g[i][a][d]
      BY <3>4, <3>5, LockEffect
    <3>8. d = pairBase(o.pair) <=> d = pairBase(Sent(o).pair)
      BY <2>1, <3>4
    <3>9. Lock(f[i], o)[a][d] = Lock(g[i], Sent(o))[a][d]
      BY <3>5, <3>6, <3>7, <3>8
    <3>10. QED
      BY <3>1, <3>2, <3>6, <3>7, <3>9
  <2>6. n \in S
    <3> HIDE DEF S
    <3>1. \A i \in 0 .. n : i \in S
      BY <1>1, <2>4, <2>5, Locking!UpTo
    <3>2. QED
      BY <1>1, <3>1
  <2>7. Locked(back) = g[n] /\ Locked(orders) = f[n]
    BY <2>2, <2>3, FoldNames DEF Locked
  <2>8. QED
    BY <2>6, <2>7
<1>8. QED
  BY <1>5, <1>6, <1>7 DEF back

(* A state parsed back from its JSON: a state of the same height, with the   *)
(* funds of every plain denomination, whose JSON is the same text again      *)
(* unless a key is twice there.                                              *)
LEMMA StateRoundTrip ==
  ASSUME NEW s \in States
  PROVE  LET text == Marshal(s)
             back == Unmarshal(text)
         IN
         /\ back \in States /\ text.height = s.height /\ back.height = s.height
         /\ \A a \in Accounts, d \in Denoms : Plain(d) =>
              /\ Balance(back, a, d) = Balance(s, a, d)
              /\ Locked(back.orders)[a][d] = Locked(s.orders)[a][d]
         /\ ~Ambiguous(text) => Marshal(back) = text
<1> DEFINE text == Marshal(s)
           back == Unmarshal(text)
           D == DOMAIN s.balances
<1>1. /\ s.height \in Nat /\ s.balances \in Balances /\ s.orders \in Seq(Orders)
      /\ s.nilOrders \in BOOLEAN /\ s.prices \in PriceMap
  BY DEF States
<1>2. D \subseteq Accounts /\ \A a \in D : s.balances[a] \in Holdings
  BY <1>1, MapGet DEF Balances
<1>3. text = [height |-> s.height, balances |-> [a \in D |-> MarshalMap(s.balances[a])],
              orders |-> MarshalOrders(s.orders), nilOrders |-> s.nilOrders, prices |-> s.prices]
  BY DEF Marshal, MarshalOrders
<1> HIDE DEF text
<1>4. /\ text.height = s.height /\ text.orders = MarshalOrders(s.orders)
      /\ text.nilOrders = s.nilOrders /\ text.prices = s.prices
      /\ text.balances = [a \in D |-> MarshalMap(s.balances[a])]
  BY <1>3
<1>5. DOMAIN text.balances = D /\ \A a \in D : text.balances[a] = MarshalMap(s.balances[a])
  BY <1>4
<1>6. back = [height |-> s.height, balances |-> [a \in D |-> UnmarshalMap(text.balances[a])],
              orders |-> MarshalOrders(s.orders), nilOrders |-> s.nilOrders, prices |-> s.prices,
              nilWrite |-> FALSE]
  BY <1>4, <1>5 DEF Unmarshal
<1> HIDE DEF back
<1>7. /\ back.height = s.height /\ back.orders = MarshalOrders(s.orders)
      /\ back.nilOrders = s.nilOrders /\ back.prices = s.prices
      /\ back.balances = [a \in D |-> UnmarshalMap(text.balances[a])]
  BY <1>6
<1>8. DOMAIN back.balances = D /\ \A a \in D : back.balances[a] = UnmarshalMap(MarshalMap(s.balances[a]))
  BY <1>5, <1>7
<1>9. \A a \in D : back.balances[a] \in Holdings
  BY <1>2, <1>8, MapRoundTrip
<1>10. back \in States
  <2>1. back.balances \in [D -> Holdings]
    BY <1>7, <1>8, <1>9
  <2>2. back.balances \in Balances
    BY <1>2, <2>1, MapIs DEF Balances
  <2>3. back.orders \in Seq(Orders)
    BY <1>1, <1>7, OrdersRoundTrip
  <2>4. QED
    BY <1>1, <1>6, <1>7, <2>2, <2>3 DEF States
<1>11. ASSUME NEW a \in Accounts, NEW d \in Denoms, Plain(d)
       PROVE  Balance(back, a, d) = Balance(s, a, d)
  <2>1. CASE a \in D
    <3>1. (d \in DOMAIN back.balances[a] <=> d \in DOMAIN s.balances[a])
          /\ (d \in DOMAIN s.balances[a] => back.balances[a][d] = s.balances[a][d])
      BY <1>2, <1>8, <1>11, <2>1, MapRoundTrip
    <3>2. QED
      BY <1>8, <2>1, <3>1 DEF Balance
  <2>2. CASE a \notin D
    BY <1>8, <2>2 DEF Balance
  <2>3. QED
    BY <2>1, <2>2
<1>12. \A a \in Accounts, d \in Denoms :
         Plain(d) => Locked(back.orders)[a][d] = Locked(s.orders)[a][d]
  BY <1>1, <1>7, OrdersRoundTrip
<1>13. ASSUME ~Ambiguous(text) PROVE Marshal(back) = text
  <2>1. ASSUME NEW a \in D PROVE MarshalMap(back.balances[a]) = text.balances[a]
    <3> DEFINE m == s.balances[a]
    <3>1. m \in Holdings /\ text.balances[a] = MarshalMap(m)
      BY <1>2, <1>5
    <3>2. ASSUME NEW u \in DOMAIN text.balances[a] PROVE ~(Len(text.balances[a][u]) > 1)
      <4>1. Plain(u)
        BY <1>5, <1>13 DEF Ambiguous
      <4>2. DOMAIN text.balances[a] = {utf8[d] : d \in DOMAIN m} /\ DOMAIN m \subseteq Denoms
        BY <3>1, MapGet DEF MarshalMap, Holdings
      <4>3. Renamed(m, u) = {u}
        BY <4>1, <4>2 DEF Renamed, Plain
      <4>4. text.balances[a][u] = <<m[u]>>
        <5>1. \A v \in DOMAIN MarshalMap(m) : \A e : Renamed(m, v) = {e} => MarshalMap(m)[v] = <<m[e]>>
          BY <3>1, MarshalMapFacts
        <5> HIDE DEF m
        <5>2. u \in DOMAIN MarshalMap(m)
          BY <3>1
        <5>3. MarshalMap(m)[u] = <<m[u]>>
          BY <4>3, <5>1, <5>2
        <5>4. QED
          BY <3>1, <5>3
      <4>5. QED
        BY <4>4
    <3>3. back.balances[a] = UnmarshalMap(MarshalMap(m))
      BY <1>8
    <3> HIDE DEF m
    <3>4. MarshalMap(UnmarshalMap(MarshalMap(m))) = MarshalMap(m)
      BY <3>1, <3>2, MapRoundTrip
    <3>5. QED
      BY <3>1, <3>3, <3>4
  <2>2. [a \in D |-> MarshalMap(back.balances[a])] = [a \in D |-> text.balances[a]]
    BY <2>1
  <2>3. text.balances = [a \in D |-> text.balances[a]]
    BY <1>4
  <2>4. MarshalOrders(MarshalOrders(s.orders)) = MarshalOrders(s.orders)
    BY <1>1, OrdersRoundTrip
  <2>5. Marshal(back) = [height |-> s.height, balances |-> [a \in D |-> MarshalMap(back.balances[a])],
                         orders |-> MarshalOrders(back.orders), nilOrders |-> s.nilOrders,
                         prices |-> s.prices]
    BY <1>7, <1>8 DEF Marshal, MarshalOrders
  <2>6. Marshal(back) = [height |-> s.height, balances |-> text.balances,
                         orders |-> MarshalOrders(s.orders), nilOrders |-> s.nilOrders,
                         prices |-> s.prices]
    BY <1>7, <2>2, <2>3, <2>4, <2>5
  <2>7. QED
    BY <1>3, <1>4, <2>6
<1>14. QED
  BY <1>4, <1>7, <1>10, <1>11, <1>12, <1>13 DEF back, text

-----------------------------------------------------------------------------
(* The invariant. *)

Rounds == [height : 0 .. MaxHeight, txs : Seq(Transactions), exts : Seq(Extensions),
           by : {"nobody", "self", "other"}]

(* The current state, its books and what the engine knows of it. *)
StateInv ==
    /\ current \in States /\ current.height <= MaxHeight
    /\ books \in Books /\ Conserved(current, books)
    /\ \/ known = appHash(current)
       \/ Ambiguous(known) /\ current = Unmarshal(known)
    /\ known.height = current.height

(* A proposal of one's own is as BuildProposal leaves it. *)
RoundInv ==
    /\ round \in Rounds
    /\ round.by = "self" => round.txs \in Fitting /\ Fronted(round.exts, round.txs)

(* The outcomes of the last block fit the gate. *)
OutcomeInv == outcome.txs \in Seq(Outcomes)

(* The staged state is what Commit makes current: it has books of its own. *)
StagedInv ==
    staged # NoState =>
        /\ staged \in States /\ staged.height <= MaxHeight
        /\ outcome.books \in Books /\ Conserved(staged, outcome.books)
        /\ outcome.hash = appHash(staged)

RestInv == imports \in 0 .. MaxImports /\ panicked = FALSE

DexInv == StateInv /\ RoundInv /\ OutcomeInv /\ StagedInv /\ RestInv

(* The invariant holds at genesis. *)
LEMMA DexInitInv == DexInit => DexInv
<1> SUFFICES ASSUME DexInit PROVE DexInv
  OBVIOUS
<1>1. StateInv
  <2>1. current = newState /\ books = NoBooks /\ known = appHash(newState)
    BY DEF DexInit
  <2>2. MaxHeight \in Nat
    BY DexAssumption
  <2>3. appHash(newState).height = newState.height
    BY DEF appHash, Marshal
  <2>4. QED
    BY <2>1, <2>2, <2>3, NewStateFacts DEF StateInv
<1>2. RoundInv
  <2>1. <<>> \in Seq(Transactions) /\ <<>> \in Seq(Extensions) /\ 0 \in 0 .. MaxHeight
    BY DexAssumption
  <2>2. round = NoRound
    BY DEF DexInit
  <2>3. QED
    BY <2>1, <2>2 DEF RoundInv, Rounds, NoRound
<1>3. OutcomeInv
  <2>1. outcome.txs = <<>>
    BY DEF DexInit, NoOutcome
  <2>2. <<>> \in Seq(Outcomes)
    OBVIOUS
  <2>3. QED
    BY <2>1, <2>2 DEF OutcomeInv
<1>4. StagedInv
  BY DEF DexInit, StagedInv
<1>5. RestInv
  BY DexAssumption DEF DexInit, RestInv
<1>6. QED
  BY <1>1, <1>2, <1>3, <1>4, <1>5 DEF DexInv

(* A proposal of one's own. *)
LEMMA ProposeInv ==
  ASSUME DexInv, NEW exts \in VoteSets, NEW mempool \in Mempools, Propose(exts, mempool)
  PROVE  DexInv'
<1>1. exts \in Seq(Extensions) /\ mempool \in Seq(Transactions)
  BY DexAssumption
<1> DEFINE txs == BuildProposal(exts, mempool)
<1>2. txs \in Fitting /\ Fronted(exts, txs)
  BY <1>1, ProposalBuilt, ProposalFronted
<1>3. txs \in Seq(Transactions)
  BY <1>2 DEF Fitting
<1>4. current.height + 1 \in 0 .. MaxHeight
  BY DexAssumption DEF Propose, Between, DexInv, StateInv, States
<1>5. round' = [height |-> current.height + 1, txs |-> txs, exts |-> exts, by |-> "self"]
  BY DEF Propose
<1> HIDE DEF txs
<1>6. RoundInv'
  <2>1. round' \in Rounds
    BY <1>1, <1>3, <1>4, <1>5 DEF Rounds
  <2>2. round'.txs = txs /\ round'.exts = exts
    BY <1>5
  <2>3. QED
    BY <1>2, <2>1, <2>2 DEF RoundInv
<1>7. UNCHANGED <<current, staged, outcome, books, known, imports, panicked>>
  BY DEF Propose
<1>8. QED
  BY <1>6, <1>7 DEF DexInv, StateInv, OutcomeInv, StagedInv, RestInv

(* A proposal of another validator. *)
LEMMA ReceiveInv ==
  ASSUME DexInv, NEW exts \in ReceivedVoteSets, NEW txs \in Proposals, Receive(exts, txs)
  PROVE  DexInv'
<1>1. exts \in Seq(Extensions) /\ txs \in Seq(Transactions)
  BY DexAssumption
<1>2. current.height + 1 \in 0 .. MaxHeight
  BY DexAssumption DEF Receive, Between, DexInv, StateInv, States
<1>3. round' = [height |-> current.height + 1, txs |-> txs, exts |-> exts, by |-> "other"]
  BY DEF Receive
<1>4. RoundInv'
  BY <1>1, <1>2, <1>3 DEF RoundInv, Rounds
<1>5. UNCHANGED <<current, staged, outcome, books, known, imports, panicked>>
  BY DEF Receive
<1>6. QED
  BY <1>4, <1>5 DEF DexInv, StateInv, OutcomeInv, StagedInv, RestInv

(* No proposal at hand. *)
LEMMA NoRoundInv == round' = NoRound => RoundInv'
<1>1. <<>> \in Seq(Transactions) /\ <<>> \in Seq(Extensions) /\ 0 \in 0 .. MaxHeight
  BY DexAssumption
<1>2. QED
  BY <1>1 DEF RoundInv, Rounds, NoRound

(* A proposal turned down. *)
LEMMA RejectInv == DexInv /\ Reject => DexInv'
<1> SUFFICES ASSUME DexInv, Reject PROVE DexInv'
  OBVIOUS
<1>1. RoundInv'
  BY NoRoundInv DEF Reject
<1>2. UNCHANGED <<current, staged, outcome, books, known, imports, panicked>>
  BY DEF Reject
<1>3. QED
  BY <1>1, <1>2 DEF DexInv, StateInv, OutcomeInv, StagedInv, RestInv

(* A block executed: BlockEffect, on the current state and its books. *)
LEMMA ExecuteInv == DexInv /\ ExecuteBlock => DexInv'
<1> SUFFICES ASSUME DexInv, ExecuteBlock PROVE DexInv'
  OBVIOUS
<1> DEFINE done == RunBlock(current, round.height, round.txs)
           after == Booked(books, done.outcomes)
<1>1. /\ current \in States /\ books \in Books /\ Conserved(current, books)
      /\ round.height \in 0 .. MaxHeight /\ round.txs \in Seq(Transactions)
  BY DEF DexInv, StateInv, RoundInv, Rounds
<1>2. round.height \in Nat /\ round.height <= MaxHeight
  BY <1>1, DexAssumption
<1>3. /\ done.state \in States /\ done.state.height = round.height
      /\ done.outcomes \in Seq(Outcomes)
      /\ after \in Books /\ Conserved(done.state, after)
  BY <1>1, <1>2, BlockEffect
<1>4. ~done.state.nilWrite
  BY <1>3 DEF States
<1>5. /\ staged' = done.state /\ UNCHANGED panicked
      /\ outcome' = [txs |-> done.outcomes, hash |-> appHash(done.state), books |-> after]
  BY <1>4 DEF ExecuteBlock, OutcomeOf
<1>6. round' = NoRound /\ UNCHANGED <<current, books, known, imports>>
  BY DEF ExecuteBlock
<1> HIDE DEF done, after
<1>7. StateInv'
  BY <1>6 DEF DexInv, StateInv
<1>8. RoundInv'
  BY <1>6, NoRoundInv
<1>9. OutcomeInv'
  BY <1>3, <1>5 DEF OutcomeInv
<1>10. StagedInv'
  <2>1. staged' = done.state /\ outcome'.books = after /\ outcome'.hash = appHash(done.state)
    BY <1>5
  <2>2. QED
    BY <1>2, <1>3, <2>1 DEF StagedInv
<1>11. RestInv'
  BY <1>5, <1>6 DEF DexInv, RestInv
<1>12. QED
  BY <1>7, <1>8, <1>9, <1>10, <1>11 DEF DexInv

(* A block committed: the staged state and its books become the current ones. *)
LEMMA CommitInv == DexInv /\ Commit => DexInv'
<1> SUFFICES ASSUME DexInv, Commit PROVE DexInv'
  OBVIOUS
<1>1. /\ staged # NoState /\ current' = staged /\ staged' = NoState /\ known' = outcome.hash
      /\ books' = outcome.books /\ outcome' = NoOutcome /\ UNCHANGED <<round, imports, panicked>>
  BY DEF Commit
<1>2. StateInv'
  <2>1. appHash(staged).height = staged.height
    BY DEF appHash, Marshal
  <2>2. QED
    BY <1>1, <2>1 DEF DexInv, StagedInv, StateInv
<1>3. RoundInv'
  BY <1>1 DEF DexInv, RoundInv
<1>4. OutcomeInv'
  <2>1. outcome'.txs = <<>>
    BY <1>1 DEF NoOutcome
  <2>2. <<>> \in Seq(Outcomes)
    OBVIOUS
  <2>3. QED
    BY <2>1, <2>2 DEF OutcomeInv
<1>5. StagedInv'
  BY <1>1 DEF StagedInv
<1>6. RestInv'
  BY <1>1 DEF DexInv, RestInv
<1>7. QED
  BY <1>2, <1>3, <1>4, <1>5, <1>6 DEF DexInv

(* A snapshot imported: ChainEffect, and the way of the state through JSON. *)
LEMMA ImportInv ==
  ASSUME DexInv, NEW blocks \in SyncedChains, ImportSnapshot(blocks)
  PROVE  DexInv'
<1> DEFINE s == AfterChain(blocks)
<1>1. blocks \in Seq(Seq(Transactions)) /\ Len(blocks) <= MaxHeight
  BY DexAssumption
<1>2. /\ s.state \in States /\ s.state.height = Len(blocks)
      /\ s.books \in Books /\ Conserved(s.state, s.books)
  BY <1>1, ChainEffect
<1>3. current' = Unmarshal(Marshal(s.state)) /\ books' = s.books /\ known' = Marshal(s.state)
  BY DEF ImportSnapshot, appHash
<1>4. imports < MaxImports /\ imports' = imports + 1 /\ UNCHANGED <<staged, outcome, round, panicked>>
  BY DEF ImportSnapshot
<1> HIDE DEF s
<1>5. StateInv'
  <2> DEFINE p == s.state
             text == Marshal(p)
             back == Unmarshal(text)
  <2>1. /\ back \in States /\ text.height = p.height /\ back.height = p.height
        /\ \A a \in Accounts, d \in Denoms : Plain(d) =>
             /\ Balance(back, a, d) = Balance(p, a, d)
             /\ Locked(back.orders)[a][d] = Locked(p.orders)[a][d]
        /\ ~Ambiguous(text) => Marshal(back) = text
    BY <1>2, StateRoundTrip
  <2> HIDE DEF back, text, p
  <2>2. Conserved(back, s.books)
    <3>1. Conserved(p, s.books)
      BY <1>2 DEF p
    <3>2. QED
      BY <2>1, <3>1, SameFunds
  <2>3. current' = back /\ known' = text /\ current' = Unmarshal(known')
    BY <1>3 DEF back, text, p
  <2>4. p.height <= MaxHeight
    BY <1>1, <1>2 DEF p
  <2>5. known' = appHash(current') \/ Ambiguous(known')
    BY <2>1, <2>3 DEF appHash
  <2>6. QED
    BY <1>2, <1>3, <2>1, <2>2, <2>3, <2>4, <2>5 DEF StateInv
<1>6. RoundInv'
  BY <1>4 DEF DexInv, RoundInv
<1>7. OutcomeInv'
  BY <1>4 DEF DexInv, OutcomeInv
<1>8. StagedInv'
  BY <1>4 DEF DexInv, StagedInv
<1>9. RestInv'
  BY <1>4, DexAssumption DEF DexInv, RestInv
<1>10. QED
  BY <1>5, <1>6, <1>7, <1>8, <1>9 DEF DexInv

(* Every step keeps the invariant. *)
LEMMA DexNextInv == DexInv /\ [DexNext]_vars => DexInv'
<1> SUFFICES ASSUME DexInv, [DexNext]_vars PROVE DexInv'
  OBVIOUS
<1>1. ASSUME NEW exts \in VoteSets, NEW mempool \in Mempools, Propose(exts, mempool) PROVE DexInv'
  BY <1>1, ProposeInv
<1>2. ASSUME NEW exts \in ReceivedVoteSets, NEW txs \in Proposals, Receive(exts, txs) PROVE DexInv'
  BY <1>2, ReceiveInv
<1>3. CASE Reject
  BY <1>3, RejectInv
<1>4. CASE ExecuteBlock
  BY <1>4, ExecuteInv
<1>5. CASE Commit
  BY <1>5, CommitInv
<1>6. ASSUME NEW blocks \in SyncedChains, ImportSnapshot(blocks) PROVE DexInv'
  BY <1>6, ImportInv
<1>7. CASE UNCHANGED vars
  BY <1>7 DEF vars, DexInv, StateInv, RoundInv, OutcomeInv, StagedInv, RestInv
<1>8. QED
  BY <1>1, <1>2, <1>3, <1>4, <1>5, <1>6, <1>7 DEF DexNext

(* The invariant holds in every round, with any imports between its calls. *)
THEOREM DexInvariance == DexSpec => []DexInv
BY DexInitInv, DexNextInv, PTL DEF DexSpec


(* States keep to their types: balances in Width bits, orders that lock      *)
(* something, codes of 0 to 2 (executeTx), heights and imports in bounds.    *)
THEOREM DexTypeCorrect == DexSpec => []DexTypeOK
<1>1. ASSUME NEW s \in States, s.height <= MaxHeight PROVE StateOK(s)
  <2>1. s.height \in 0 .. MaxHeight
    BY <1>1, DexAssumption DEF States
  <2>2. s.balances \in Maps(Accounts, Holdings)
    BY DEF States, Balances
  <2>3. /\ DOMAIN s.balances \subseteq Accounts
        /\ \A a \in DOMAIN s.balances : s.balances[a] \in Holdings
    BY <2>2, MapGet
  <2>4. ASSUME NEW m \in Holdings
        PROVE  DOMAIN m \subseteq Denoms /\ \A d \in DOMAIN m : m[d] \in Amounts
    BY MapGet DEF Holdings
  <2>5. s.orders \in Seq(Orders)
    BY DEF States
  <2>6. ASSUME NEW o \in Range(s.orders) PROVE o.amount \in Amounts \ {0} /\ o.price > 0
    <3>1. o \in Orders
      BY <2>5 DEF Range
    <3>2. o.amount \in Amounts \ {0} /\ o.price \in Amounts /\ o.price # 0
      BY <3>1 DEF Orders
    <3>3. o.price \in Nat
      BY <3>2, AmountFacts
    <3>4. QED
      BY <3>2, <3>3
  <2>7. QED
    BY <2>1, <2>3, <2>4, <2>6 DEF StateOK
<1>2. DexInv => DexTypeOK
  <2> SUFFICES ASSUME DexInv PROVE DexTypeOK
    OBVIOUS
  <2>1. StateOK(current)
    BY <1>1 DEF DexInv, StateInv
  <2>2. staged = NoState \/ StateOK(staged)
    BY <1>1 DEF DexInv, StagedInv
  <2>3. ASSUME NEW o \in Range(outcome.txs) PROVE o.code \in 0 .. 2
    <3>1. outcome.txs \in Seq(Outcomes)
      BY DEF DexInv, OutcomeInv
    <3>2. o \in Outcomes
      BY <3>1 DEF Range
    <3>3. QED
      BY <3>2 DEF Outcomes
  <2>4. imports \in 0 .. MaxImports /\ round.by \in {"nobody", "self", "other"}
    BY DEF DexInv, RestInv, RoundInv, Rounds
  <2>5. panicked \in BOOLEAN
    BY DEF DexInv, RestInv
  <2>6. QED
    BY <2>1, <2>2, <2>3, <2>4, <2>5 DEF DexTypeOK
<1>3. QED
  BY <1>2, DexInvariance, PTL

(* What is paid in and not paid out is in a balance or locked in an order,   *)
(* but for 2^Width for each deposit that wrapped a balance around: for any   *)
(* blocks and width of amounts, for snapshots imported between any calls of  *)
(* a round and parsed back from their JSON, and for every denomination that  *)
(* its JSON leaves alone and makes of no other (executeDeposit,              *)
(* executeWithdraw, executeLimitOrder, Commit, ImportSnapshot).              *)
THEOREM FundsAreConserved == DexSpec => []FundsConserved
<1>1. DexInv => FundsConserved
  <2> SUFFICES ASSUME DexInv PROVE FundsConserved
    OBVIOUS
  <2>1. \A a, d : QueryBalance(a, d).value = Balance(current, a, d)
    BY DEF QueryBalance
  <2>2. QueryOrders.value = current.orders
    BY DEF QueryOrders
  <2> DEFINE L == Locked(current.orders)
  <2>3. current \in States /\ books \in Books /\ Conserved(current, books)
    BY DEF DexInv, StateInv
  <2>4. L \in Locks
    BY <2>3, LockedFacts DEF States
  <2>5. ASSUME NEW a \in Accounts, NEW d \in Denoms, Plain(d)
        PROVE  \E wraps \in 0 .. books[a][d].paidIn :
                  Balance(current, a, d) + L[a][d] + wraps * 2^Width
                    = books[a][d].paidIn - books[a][d].paidOut
    <3>1. PICK q \in Nat : Adds(Balance(current, a, d), L[a][d], q, books[a][d])
      BY <2>3, <2>5 DEF Conserved
    <3>2. Balance(current, a, d) + L[a][d] + q * 2^Width = books[a][d].paidIn - books[a][d].paidOut
      BY <3>1 DEF Adds
    <3> DEFINE total == q * 2^Width
    <3>3. total \in Nat /\ q <= total
      BY AmountFacts, Multiples
    <3>4. books[a][d].paidIn \in Nat /\ books[a][d].paidOut \in Nat
      BY <2>3 DEF Books
    <3>5. Balance(current, a, d) \in Nat
      BY <2>3, BalanceTyped, AmountFacts
    <3>6. L[a][d] \in Nat
      BY <2>4 DEF Locks
    <3>7. Balance(current, a, d) + L[a][d] + total = books[a][d].paidIn - books[a][d].paidOut
      BY <3>2
    <3> HIDE DEF total, L
    <3>8. q \in 0 .. books[a][d].paidIn
      BY <3>3, <3>4, <3>5, <3>6, <3>7
    <3>9. QED
      BY <3>2, <3>8
  <2> HIDE DEF L
  <2>6. QED
    BY <2>1, <2>2, <2>5 DEF FundsConserved, L
<1>2. QED
  BY <1>1, DexInvariance, PTL

(* A proposal at hand has transactions, and Simulate starts from a state. *)
LEMMA SimulateOn ==
  ASSUME DexInv, NEW tx \in Range(round.txs)
  PROVE  tx \in Transactions /\ clone(current) \in States
<1>1. round.txs \in Seq(Transactions) /\ current \in States
  BY DEF DexInv, RoundInv, Rounds, StateInv
<1>2. tx \in Transactions
  BY <1>1 DEF Range
<1>3. clone(current) \in States
  BY <1>1 DEF clone, States
<1>4. QED
  BY <1>2, <1>3

(* The length and type checks of the gate (CheckTx) and those of executeTx   *)
(* agree, in a block and in Simulate, for any transaction.                   *)
THEOREM GateCorrect == DexSpec => []GateAgrees
<1>1. DexInv => GateAgrees
  <2> SUFFICES ASSUME DexInv PROVE GateAgrees
    OBVIOUS
  <2>1. ASSUME NEW o \in Range(outcome.txs) PROVE FitsGate(o.tx, o.code)
    <3>1. outcome.txs \in Seq(Outcomes)
      BY DEF DexInv, OutcomeInv
    <3>2. o \in Outcomes
      BY <3>1 DEF Range
    <3>3. QED
      BY <3>2 DEF Outcomes
  <2>2. ASSUME NEW tx \in Range(round.txs) PROVE FitsGate(tx, Simulate(tx).code)
    <3>1. tx \in Transactions
      BY SimulateOn
    <3>2. QED
      BY <3>1, GateFits DEF Simulate
  <2>3. QED
    BY <2>1, <2>2 DEF GateAgrees
<1>2. QED
  BY <1>1, DexInvariance, PTL

(* Handshake answers with the AppHash that the engine has and a restart with *)
(* its height, but for a state parsed from an ambiguous snapshot (Handshake, *)
(* appHash, Commit, ImportSnapshot).                                         *)
THEOREM HandshakeCorrect == DexSpec => []HandshakeAgrees
<1>1. DexInv => HandshakeAgrees
  <2> SUFFICES ASSUME StateInv PROVE HandshakeAgrees
    BY DEF DexInv
  <2>1. \A c : Handshake(c).appHash = appHash(current)
    BY DEF Handshake
  <2>2. Handshake(TRUE).lastBlock = current.height
    BY DEF Handshake
  <2>3. QED
    BY <2>1, <2>2 DEF StateInv, HandshakeAgrees
<1>2. QED
  BY <1>1, DexInvariance, PTL

(* No transaction of a block, and none that is simulated, writes to the map  *)
(* of an absent account (executeWithdraw, executeLimitOrder).                *)
THEOREM NeverPanics == DexSpec => []NoNilWrite
<1>1. DexInv => NoNilWrite
  <2> SUFFICES ASSUME DexInv PROVE NoNilWrite
    OBVIOUS
  <2>1. ~panicked
    BY DEF DexInv, RestInv
  <2>2. ASSUME NEW tx \in Range(round.txs) PROVE ~Simulate(tx).state.nilWrite
    <3>1. tx \in Transactions /\ clone(current) \in States
      BY SimulateOn
    <3>2. Simulate(tx).state \in States
      BY <3>1, TxEffect DEF Simulate
    <3>3. QED
      BY <3>2 DEF States
  <2>3. QED
    BY <2>1, <2>2 DEF NoNilWrite
<1>2. QED
  BY <1>1, DexInvariance, PTL

(* VerifyProposal accepts what BuildProposal builds, and it fits. *)
THEOREM OwnProposal == DexSpec => []OwnProposalAccepted
<1>1. ASSUME NEW exts, NEW txs \in Fitting
      PROVE  VerifyProposal(exts, txs) /\ TotalSize(txs) <= MaxTxBytes
  <2>1. /\ txs \in Seq(Transactions) /\ TotalSize(txs) <= MaxTxBytes
        /\ \A i \in 1 .. Len(txs) : IsOracle(txs[i]) => i = 1 /\ GoodOracle(txs[i])
    BY DEF Fitting
  <2>2. CASE txs = <<>>
    BY <2>1, <2>2 DEF VerifyProposal
  <2>3. CASE txs # <<>>
    <3>1. 1 \in 1 .. Len(txs) /\ \A i \in 2 .. Len(txs) : i \in 1 .. Len(txs) /\ i # 1
      BY <2>1, <2>3
    <3>2. IsOracle(txs[1]) => GoodOracle(txs[1])
      BY <2>1, <3>1
    <3>3. \A i \in 2 .. Len(txs) : ~IsOracle(txs[i])
      BY <2>1, <3>1
    <3>4. QED
      BY <2>1, <3>2, <3>3 DEF VerifyProposal, GoodOracle
  <2>4. QED
    BY <2>2, <2>3
<1>2. DexInv => OwnProposalAccepted
  BY <1>1 DEF DexInv, RoundInv, OwnProposalAccepted, Own
<1>3. QED
  BY <1>2, DexInvariance, PTL


(* The others accept the extension that a validator makes, and the way       *)
(* through a vote keeps the prices (ExtendVote, VerifyExtension,             *)
(* buildOracleTxFromExtensions).                                             *)
THEOREM OwnExtension == DexSpec => []OwnExtensionAccepted
<1>1. DexInv => OwnExtensionAccepted
  <2> SUFFICES ASSUME DexInv PROVE OwnExtensionAccepted
    OBVIOUS
  <2> DEFINE m == current.prices
  <2>1. m \in PriceMap
    BY DEF DexInv, StateInv, States
  <2>2. ExtendVote = Extended(m)
    BY DEF ExtendVote, Extended
  <2>3. \A p \in DOMAIN m : QueryPrice(p).value = m[p]
    BY DEF QueryPrice
  <2>4. {[pair |-> p, price |-> QueryPrice(p).value] : p \in DOMAIN m}
          = {[pair |-> p, price |-> m[p]] : p \in DOMAIN m}
    BY <2>3
  <2>5. VerifyExtension(ExtendVote)
    <3> DEFINE n == Cardinality(DOMAIN m)
    <3> HIDE DEF m
    <3>1. Extended(m) \in Seq(PriceEntries) /\ Len(Extended(m)) = n
      BY <2>1, ExtendedFacts
    <3>2. \A i \in 1 .. n : Usable(Extended(m)[i])
      BY <2>1, ExtendedFacts
    <3>3. Extended(m) # Malformed /\ DOMAIN Extended(m) = 1 .. n
      BY <3>1, DexAssumption
    <3>4. \A p \in Range(Extended(m)) : p.pair # <<>>
      BY <3>2, <3>3 DEF Range, Usable
    <3>5. QED
      BY <2>2, <3>3, <3>4 DEF VerifyExtension
  <2>6. QED
    <3> DEFINE built == buildOracleTxFromExtensions(<<ExtendVote>>)
               back == IF built = <<>> THEN {} ELSE Range(built[1].prices)
    <3>1. back = {[pair |-> p, price |-> m[p]] : p \in DOMAIN m}
      <4> HIDE DEF m
      <4>1. QED
        BY <2>1, <2>2, BuiltFromExtended
    <3>2. back = {[pair |-> p, price |-> QueryPrice(p).value] : p \in DOMAIN current.prices}
      BY <2>4, <3>1
    <3> HIDE DEF built
    <3>3. QED
      BY <2>5, <3>2 DEF OwnExtensionAccepted, built
<1>2. QED
  BY <1>1, DexInvariance, PTL


(* The price of a pair in a proposal of one's own is the median of its       *)
(* reports, whatever the vote extensions hold (buildOracleTxFromExtensions). *)
THEOREM MedianCorrect == DexSpec => []MedianOfReports
<1>1. DexInv => MedianOfReports
  <2> SUFFICES ASSUME DexInv, Own, round.txs # <<>>, IsOracle(round.txs[1])
               PROVE  MedianOf(round.exts, round.txs[1].prices)
    BY DEF MedianOfReports, MedianOf
  <2> DEFINE built == buildOracleTxFromExtensions(round.exts)
  <2>1. round.exts \in Seq(Extensions) /\ Fronted(round.exts, round.txs)
    BY DEF DexInv, RoundInv, Rounds, Own
  <2>2. built # <<>> /\ round.txs[1] = built[1]
    BY <2>1 DEF Fronted
  <2>3. MedianOf(round.exts, built[1].prices)
    BY <2>1, <2>2, OracleMedian
  <2> HIDE DEF built
  <2>4. QED
    BY <2>2, <2>3
<1>2. QED
  BY <1>1, DexInvariance, PTL

=============================================================================
