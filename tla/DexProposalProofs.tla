-------------------------- MODULE DexProposalProofs --------------------------
(***************************************************************************)
(* Facts about the maps, amounts and proposals of Dex, for any vote        *)
(* extensions, mempool and width of amounts: what is built is good and     *)
(* fits, the price of a pair is the median of its reports, and committed   *)
(* prices come through a vote unchanged.  DexProofs uses them in every     *)
(* step that makes a proposal.                                             *)
(***************************************************************************)
EXTENDS Dex, FiniteSetTheorems, SequenceTheorems, TLAPS

Collecting == INSTANCE FoldTheorems WITH Op <- CollectPrice
Gathering == INSTANCE FoldTheorems WITH Op <- CollectExtension
Sorting == INSTANCE FoldTheorems WITH Op <- Insert
Sizing == INSTANCE FoldTheorems WITH Op <- AddSize
Filling == INSTANCE FoldTheorems WITH Op <- AddFromMempool

-----------------------------------------------------------------------------
(* Maps. *)

Maps(K, V) == UNION {[D -> V] : D \in SUBSET K}

(* The entries of a map. *)
LEMMA MapGet ==
  ASSUME NEW K, NEW V, NEW f \in Maps(K, V)
  PROVE  /\ DOMAIN f \subseteq K /\ f \in [DOMAIN f -> V]
         /\ \A k \in DOMAIN f : k \in K /\ f[k] \in V
<1>1. PICK D \in SUBSET K : f \in [D -> V]
  BY DEF Maps
<1>2. QED
  BY <1>1

(* What is a map. *)
LEMMA MapIs ==
  ASSUME NEW K, NEW V, NEW D \in SUBSET K, NEW f \in [D -> V]
  PROVE  f \in Maps(K, V)
BY DEF Maps

(* The empty map. *)
LEMMA MapEmpty ==
  ASSUME NEW K, NEW V
  PROVE  <<>> \in Maps(K, V) /\ DOMAIN <<>> = {}
<1>1. DOMAIN <<>> = {} /\ <<>> \in [{} -> V]
  OBVIOUS
<1>2. QED
  BY <1>1, MapIs

(* The keys of a map after an assignment. *)
LEMMA PutDomain ==
  ASSUME NEW f, NEW k, NEW v
  PROVE  DOMAIN Put(f, k, v) = DOMAIN f \cup {k}
BY DEF Put

(* The value assigned. *)
LEMMA PutAt ==
  ASSUME NEW f, NEW k, NEW v
  PROVE  Put(f, k, v)[k] = v
BY DEF Put

(* The values that an assignment leaves. *)
LEMMA PutElsewhere ==
  ASSUME NEW f, NEW k, NEW v, NEW x \in DOMAIN f, x # k
  PROVE  Put(f, k, v)[x] = f[x]
BY DEF Put

(* An assignment makes a map of a map. *)
LEMMA PutMap ==
  ASSUME NEW K, NEW V, NEW f \in Maps(K, V), NEW k \in K, NEW v \in V
  PROVE  Put(f, k, v) \in Maps(K, V)
<1>1. DOMAIN f \subseteq K /\ \A x \in DOMAIN f : f[x] \in V
  BY MapGet
<1>2. Put(f, k, v) \in [DOMAIN f \cup {k} -> V]
  BY <1>1 DEF Put
<1>3. DOMAIN f \cup {k} \in SUBSET K
  BY <1>1
<1>4. QED
  BY <1>2, <1>3, MapIs

(* The keys of a map after a deletion. *)
LEMMA WithoutDomain ==
  ASSUME NEW f, NEW k
  PROVE  DOMAIN Without(f, k) = DOMAIN f \ {k}
BY DEF Without, Restrict

(* The values that a deletion leaves. *)
LEMMA WithoutElsewhere ==
  ASSUME NEW f, NEW k, NEW x \in DOMAIN f, x # k
  PROVE  Without(f, k)[x] = f[x]
BY DEF Without, Restrict

(* A deletion makes a map of a map. *)
LEMMA WithoutMap ==
  ASSUME NEW K, NEW V, NEW f \in Maps(K, V), NEW k
  PROVE  Without(f, k) \in Maps(K, V)
<1>1. DOMAIN f \subseteq K /\ \A x \in DOMAIN f : f[x] \in V
  BY MapGet
<1>2. Without(f, k) \in [DOMAIN f \ {k} -> V]
  BY <1>1 DEF Without, Restrict
<1>3. DOMAIN f \ {k} \in SUBSET K
  BY <1>1
<1>4. QED
  BY <1>2, <1>3, MapIs

-----------------------------------------------------------------------------
(* Amounts and prices. *)

(* A number less than the modulus is its own remainder. *)
LEMMA SmallMod ==
  ASSUME NEW m \in Nat \ {0}, NEW x \in 0 .. m - 1
  PROVE  x % m = x
OBVIOUS

(* Zero is an amount, and reducing gives one. *)
LEMMA AmountFacts ==
  /\ Amounts \subseteq Nat /\ 0 \in Amounts /\ 2^Width \in Nat \ {0}
  /\ \A x \in Int : x % 2^Width \in Amounts
  /\ \A x \in Nat : x < 2^Width => x \in Amounts /\ x % 2^Width = x
  /\ \A x \in Amounts : x < 2^Width
BY DexAssumption, SmallMod DEF Amounts

GoodPrices == Amounts \ {0}
GoodPairs == Seq(STRING) \ {<<>>}
PriceMap == {m \in Maps(GoodPairs, GoodPrices) : IsFiniteSet(DOMAIN m)}

-----------------------------------------------------------------------------
(* Proposals. *)

(* The folds of a proposal are those of FoldTheorems. *)
LEMMA ProposalFolds ==
  ASSUME NEW base, NEW seq
  PROVE  /\ FoldLeft(CollectPrice, base, seq) = Collecting!Fold(base, seq)
         /\ FoldLeft(CollectExtension, base, seq) = Gathering!Fold(base, seq)
         /\ FoldLeft(Insert, base, seq) = Sorting!Fold(base, seq)
         /\ FoldLeft(AddSize, base, seq) = Sizing!Fold(base, seq)
         /\ FoldLeft(AddFromMempool, base, seq) = Filling!Fold(base, seq)
<1>1. FoldLeft(CollectPrice, base, seq) = Collecting!Fold(base, seq)
  BY DEF FoldLeft, MapThenFoldSet, Max, Collecting!Fold, Collecting!FoldLeft,
     Collecting!MapThenFoldSet, Collecting!Max
<1>2. FoldLeft(CollectExtension, base, seq) = Gathering!Fold(base, seq)
  BY DEF FoldLeft, MapThenFoldSet, Max, Gathering!Fold, Gathering!FoldLeft,
     Gathering!MapThenFoldSet, Gathering!Max
<1>3. FoldLeft(Insert, base, seq) = Sorting!Fold(base, seq)
  BY DEF FoldLeft, MapThenFoldSet, Max, Sorting!Fold, Sorting!FoldLeft,
     Sorting!MapThenFoldSet, Sorting!Max
<1>4. FoldLeft(AddSize, base, seq) = Sizing!Fold(base, seq)
  BY DEF FoldLeft, MapThenFoldSet, Max, Sizing!Fold, Sizing!FoldLeft,
     Sizing!MapThenFoldSet, Sizing!Max
<1>5. FoldLeft(AddFromMempool, base, seq) = Filling!Fold(base, seq)
  BY DEF FoldLeft, MapThenFoldSet, Max, Filling!Fold, Filling!FoldLeft,
     Filling!MapThenFoldSet, Filling!Max
<1>6. QED
  BY <1>1, <1>2, <1>3, <1>4, <1>5

(* Prices as they are collected: for finitely many pairs, all usable. *)
Feeds == {m \in Maps(GoodPairs, Seq(GoodPrices) \ {<<>>}) : IsFiniteSet(DOMAIN m)}

(* One price more. *)
LEMMA CollectTyped ==
  ASSUME NEW m \in Feeds, NEW p \in PriceEntries
  PROVE  CollectPrice(m, p) \in Feeds
<1>1. CASE ~Usable(p)
  BY <1>1 DEF CollectPrice
<1>2. CASE Usable(p)
  <2> DEFINE old == IF p.pair \in DOMAIN m THEN m[p.pair] ELSE <<>>
             new == Append(old, p.price)
             V == Seq(GoodPrices) \ {<<>>}
  <2>1. p.pair \in GoodPairs /\ p.price \in GoodPrices
    BY <1>2, AmountFacts DEF PriceEntries, Usable, GoodPairs, GoodPrices
  <2>2. m \in Maps(GoodPairs, V) /\ IsFiniteSet(DOMAIN m)
    BY DEF Feeds
  <2>3. old \in Seq(GoodPrices)
    <3>1. CASE p.pair \in DOMAIN m
      <4>1. m[p.pair] \in V
        <5> HIDE DEF V
        <5>1. QED
          BY <2>2, <3>1, MapGet
      <4>2. QED
        BY <3>1, <4>1
    <3>2. CASE p.pair \notin DOMAIN m
      BY <3>2
    <3>3. QED
      BY <3>1, <3>2
  <2> HIDE DEF old
  <2>4. new \in V
    BY <2>1, <2>3
  <2>5. CollectPrice(m, p) = Put(m, p.pair, new)
    BY <1>2 DEF CollectPrice, old
  <2> HIDE DEF new, V
  <2>6. Put(m, p.pair, new) \in Maps(GoodPairs, V)
    BY <2>1, <2>2, <2>4, PutMap
  <2>7. DOMAIN Put(m, p.pair, new) = DOMAIN m \cup {p.pair}
    BY PutDomain
  <2>8. IsFiniteSet(DOMAIN m \cup {p.pair})
    BY <2>2, FS_AddElement
  <2>9. QED
    BY <2>5, <2>6, <2>7, <2>8 DEF Feeds, V
<1>3. QED
  BY <1>1, <1>2

(* The prices of all extensions. *)
LEMMA FeedsTyped ==
  ASSUME NEW exts \in Seq(Extensions)
  PROVE  pairPrices(exts) \in Feeds
<1>1. <<>> \in Feeds
  <2>1. <<>> \in Maps(GoodPairs, Seq(GoodPrices) \ {<<>>}) /\ DOMAIN <<>> = {}
    BY MapEmpty
  <2>2. QED
    BY <2>1, FS_EmptySet DEF Feeds
<1>2. ASSUME NEW m \in Feeds, NEW ext \in Extensions PROVE CollectExtension(m, ext) \in Feeds
  <2>1. CASE ext = Malformed
    BY <2>1 DEF CollectExtension
  <2>2. CASE ext # Malformed
    <3>1. ext \in Seq(PriceEntries)
      BY <2>2 DEF Extensions
    <3>2. \A x \in Feeds, p \in PriceEntries : CollectPrice(x, p) \in Feeds
      BY CollectTyped
    <3>3. Collecting!Fold(m, ext) \in Feeds
      BY <3>1, <3>2, Collecting!FoldWithin
    <3>4. CollectExtension(m, ext) = FoldLeft(CollectPrice, m, ext)
      BY <2>2 DEF CollectExtension
    <3>5. FoldLeft(CollectPrice, m, ext) = Collecting!Fold(m, ext)
      BY ProposalFolds
    <3>6. CollectExtension(m, ext) = Collecting!Fold(m, ext)
      BY <3>4, <3>5
    <3>7. QED
      BY <3>3, <3>6
  <2>3. QED
    BY <2>1, <2>2
<1>3. Gathering!Fold(<<>>, exts) \in Feeds
  BY <1>1, <1>2, Gathering!FoldWithin
<1>4. pairPrices(exts) = Gathering!Fold(<<>>, exts)
  BY ProposalFolds DEF pairPrices
<1>5. QED
  BY <1>3, <1>4

(* Inserting makes a sequence longer by one. *)
LEMMA InsertEffect ==
  ASSUME NEW A, A \subseteq Nat, NEW sorted \in Seq(A), NEW v \in A
  PROVE  Insert(sorted, v) \in Seq(A) /\ Len(Insert(sorted, v)) = Len(sorted) + 1
<1> DEFINE n == Len(sorted)
           T == {i \in DOMAIN sorted : sorted[i] <= v}
           k == Cardinality(T)
<1>1. n \in Nat /\ DOMAIN sorted = 1 .. n
  OBVIOUS
<1>2. IsFiniteSet(1 .. n) /\ Cardinality(1 .. n) = n
  <2> HIDE DEF n
  <2>1. /\ IsFiniteSet(1 .. n)
        /\ Cardinality(1 .. n) = IF 1 > n THEN 0 ELSE n - 1 + 1
    BY <1>1, FS_Interval
  <2>2. QED
    BY <1>1, <2>1
<1>3. T \in SUBSET (1 .. n)
  BY <1>1
<1>4. Insert(sorted, v) = SubSeq(sorted, 1, (k + 1) - 1) \o <<v>> \o SubSeq(sorted, k + 1, Len(sorted))
  BY DEF Insert, InsertAt
<1> HIDE DEF T
<1>5. IsFiniteSet(T) /\ k <= n
  BY <1>2, <1>3, FS_Subset
<1>6. k \in Nat
  BY <1>5, FS_CardinalityType
<1> HIDE DEF k
<1> DEFINE front == SubSeq(sorted, 1, (k + 1) - 1)
           back == SubSeq(sorted, k + 1, Len(sorted))
<1>7. (k + 1) - 1 = k
  BY <1>6
<1>8. front \in Seq(A) /\ Len(front) = k
  BY <1>1, <1>5, <1>6, <1>7
<1>9. back \in Seq(A) /\ Len(back) = n - k
  <2>1. \A i \in k + 1 .. n : sorted[i] \in A
    BY <1>1, <1>6
  <2>2. k + 1 \in Int /\ n \in Int
    BY <1>1, <1>6
  <2>3. /\ SubSeq(sorted, k + 1, n) \in Seq(A)
        /\ Len(SubSeq(sorted, k + 1, n)) = IF k + 1 <= n THEN n - (k + 1) + 1 ELSE 0
    <3> HIDE DEF n
    <3>1. QED
      BY <2>1, <2>2, SubSeqProperties
  <2>4. (IF k + 1 <= n THEN n - (k + 1) + 1 ELSE 0) = n - k
    <3> HIDE DEF n
    <3>1. CASE k + 1 <= n
      BY <1>1, <1>6, <3>1
    <3>2. CASE ~(k + 1 <= n)
      <4>1. n = k
        BY <1>1, <1>5, <1>6, <3>2
      <4>2. QED
        BY <1>6, <3>2, <4>1
    <3>3. QED
      BY <3>1, <3>2
  <2>5. QED
    BY <2>3, <2>4
<1> HIDE DEF front, back
<1>10. front \o <<v>> \in Seq(A) /\ Len(front \o <<v>>) = k + 1
  BY <1>8
<1>11. (front \o <<v>>) \o back \in Seq(A) /\ Len((front \o <<v>>) \o back) = (k + 1) + (n - k)
  BY <1>9, <1>10
<1>12. (k + 1) + (n - k) = n + 1
  BY <1>1, <1>6
<1>13. QED
  BY <1>4, <1>11, <1>12 DEF front, back

(* Sorting keeps the length and the kind of the values. *)
LEMMA SortedTyped ==
  ASSUME NEW A, A \subseteq Nat, NEW vals \in Seq(A)
  PROVE  Sorted(vals) \in Seq(A) /\ Len(Sorted(vals)) = Len(vals)
<1> DEFINE n == Len(vals)
<1>1. n \in Nat /\ \A i \in 1 .. n : vals[i] \in A
  OBVIOUS
<1>2. Sorted(vals) = Sorting!Fold(<<>>, vals)
  BY ProposalFolds DEF Sorted
<1>3. PICK f : Sorting!Trace(f, <<>>, vals, n) /\ Sorting!Fold(<<>>, vals) = f[n]
  BY Sorting!FoldTrace
<1> DEFINE Right(s, i) == s \in Seq(A) /\ Len(s) = i
           S == {i \in 0 .. n : Right(f[i], i)}
<1> HIDE DEF n
<1>4. 0 \in S
  <2>1. f[0] = <<>>
    BY <1>3 DEF Sorting!Trace
  <2>2. Right(<<>>, 0)
    OBVIOUS
  <2> HIDE DEF Right
  <2>3. QED
    BY <1>1, <2>1, <2>2
<1>5. ASSUME NEW i \in 0 .. n - 1, i \in S PROVE i + 1 \in S
  <2>1. i + 1 \in 1 .. n /\ (i + 1) - 1 = i
    BY <1>1
  <2>2. f[i + 1] = Insert(f[i], vals[i + 1])
    BY <1>3, <2>1 DEF Sorting!Trace
  <2> DEFINE g == f[i]
             v == vals[i + 1]
  <2>3. g \in Seq(A) /\ Len(g) = i /\ v \in A
    BY <1>1, <1>5, <2>1
  <2> HIDE DEF g, v
  <2>4. Insert(g, v) \in Seq(A) /\ Len(Insert(g, v)) = Len(g) + 1
    BY <2>3, InsertEffect
  <2>5. Right(f[i + 1], i + 1)
    BY <2>2, <2>3, <2>4 DEF g, v
  <2> HIDE DEF Right
  <2>6. QED
    BY <1>1, <2>1, <2>5
<1>6. n \in S
  <2> HIDE DEF S
  <2>1. \A i \in 0 .. n : i \in S
    BY <1>1, <1>4, <1>5, Sorting!UpTo
  <2>2. QED
    BY <1>1, <2>1
<1>7. QED
  BY <1>2, <1>3, <1>6 DEF n

(* The median of usable prices is a usable price. *)
LEMMA MedianGood ==
  ASSUME NEW vals \in Seq(GoodPrices), vals # <<>>
  PROVE  median(vals) \in GoodPrices
<1>1. GoodPrices \subseteq Nat
  BY AmountFacts DEF GoodPrices
<1>2. Sorted(vals) \in Seq(GoodPrices) /\ Len(Sorted(vals)) = Len(vals)
  BY <1>1, SortedTyped
<1>3. Len(vals) \in Nat /\ Len(vals) # 0
  OBVIOUS
<1>4. Len(vals) \div 2 + 1 \in 1 .. Len(vals)
  BY <1>3
<1>5. QED
  BY <1>2, <1>4 DEF median

(* A finite set as a sequence. *)
LEMMA SetToSeqFacts ==
  ASSUME NEW S, IsFiniteSet(S)
  PROVE  /\ SetToSeq(S) \in [1 .. Cardinality(S) -> S] /\ IsInjective(SetToSeq(S))
         /\ Cardinality(S) \in Nat
<1>1. Cardinality(S) \in Nat /\ ExistsBijection(1 .. Cardinality(S), S)
  BY FS_CardinalityType
<1>2. \E f \in [1 .. Cardinality(S) -> S] : IsInjective(f)
  BY <1>1 DEF ExistsBijection, Bijection, Injection
<1>3. QED
  BY <1>1, <1>2 DEF SetToSeq

(* An oracle update that VerifyProposal is content with. *)
GoodOracle(tx) == tx.prices # Malformed /\ \A p \in Range(tx.prices) : Usable(p)

(* What is built from extensions is nothing, or one good oracle update. *)
LEMMA OracleBuilt ==
  ASSUME NEW exts \in Seq(Extensions)
  PROVE  LET built == buildOracleTxFromExtensions(exts) IN
         built # <<>> => \E tx \in Transactions : built = <<tx>> /\ IsOracle(tx) /\ GoodOracle(tx)
<1> DEFINE prices == pairPrices(exts)
           pairs == SetToSeq(DOMAIN prices)
           entries == [i \in 1 .. Len(pairs) |->
                         [pair |-> pairs[i], price |-> median(prices[pairs[i]])]]
           size == 1 + OracleEntrySize * Len(pairs)
           tx == [type |-> "oracle_update", size |-> size, prices |-> entries]
           built == buildOracleTxFromExtensions(exts)
<1>1. prices \in Feeds
  BY FeedsTyped
<1>2. built = IF DOMAIN prices = {} THEN <<>> ELSE <<tx>>
  BY DEF buildOracleTxFromExtensions
<1> HIDE DEF prices
<1>3. IsFiniteSet(DOMAIN prices) /\ prices \in Maps(GoodPairs, Seq(GoodPrices) \ {<<>>})
  BY <1>1 DEF Feeds
<1>4. /\ pairs \in [1 .. Cardinality(DOMAIN prices) -> DOMAIN prices]
      /\ Cardinality(DOMAIN prices) \in Nat
  BY <1>3, SetToSeqFacts
<1> HIDE DEF pairs
<1>5. pairs \in Seq(DOMAIN prices) /\ Len(pairs) \in Nat
  <2>1. pairs \in Seq(DOMAIN prices)
    BY <1>4
  <2>2. QED
    BY <2>1
<1>6. ASSUME NEW i \in 1 .. Len(pairs)
      PROVE  /\ entries[i] \in PriceEntries /\ Usable(entries[i])
  <2>1. pairs[i] \in DOMAIN prices
    BY <1>5
  <2>2. pairs[i] \in GoodPairs /\ prices[pairs[i]] \in Seq(GoodPrices) \ {<<>>}
    BY <1>3, <2>1, MapGet
  <2>3. median(prices[pairs[i]]) \in GoodPrices
    BY <2>2, MedianGood
  <2>4. entries[i] = [pair |-> pairs[i], price |-> median(prices[pairs[i]])]
    OBVIOUS
  <2> HIDE DEF entries
  <2>5. ASSUME NEW v \in GoodPrices PROVE v \in Amounts /\ v > 0
    <3>1. v \in Amounts /\ v # 0
      BY DEF GoodPrices
    <3>2. v \in Nat
      BY <3>1, AmountFacts
    <3>3. QED
      BY <3>1, <3>2
  <2>6. median(prices[pairs[i]]) \in Amounts /\ median(prices[pairs[i]]) > 0
    BY <2>3, <2>5
  <2>7. QED
    BY <2>2, <2>4, <2>6 DEF PriceEntries, Usable, GoodPairs
<1>7. DOMAIN entries = 1 .. Len(pairs)
  OBVIOUS
<1>8. entries \in [1 .. Len(pairs) -> PriceEntries]
  <2>1. \A i \in 1 .. Len(pairs) : entries[i] \in PriceEntries
    BY <1>6
  <2>2. entries = [i \in 1 .. Len(pairs) |-> entries[i]]
    OBVIOUS
  <2> HIDE DEF entries
  <2>3. QED
    BY <2>1, <2>2
<1> HIDE DEF entries
<1>9. entries \in Seq(PriceEntries)
  BY <1>5, <1>8
<1>10. size \in Nat
  <2>1. OracleEntrySize \in Nat
    BY DexAssumption
  <2>2. OracleEntrySize * Len(pairs) \in Nat
    BY <1>5, <2>1
  <2>3. QED
    BY <2>2
<1> HIDE DEF size
<1>11. tx \in Transactions
  BY <1>9, <1>10 DEF Transactions, Extensions
<1>12. IsOracle(tx) /\ tx.prices = entries
  BY DEF IsOracle
<1> HIDE DEF tx
<1>13. \A p \in Range(entries) : Usable(p)
  BY <1>6, <1>7 DEF Range
<1>14. GoodOracle(tx)
  BY <1>9, <1>12, <1>13, DexAssumption DEF GoodOracle
<1>15. QED
  BY <1>2, <1>11, <1>12, <1>14

(* The size of no transactions, and of one more. *)
LEMMA SizeFacts ==
  /\ TotalSize(<<>>) = 0
  /\ \A txs \in Seq(Transactions), tx \in Transactions :
       TotalSize(Append(txs, tx)) = TotalSize(txs) + tx.size
<1>1. \A txs : TotalSize(txs) = Sizing!Fold(0, txs)
  BY ProposalFolds DEF TotalSize
<1>2. TotalSize(<<>>) = 0
  BY <1>1, Sizing!FoldEmpty
<1>3. ASSUME NEW txs \in Seq(Transactions), NEW tx \in Transactions
      PROVE  TotalSize(Append(txs, tx)) = TotalSize(txs) + tx.size
  <2>1. Sizing!Fold(0, Append(txs, tx)) = AddSize(Sizing!Fold(0, txs), tx)
    BY Sizing!FoldAppend
  <2>2. TotalSize(Append(txs, tx)) = AddSize(TotalSize(txs), tx)
    BY <1>1, <2>1
  <2>3. QED
    BY <2>2 DEF AddSize
<1>4. QED
  BY <1>2, <1>3

(* Transactions that fit into a block, with an oracle update in front if any. *)
Fitting ==
    {txs \in Seq(Transactions) :
        /\ TotalSize(txs) \in Nat /\ TotalSize(txs) <= MaxTxBytes
        /\ \A i \in 1 .. Len(txs) : IsOracle(txs[i]) => i = 1 /\ GoodOracle(txs[i])}

(* A proposal of one's own fits, and has an oracle update in front or none. *)
LEMMA ProposalBuilt ==
  ASSUME NEW exts \in Seq(Extensions), NEW mempool \in Seq(Transactions)
  PROVE  BuildProposal(exts, mempool) \in Fitting
<1> DEFINE built == buildOracleTxFromExtensions(exts)
           fits == built # <<>> /\ built[1].size <= MaxTxBytes
           base == IF fits THEN built ELSE <<>>
<1>1. <<>> \in Fitting
  <2>1. <<>> \in Seq(Transactions) /\ Len(<<>>) = 0
    OBVIOUS
  <2>2. QED
    BY <2>1, SizeFacts, DexAssumption DEF Fitting
<1>2. base \in Fitting
  <2>1. CASE ~fits
    BY <1>1, <2>1
  <2>2. CASE fits
    <3>1. PICK tx \in Transactions : built = <<tx>> /\ IsOracle(tx) /\ GoodOracle(tx)
      BY <2>2, OracleBuilt
    <3>2. built[1] = tx /\ base = built
      BY <2>2, <3>1
    <3>3. tx.size <= MaxTxBytes
      BY <2>2, <3>2
    <3> HIDE DEF built, fits, base
    <3>4. tx.size \in Nat
      BY DEF Transactions
    <3>5. <<>> \in Seq(Transactions) /\ <<tx>> = Append(<<>>, tx)
      OBVIOUS
    <3>6. TotalSize(Append(<<>>, tx)) = TotalSize(<<>>) + tx.size
      BY <3>5, SizeFacts
    <3>7. TotalSize(<<tx>>) = tx.size
      BY <3>4, <3>5, <3>6, SizeFacts
    <3>8. <<tx>> \in Seq(Transactions) /\ Len(<<tx>>) = 1 /\ <<tx>>[1] = tx
      OBVIOUS
    <3>9. <<tx>> \in Fitting
      BY <3>1, <3>3, <3>4, <3>7, <3>8 DEF Fitting
    <3>10. QED
      BY <3>1, <3>2, <3>9
  <2>3. QED
    BY <2>1, <2>2
<1>3. ASSUME NEW txs \in Fitting, NEW tx \in Transactions PROVE AddFromMempool(txs, tx) \in Fitting
  <2>1. CASE TotalSize(txs) + tx.size > MaxTxBytes \/ IsOracle(tx)
    BY <2>1 DEF AddFromMempool
  <2>2. CASE ~(TotalSize(txs) + tx.size > MaxTxBytes \/ IsOracle(tx))
    <3> DEFINE new == Append(txs, tx)
    <3>1. AddFromMempool(txs, tx) = new
      BY <2>2 DEF AddFromMempool
    <3>2. txs \in Seq(Transactions) /\ TotalSize(txs) \in Nat
      BY DEF Fitting
    <3>3. \A i \in 1 .. Len(txs) : IsOracle(txs[i]) => i = 1 /\ GoodOracle(txs[i])
      BY DEF Fitting
    <3>4. tx.size \in Nat
      BY DEF Transactions
    <3>5. TotalSize(new) = TotalSize(txs) + tx.size
      BY <3>2, SizeFacts
    <3>6. TotalSize(new) \in Nat /\ TotalSize(new) <= MaxTxBytes
      BY <2>2, <3>2, <3>4, <3>5, DexAssumption
    <3>7. /\ new \in Seq(Transactions) /\ Len(new) = Len(txs) + 1 /\ new[Len(txs) + 1] = tx
          /\ \A i \in 1 .. Len(txs) : new[i] = txs[i]
      BY <3>2
    <3> HIDE DEF new
    <3>8. Len(txs) \in Nat
      BY <3>2
    <3>9. ASSUME NEW i \in 1 .. Len(new), IsOracle(new[i]) PROVE i = 1 /\ GoodOracle(new[i])
      <4>1. i # Len(txs) + 1
        BY <2>2, <3>7, <3>9
      <4>2. i \in 1 .. Len(txs)
        BY <3>7, <3>8, <4>1
      <4>3. QED
        BY <3>3, <3>7, <3>9, <4>2
    <3>10. QED
      BY <3>1, <3>6, <3>7, <3>9 DEF Fitting
  <2>3. QED
    BY <2>1, <2>2
<1>4. BuildProposal(exts, mempool) = FoldLeft(AddFromMempool, base, mempool)
  BY DEF BuildProposal
<1> HIDE DEF base
<1>5. Filling!Fold(base, mempool) \in Fitting
  BY <1>2, <1>3, Filling!FoldWithin
<1>6. FoldLeft(AddFromMempool, base, mempool) = Filling!Fold(base, mempool)
  BY ProposalFolds
<1>7. BuildProposal(exts, mempool) = Filling!Fold(base, mempool)
  BY <1>4, <1>6
<1>8. QED
  BY <1>5, <1>7


-----------------------------------------------------------------------------
(* The way of the committed prices through a vote extension. *)

(* A finite set as a sequence has every element. *)
LEMMA SetToSeqOnto ==
  ASSUME NEW S, IsFiniteSet(S), NEW x \in S
  PROVE  \E i \in 1 .. Cardinality(S) : SetToSeq(S)[i] = x
<1> DEFINE f == SetToSeq(S)
           n == Cardinality(S)
<1>1. f \in [1 .. n -> S] /\ IsInjective(f) /\ n \in Nat
  BY SetToSeqFacts
<1>2. f \in Injection(1 .. n, S)
  BY <1>1 DEF Injection, IsInjective
<1>3. IsFiniteSet(1 .. n) /\ Cardinality(1 .. n) = n
  <2> HIDE DEF n
  <2>1. /\ IsFiniteSet(1 .. n)
        /\ Cardinality(1 .. n) = IF 1 > n THEN 0 ELSE n - 1 + 1
    BY <1>1, FS_Interval
  <2>2. QED
    BY <1>1, <2>1
<1>4. f \in Surjection(1 .. n, S)
  <2> HIDE DEF f
  <2>1. Cardinality(1 .. n) = Cardinality(S)
    BY <1>3
  <2>2. QED
    BY <1>2, <2>1, FS_Injection
<1>5. QED
  BY <1>4 DEF Surjection

(* The median of one value. *)
LEMMA MedianOne ==
  ASSUME NEW v \in Nat
  PROVE  median(<<v>>) = v
<1>1. {v} \subseteq Nat /\ <<v>> \in Seq({v}) /\ Len(<<v>>) = 1
  OBVIOUS
<1>2. Sorted(<<v>>) \in Seq({v}) /\ Len(Sorted(<<v>>)) = 1
  BY <1>1, SortedTyped
<1>3. Sorted(<<v>>)[1] = v
  BY <1>2
<1>4. 1 \div 2 + 1 = 1
  OBVIOUS
<1>5. QED
  BY <1>1, <1>3, <1>4 DEF median

(* The extension of a map of prices: ExtendVote, for any map. *)
Extended(m) ==
    LET pairs == SetToSeq(DOMAIN m) IN
    [i \in DOMAIN pairs |-> [pair |-> pairs[i], price |-> m[pairs[i]]]]

(* Its entries are those of the map, each usable and once. *)
LEMMA ExtendedFacts ==
  ASSUME NEW m \in PriceMap
  PROVE  LET n == Cardinality(DOMAIN m)
             pairs == SetToSeq(DOMAIN m)
         IN /\ n \in Nat /\ Extended(m) \in Seq(PriceEntries) /\ Len(Extended(m)) = n
            /\ \A i \in 1 .. n : /\ pairs[i] \in DOMAIN m /\ Usable(Extended(m)[i])
                                 /\ Extended(m)[i] = [pair |-> pairs[i], price |-> m[pairs[i]]]
            /\ \A i, j \in 1 .. n : pairs[i] = pairs[j] => i = j
<1> DEFINE n == Cardinality(DOMAIN m)
           pairs == SetToSeq(DOMAIN m)
           ext == Extended(m)
<1>1. m \in Maps(GoodPairs, GoodPrices) /\ IsFiniteSet(DOMAIN m)
  BY DEF PriceMap
<1>2. pairs \in [1 .. n -> DOMAIN m] /\ IsInjective(pairs) /\ n \in Nat
  BY <1>1, SetToSeqFacts
<1>3. ext = [i \in DOMAIN pairs |-> [pair |-> pairs[i], price |-> m[pairs[i]]]]
  BY DEF Extended
<1> HIDE DEF n, pairs, ext
<1>4. \A i \in 1 .. n : pairs[i] \in DOMAIN m /\ ext[i] = [pair |-> pairs[i], price |-> m[pairs[i]]]
  BY <1>2, <1>3
<1>5. ASSUME NEW i \in 1 .. n PROVE ext[i] \in PriceEntries /\ Usable(ext[i])
  <2> DEFINE p == pairs[i]
  <2>1. p \in DOMAIN m /\ ext[i] = [pair |-> p, price |-> m[p]]
    BY <1>4
  <2> HIDE DEF p
  <2>2. p \in GoodPairs /\ m[p] \in GoodPrices
    BY <1>1, <2>1, MapGet
  <2>3. m[p] \in Amounts /\ m[p] # 0
    BY <2>2 DEF GoodPrices
  <2>4. m[p] > 0
    <3>1. m[p] \in Nat
      BY <2>3, AmountFacts
    <3>2. QED
      BY <2>3, <3>1
  <2>5. QED
    BY <2>1, <2>2, <2>3, <2>4 DEF PriceEntries, Usable, GoodPairs
<1>6. ext \in [1 .. n -> PriceEntries]
  BY <1>2, <1>3, <1>5
<1>7. ext \in Seq(PriceEntries) /\ Len(ext) = n
  BY <1>2, <1>6
<1>8. \A i, j \in 1 .. n : pairs[i] = pairs[j] => i = j
  BY <1>2 DEF IsInjective
<1>9. QED
  BY <1>2, <1>4, <1>5, <1>7, <1>8 DEF n, pairs, ext

(* Collected again, they are a price for every pair of the map. *)
LEMMA CollectExtended ==
  ASSUME NEW m \in PriceMap
  PROVE  pairPrices(<<Extended(m)>>) = [p \in DOMAIN m |-> <<m[p]>>]
<1> DEFINE n == Cardinality(DOMAIN m)
           pairs == SetToSeq(DOMAIN m)
           ext == Extended(m)
           First(i) == [p \in {pairs[j] : j \in 1 .. i} |-> <<m[p]>>]
<1>1. n \in Nat /\ ext \in Seq(PriceEntries) /\ Len(ext) = n
  BY ExtendedFacts
<1>2. \A i \in 1 .. n : /\ pairs[i] \in DOMAIN m /\ Usable(ext[i])
                        /\ ext[i] = [pair |-> pairs[i], price |-> m[pairs[i]]]
  BY ExtendedFacts
<1>3. \A i, j \in 1 .. n : pairs[i] = pairs[j] => i = j
  BY ExtendedFacts
<1>4. {pairs[j] : j \in 1 .. n} = DOMAIN m
  <2>1. IsFiniteSet(DOMAIN m)
    BY DEF PriceMap
  <2>2. \A x \in DOMAIN m : \E i \in 1 .. n : pairs[i] = x
    BY <2>1, SetToSeqOnto
  <2>3. QED
    BY <1>2, <2>2
<1>5. pairPrices(<<ext>>) = CollectExtension(<<>>, ext)
  <2>1. pairPrices(<<ext>>) = Gathering!Fold(<<>>, <<ext>>)
    BY ProposalFolds DEF pairPrices
  <2> HIDE DEF ext
  <2>2. <<ext>> = Append(<<>>, ext) /\ <<>> \in Seq({ext}) /\ ext \in {ext}
    OBVIOUS
  <2>3. Gathering!Fold(<<>>, Append(<<>>, ext)) = CollectExtension(Gathering!Fold(<<>>, <<>>), ext)
    BY <2>2, Gathering!FoldAppend
  <2>4. Gathering!Fold(<<>>, <<>>) = <<>>
    BY Gathering!FoldEmpty
  <2>5. QED
    BY <2>1, <2>2, <2>3, <2>4
<1>6. CollectExtension(<<>>, ext) = Collecting!Fold(<<>>, ext)
  <2>1. ext # Malformed
    BY <1>1, DexAssumption
  <2>2. FoldLeft(CollectPrice, <<>>, ext) = Collecting!Fold(<<>>, ext)
    BY ProposalFolds
  <2>3. QED
    BY <2>1, <2>2 DEF CollectExtension
<1> HIDE DEF n, pairs, ext
<1>7. PICK f : Collecting!Trace(f, <<>>, ext, n) /\ Collecting!Fold(<<>>, ext) = f[n]
  BY <1>1, Collecting!FoldTrace
<1> DEFINE S == {i \in 0 .. n : f[i] = First(i)}
<1>8. 0 \in S
  <2>1. f[0] = <<>>
    BY <1>7 DEF Collecting!Trace
  <2>2. {pairs[j] : j \in 1 .. 0} = {}
    OBVIOUS
  <2>3. First(0) = <<>>
    BY <2>2
  <2> HIDE DEF First
  <2>4. QED
    BY <1>1, <2>1, <2>3
<1>9. ASSUME NEW i \in 0 .. n - 1, i \in S PROVE i + 1 \in S
  <2>1. i + 1 \in 1 .. n /\ (i + 1) - 1 = i
    BY <1>1
  <2> DEFINE p == pairs[i + 1]
  <2>2. f[i + 1] = CollectPrice(f[i], ext[i + 1])
    BY <1>7, <2>1 DEF Collecting!Trace
  <2>3. f[i] = First(i)
    BY <1>9
  <2>4. p \notin {pairs[j] : j \in 1 .. i}
    <3>1. ASSUME NEW j \in 1 .. i PROVE pairs[j] # p
      <4>1. j \in 1 .. n /\ j # i + 1
        BY <1>1
      <4>2. QED
        BY <1>3, <2>1, <4>1
    <3>2. QED
      BY <3>1
  <2>5. Usable(ext[i + 1]) /\ ext[i + 1].pair = p /\ ext[i + 1].price = m[p]
    <3>1. Usable(ext[i + 1]) /\ ext[i + 1] = [pair |-> pairs[i + 1], price |-> m[pairs[i + 1]]]
      BY <1>2, <2>1
    <3>2. QED
      BY <3>1
  <2>6. {pairs[j] : j \in 1 .. i + 1} = {pairs[j] : j \in 1 .. i} \cup {p}
    <3>1. 1 .. i + 1 = (1 .. i) \cup {i + 1}
      BY <1>1
    <3>2. QED
      BY <3>1
  <2> HIDE DEF p
  <2>7. DOMAIN First(i) = {pairs[j] : j \in 1 .. i}
    OBVIOUS
  <2>8. CollectPrice(First(i), ext[i + 1]) = Put(First(i), p, <<m[p]>>)
    <3>1. p \notin DOMAIN First(i) /\ Append(<<>>, m[p]) = <<m[p]>>
      BY <2>4, <2>7
    <3> HIDE DEF First
    <3>2. QED
      BY <2>5, <3>1 DEF CollectPrice
  <2>9. Put(First(i), p, <<m[p]>>) = First(i + 1)
    BY <2>4, <2>6, <2>7 DEF Put
  <2> HIDE DEF First
  <2>10. QED
    BY <1>1, <2>1, <2>2, <2>3, <2>8, <2>9
<1>10. n \in S
  <2> HIDE DEF S
  <2>1. \A i \in 0 .. n : i \in S
    BY <1>1, <1>8, <1>9, Collecting!UpTo
  <2>2. QED
    BY <1>1, <2>1
<1>11. f[n] = [p \in DOMAIN m |-> <<m[p]>>]
  BY <1>4, <1>10
<1>12. QED
  BY <1>5, <1>6, <1>7, <1>11 DEF ext


(* Built from the extension of a map alone, an oracle update has its prices. *)
LEMMA BuiltFromExtended ==
  ASSUME NEW m \in PriceMap
  PROVE  LET built == buildOracleTxFromExtensions(<<Extended(m)>>)
             back == IF built = <<>> THEN {} ELSE Range(built[1].prices)
         IN back = {[pair |-> p, price |-> m[p]] : p \in DOMAIN m}
<1> DEFINE prices == pairPrices(<<Extended(m)>>)
           pairs == SetToSeq(DOMAIN prices)
           entries == [i \in 1 .. Len(pairs) |->
                         [pair |-> pairs[i], price |-> median(prices[pairs[i]])]]
           tx == [type |-> "oracle_update", size |-> 1 + OracleEntrySize * Len(pairs), prices |-> entries]
           built == buildOracleTxFromExtensions(<<Extended(m)>>)
           back == IF built = <<>> THEN {} ELSE Range(built[1].prices)
           kept == {[pair |-> p, price |-> m[p]] : p \in DOMAIN m}
           n == Cardinality(DOMAIN m)
<1>1. built = IF DOMAIN prices = {} THEN <<>> ELSE <<tx>>
  BY DEF buildOracleTxFromExtensions
<1>2. prices = [p \in DOMAIN m |-> <<m[p]>>]
  BY CollectExtended
<1> HIDE DEF prices
<1>3. DOMAIN prices = DOMAIN m
  BY <1>2
<1>4. m \in Maps(GoodPairs, GoodPrices) /\ IsFiniteSet(DOMAIN m)
  BY DEF PriceMap
<1>5. pairs \in [1 .. n -> DOMAIN m] /\ n \in Nat
  BY <1>3, <1>4, SetToSeqFacts
<1>6. \A x \in DOMAIN m : \E i \in 1 .. n : pairs[i] = x
  BY <1>3, <1>4, SetToSeqOnto
<1> HIDE DEF pairs, n
<1>7. Len(pairs) = n
  BY <1>5
<1>8. ASSUME NEW p \in DOMAIN m PROVE median(prices[p]) = m[p]
  <2>1. prices[p] = <<m[p]>>
    BY <1>2
  <2>2. m[p] \in GoodPrices
    BY <1>4, MapGet
  <2>3. m[p] \in Nat
    BY <2>2, AmountFacts DEF GoodPrices
  <2>4. median(<<m[p]>>) = m[p]
    BY <2>3, MedianOne
  <2>5. QED
    BY <2>1, <2>4
<1>9. ASSUME NEW i \in 1 .. n
      PROVE  pairs[i] \in DOMAIN m /\ entries[i] = [pair |-> pairs[i], price |-> m[pairs[i]]]
  <2>1. pairs[i] \in DOMAIN m
    BY <1>5
  <2>2. entries[i] = [pair |-> pairs[i], price |-> median(prices[pairs[i]])]
    BY <1>7
  <2> HIDE DEF entries
  <2>3. QED
    BY <1>8, <2>1, <2>2
<1>10. DOMAIN entries = 1 .. n
  BY <1>7
<1> HIDE DEF entries
<1>11. Range(entries) = kept
  <2>1. ASSUME NEW x \in Range(entries) PROVE x \in kept
    <3>1. PICK i \in 1 .. n : x = entries[i]
      BY <1>10 DEF Range
    <3>2. QED
      BY <1>9, <3>1
  <2>2. ASSUME NEW p \in DOMAIN m PROVE [pair |-> p, price |-> m[p]] \in Range(entries)
    <3>1. PICK i \in 1 .. n : pairs[i] = p
      BY <1>6
    <3>2. entries[i] = [pair |-> p, price |-> m[p]]
      BY <1>9, <3>1
    <3>3. QED
      BY <1>10, <3>2 DEF Range
  <2>3. QED
    BY <2>1, <2>2
<1>12. CASE DOMAIN m = {}
  <2>1. built = <<>> /\ kept = {}
    BY <1>1, <1>3, <1>12
  <2>2. QED
    BY <2>1
<1>13. CASE DOMAIN m # {}
  <2>1. built = <<tx>>
    BY <1>1, <1>3, <1>13
  <2> HIDE DEF built
  <2>2. built # <<>> /\ built[1] = tx
    BY <2>1
  <2>3. tx.prices = entries
    OBVIOUS
  <2> HIDE DEF tx
  <2>4. back = Range(entries)
    BY <2>2, <2>3
  <2>5. QED
    BY <1>11, <2>4 DEF built
<1>14. QED
  BY <1>12, <1>13


-----------------------------------------------------------------------------
(* Sorting, and what it counts. *)

(* The places of a sequence that hold a value of X, and how many they are. *)
Places(s, X) == {i \in 1 .. Len(s) : s[i] \in X}
Count(s, X) == Cardinality(Places(s, X))

Ordered(s) == \A i, j \in 1 .. Len(s) : i <= j => s[i] <= s[j]

(* The numbers up to n. *)
LEMMA UpToFinite ==
  ASSUME NEW n \in Nat
  PROVE  IsFiniteSet(1 .. n) /\ Cardinality(1 .. n) = n
<1>1. IsFiniteSet(1 .. n) /\ Cardinality(1 .. n) = IF 1 > n THEN 0 ELSE n - 1 + 1
  BY FS_Interval
<1>2. QED
  BY <1>1

(* A count is at most the length, and is that when every value counts. *)
LEMMA CountFacts ==
  ASSUME NEW A, NEW s \in Seq(A), NEW X
  PROVE  /\ IsFiniteSet(Places(s, X)) /\ Count(s, X) \in Nat
         /\ A \subseteq X => Count(s, X) = Len(s)
<1> DEFINE n == Len(s)
<1>1. n \in Nat /\ \A i \in 1 .. n : s[i] \in A
  OBVIOUS
<1>2. Places(s, X) \in SUBSET (1 .. n) /\ (A \subseteq X => Places(s, X) = 1 .. n)
  BY <1>1 DEF Places
<1> HIDE DEF n
<1>3. IsFiniteSet(1 .. n) /\ Cardinality(1 .. n) = n
  BY <1>1, UpToFinite
<1>4. IsFiniteSet(Places(s, X))
  BY <1>2, <1>3, FS_Subset
<1>5. Count(s, X) \in Nat
  BY <1>4, FS_CardinalityType DEF Count
<1>6. A \subseteq X => Count(s, X) = n
  BY <1>2, <1>3 DEF Count
<1>7. QED
  BY <1>4, <1>5, <1>6 DEF n

(* One place more counts if its value does. *)
LEMMA CountOneMore ==
  ASSUME NEW P, NEW Q, NEW x, IsFiniteSet(P), x \notin P, Q = P \cup {x}
  PROVE  IsFiniteSet(Q) /\ Cardinality(Q) = Cardinality(P) + 1
BY FS_AddElement

(* Appending. *)
LEMMA CountAppend ==
  ASSUME NEW A, NEW s \in Seq(A), NEW v \in A, NEW X
  PROVE  Count(Append(s, v), X) = Count(s, X) + IF v \in X THEN 1 ELSE 0
<1> DEFINE n == Len(s)
           t == Append(s, v)
<1>1. /\ n \in Nat /\ Len(t) = n + 1 /\ t[n + 1] = v
      /\ \A i \in 1 .. n : t[i] = s[i]
  OBVIOUS
<1>2. IsFiniteSet(Places(s, X)) /\ Count(s, X) \in Nat
  BY CountFacts
<1>3. Places(s, X) \subseteq 1 .. n
  BY DEF Places
<1> HIDE DEF n, t
<1>4. 1 .. n + 1 = (1 .. n) \cup {n + 1} /\ n + 1 \notin 1 .. n
  BY <1>1
<1>5. Places(s, X) = {i \in 1 .. n : t[i] \in X}
  BY <1>1 DEF Places, n
<1>6. CASE v \in X
  <2>1. Places(t, X) = Places(s, X) \cup {n + 1}
    BY <1>1, <1>4, <1>5, <1>6 DEF Places
  <2>2. Cardinality(Places(t, X)) = Cardinality(Places(s, X)) + 1
    BY <1>2, <1>3, <1>4, <2>1, CountOneMore
  <2>3. QED
    BY <1>6, <2>2 DEF Count, t
<1>7. CASE v \notin X
  <2>1. Places(t, X) = Places(s, X)
    BY <1>1, <1>4, <1>5, <1>7 DEF Places
  <2>2. QED
    BY <1>2, <1>7, <2>1 DEF Count, t
<1>8. QED
  BY <1>6, <1>7

(* Where a value goes among sorted ones: behind the first k, which are those *)
(* that are not greater.                                                     *)
LEMMA PlaceOf ==
  ASSUME NEW A, A \subseteq Nat, NEW s \in Seq(A), NEW v \in A, Ordered(s)
  PROVE  LET k == Cardinality({i \in DOMAIN s : s[i] <= v}) IN
         k \in 0 .. Len(s) /\ \A i \in 1 .. Len(s) : s[i] <= v <=> i <= k
<1> DEFINE n == Len(s)
           T == {i \in DOMAIN s : s[i] <= v}
<1>1. n \in Nat /\ DOMAIN s = 1 .. n /\ \A i \in 1 .. n : s[i] \in A
  OBVIOUS
<1>2. T \in SUBSET (1 .. n) /\ \A i \in 1 .. n : i \in T <=> s[i] <= v
  BY <1>1
<1>3. ASSUME NEW i \in 1 .. n, NEW j \in T, i <= j PROVE i \in T
  <2>1. s[i] <= s[j] /\ s[j] <= v
    BY <1>2, <1>3 DEF Ordered, n
  <2>2. s[i] \in Nat /\ s[j] \in Nat /\ v \in Nat
    BY <1>1, <1>2
  <2>3. s[i] <= v
    BY <2>1, <2>2
  <2>4. QED
    BY <1>2, <2>3
<1> HIDE DEF T
<1>4. CASE T = {}
  <2>1. Cardinality(T) = 0
    BY <1>4, FS_EmptySet
  <2>2. \A i \in 1 .. n : ~(s[i] <= v) /\ ~(i <= 0)
    BY <1>1, <1>2, <1>4
  <2>3. 0 \in 0 .. n /\ \A i \in 1 .. n : s[i] <= v <=> i <= 0
    BY <1>1, <2>2
  <2>4. QED
    BY <2>1, <2>3 DEF T
<1>5. CASE T # {}
  <2> DEFINE k == Sorting!Max(T)
  <2>1. k \in T /\ \A y \in T : y <= k
    BY <1>1, <1>2, <1>5, Sorting!MaxIn
  <2> HIDE DEF k, n
  <2>2. k \in 1 .. n
    BY <1>2, <2>1
  <2>3. \A i \in 1 .. n : i \in T <=> i <= k
    BY <1>3, <2>1
  <2>4. T = 1 .. k
    <3>1. ASSUME NEW x \in T PROVE x \in 1 .. k
      <4>1. x \in 1 .. n /\ x <= k
        BY <1>2, <2>1
      <4>2. QED
        BY <1>1, <2>2, <4>1
    <3>2. ASSUME NEW x \in 1 .. k PROVE x \in T
      <4>1. x \in 1 .. n /\ x <= k
        BY <1>1, <2>2
      <4>2. QED
        BY <2>3, <4>1
    <3>3. QED
      BY <3>1, <3>2
  <2>5. Cardinality(T) = k
    BY <2>2, <2>4, UpToFinite
  <2>6. k \in 0 .. n /\ \A i \in 1 .. n : s[i] <= v <=> i <= k
    BY <1>1, <1>2, <2>2, <2>3
  <2>7. QED
    BY <2>5, <2>6 DEF T, n
<1>6. QED
  BY <1>4, <1>5


(* t is s with v behind the first k, those that are not greater. *)
Spliced(s, v, t, k) ==
    /\ \A i \in 1 .. Len(s) : s[i] <= v <=> i <= k
    /\ t[k + 1] = v
    /\ \A i \in 1 .. k : t[i] = s[i]
    /\ \A i \in k + 1 .. Len(s) : t[i + 1] = s[i]

(* What Insert does, place by place. *)
LEMMA InsertPlaces ==
  ASSUME NEW A, A \subseteq Nat, NEW s \in Seq(A), NEW v \in A, Ordered(s)
  PROVE  \E k \in 0 .. Len(s) : Spliced(s, v, Insert(s, v), k)
<1> DEFINE n == Len(s)
           k == Cardinality({i \in DOMAIN s : s[i] <= v})
           front == SubSeq(s, 1, (k + 1) - 1)
           back == SubSeq(s, k + 1, Len(s))
<1>1. k \in 0 .. n /\ \A i \in 1 .. n : s[i] <= v <=> i <= k
  BY PlaceOf
<1>2. Insert(s, v) = (front \o <<v>>) \o back
  BY DEF Insert, InsertAt
<1>3. n \in Nat
  OBVIOUS
<1> HIDE DEF k
<1>4. k \in Nat /\ k <= n /\ (k + 1) - 1 = k
  BY <1>1, <1>3
<1>5. front = SubSeq(s, 1, k) /\ back = SubSeq(s, k + 1, n)
  BY <1>4
<1>6. front \in Seq(A) /\ Len(front) = k /\ \A i \in 1 .. k : front[i] = s[i]
  BY <1>3, <1>4, <1>5
<1>7. back \in Seq(A) /\ Len(back) = n - k /\ \A i \in 1 .. n - k : back[i] = s[k + i]
  <2>1. \A i \in k + 1 .. n : s[i] \in A
    BY <1>3, <1>4
  <2>2. k + 1 \in Int /\ n \in Int
    BY <1>3, <1>4
  <2> DEFINE b == SubSeq(s, k + 1, n)
             m == IF k + 1 <= n THEN n - (k + 1) + 1 ELSE 0
  <2>3. b \in Seq(A) /\ Len(b) = m /\ \A i \in 1 .. m : b[i] = s[(k + 1) + i - 1]
    <3> HIDE DEF n
    <3>1. QED
      BY <2>1, <2>2, SubSeqProperties
  <2>4. m = n - k
    <3> HIDE DEF n
    <3>1. CASE k + 1 <= n
      BY <1>3, <1>4, <3>1
    <3>2. CASE ~(k + 1 <= n)
      <4>1. n = k
        BY <1>3, <1>4, <3>2
      <4>2. QED
        BY <1>4, <3>2, <4>1
    <3>3. QED
      BY <3>1, <3>2
  <2>5. ASSUME NEW i \in 1 .. n - k PROVE b[i] = s[k + i]
    <3> HIDE DEF b, m
    <3>1. (k + 1) + i - 1 = k + i
      BY <1>3, <1>4
    <3>2. QED
      BY <2>3, <2>4, <3>1
  <2> HIDE DEF b, m
  <2>6. QED
    BY <1>5, <2>3, <2>4, <2>5 DEF b
<1> HIDE DEF front, back
<1> DEFINE fv == front \o <<v>>
<1>8. /\ fv \in Seq(A) /\ Len(fv) = k + 1 /\ fv[k + 1] = v
      /\ \A i \in 1 .. k : fv[i] = s[i]
  BY <1>4, <1>6
<1> HIDE DEF fv, n
<1> DEFINE t == fv \o back
<1>9. /\ \A i \in 1 .. k + 1 : t[i] = fv[i]
      /\ \A i \in 1 .. n - k : t[(k + 1) + i] = back[i]
  BY <1>3, <1>4, <1>7, <1>8
<1>10. Insert(s, v) = t
  BY <1>2 DEF fv
<1> HIDE DEF t
<1>11. k + 1 \in 1 .. k + 1 /\ \A i \in 1 .. k : i \in 1 .. k + 1
  BY <1>4
<1>12. t[k + 1] = v /\ \A i \in 1 .. k : t[i] = s[i]
  BY <1>8, <1>9, <1>11
<1>13. ASSUME NEW i \in k + 1 .. n PROVE t[i + 1] = s[i]
  <2>1. i - k \in 1 .. n - k /\ (k + 1) + (i - k) = i + 1 /\ k + (i - k) = i
    BY <1>3, <1>4
  <2>2. t[(k + 1) + (i - k)] = back[i - k]
    BY <1>9, <2>1
  <2>3. back[i - k] = s[k + (i - k)]
    BY <1>7, <2>1
  <2>4. QED
    BY <2>1, <2>2, <2>3
<1>14. Spliced(s, v, t, k)
  BY <1>1, <1>12, <1>13 DEF Spliced, n
<1>15. QED
  BY <1>1, <1>10, <1>14 DEF n

(* Insert keeps the order. *)
LEMMA InsertOrdered ==
  ASSUME NEW A, A \subseteq Nat, NEW s \in Seq(A), NEW v \in A, Ordered(s)
  PROVE  Ordered(Insert(s, v))
<1> DEFINE n == Len(s)
           t == Insert(s, v)
<1>1. n \in Nat /\ Len(t) = n + 1
  <2>1. Len(s) \in Nat
    OBVIOUS
  <2>2. Len(Insert(s, v)) = Len(s) + 1
    BY InsertEffect, Zenon
  <2>3. QED
    BY <2>1, <2>2
<1>k. PICK k \in 0 .. n : Spliced(s, v, t, k)
  BY InsertPlaces
<1>2. /\ \A i \in 1 .. n : s[i] <= v <=> i <= k
      /\ t[k + 1] = v
      /\ \A i \in 1 .. k : t[i] = s[i]
      /\ \A i \in k + 1 .. n : t[i + 1] = s[i]
  BY <1>k DEF Spliced
<1>3. \A i, j \in 1 .. n : i <= j => s[i] <= s[j]
  BY DEF Ordered
<1>4. v \in Nat /\ \A i \in 1 .. n : s[i] \in Nat
  <2>1. \A i \in 1 .. n : s[i] \in A
    OBVIOUS
  <2>2. QED
    BY <2>1
<1> HIDE DEF n, t
<1>5. k \in Nat /\ k <= n
  BY <1>1, <1>k
<1>6. ASSUME NEW i \in 1 .. n + 1
      PROVE  \/ i <= k /\ i \in 1 .. n /\ t[i] = s[i] /\ s[i] <= v
             \/ i = k + 1 /\ t[i] = v
             \/ k + 1 < i /\ i - 1 \in 1 .. n /\ t[i] = s[i - 1] /\ v < s[i - 1]
  <2>1. CASE i <= k
    <3>1. i \in 1 .. k /\ i \in 1 .. n
      BY <1>1, <1>5, <2>1
    <3>2. QED
      BY <1>2, <2>1, <3>1
  <2>2. CASE i = k + 1
    BY <1>2, <2>2
  <2>3. CASE k + 1 < i
    <3>1. i - 1 \in k + 1 .. n /\ i - 1 \in 1 .. n /\ ~(i - 1 <= k) /\ (i - 1) + 1 = i
      BY <1>1, <1>5, <2>3
    <3>2. t[i] = s[i - 1] /\ ~(s[i - 1] <= v)
      BY <1>2, <3>1
    <3>3. v < s[i - 1]
      BY <1>4, <3>1, <3>2
    <3>4. QED
      BY <2>3, <3>1, <3>2, <3>3
  <2>4. QED
    BY <1>1, <1>5, <2>1, <2>2, <2>3
<1>7. ASSUME NEW i \in 1 .. n + 1, NEW j \in 1 .. n + 1, i <= j PROVE t[i] <= t[j]
  <2>1. CASE i <= k /\ i \in 1 .. n /\ t[i] = s[i] /\ s[i] <= v
    <3>1. CASE j <= k /\ j \in 1 .. n /\ t[j] = s[j] /\ s[j] <= v
      BY <1>3, <1>7, <2>1, <3>1
    <3>2. CASE j = k + 1 /\ t[j] = v
      BY <2>1, <3>2
    <3>3. CASE k + 1 < j /\ j - 1 \in 1 .. n /\ t[j] = s[j - 1] /\ v < s[j - 1]
      <4>1. s[i] \in Nat /\ s[j - 1] \in Nat
        BY <1>4, <2>1, <3>3
      <4>2. s[i] <= s[j - 1]
        BY <1>4, <2>1, <3>3, <4>1
      <4>3. QED
        BY <2>1, <3>3, <4>2
    <3>4. QED
      BY <1>6, <3>1, <3>2, <3>3
  <2>2. CASE i = k + 1 /\ t[i] = v
    <3>1. CASE j = k + 1 /\ t[j] = v
      BY <1>4, <2>2, <3>1
    <3>2. CASE k + 1 < j /\ j - 1 \in 1 .. n /\ t[j] = s[j - 1] /\ v < s[j - 1]
      <4>1. s[j - 1] \in Nat
        BY <1>4, <3>2
      <4>2. QED
        BY <1>4, <2>2, <3>2, <4>1
    <3>3. ~(j <= k)
      BY <1>5, <1>7, <2>2
    <3>4. QED
      BY <1>6, <3>1, <3>2, <3>3
  <2>3. CASE k + 1 < i /\ i - 1 \in 1 .. n /\ t[i] = s[i - 1] /\ v < s[i - 1]
    <3>1. k + 1 < j /\ ~(j <= k) /\ j # k + 1 /\ i - 1 <= j - 1
      BY <1>5, <1>7, <2>3
    <3>2. j - 1 \in 1 .. n /\ t[j] = s[j - 1]
      BY <1>6, <3>1
    <3>3. QED
      BY <1>3, <2>3, <3>1, <3>2
  <2>4. QED
    BY <1>6, <2>1, <2>2, <2>3
<1>8. QED
  BY <1>1, <1>7 DEF Ordered, t


(* Insert adds one to what it counts, and to nothing else. *)
LEMMA InsertCount ==
  ASSUME NEW A, A \subseteq Nat, NEW s \in Seq(A), NEW v \in A, Ordered(s), NEW X
  PROVE  Count(Insert(s, v), X) = Count(s, X) + IF v \in X THEN 1 ELSE 0
<1> DEFINE n == Len(s)
           t == Insert(s, v)
           P == Places(s, X)
<1>1. n \in Nat /\ Len(t) = n + 1
  <2>1. Len(s) \in Nat
    OBVIOUS
  <2>2. Len(Insert(s, v)) = Len(s) + 1
    BY InsertEffect, Zenon
  <2>3. QED
    BY <2>1, <2>2
<1>k. PICK k \in 0 .. n : Spliced(s, v, t, k)
  BY InsertPlaces
<1>2. /\ \A i \in 1 .. n : s[i] <= v <=> i <= k
      /\ t[k + 1] = v
      /\ \A i \in 1 .. k : t[i] = s[i]
      /\ \A i \in k + 1 .. n : t[i + 1] = s[i]
  BY <1>k DEF Spliced
<1>3. IsFiniteSet(P) /\ Count(s, X) \in Nat
  BY CountFacts
<1>4. /\ P = {i \in 1 .. n : s[i] \in X}
      /\ Places(t, X) = {i \in 1 .. n + 1 : t[i] \in X}
  BY <1>1 DEF Places
<1> HIDE DEF n, t, P
<1>5. k \in Nat /\ k <= n
  BY <1>1, <1>k
<1> DEFINE R == {i \in Places(t, X) : i # k + 1}
           f == [i \in P |-> IF i <= k THEN i ELSE i + 1]
<1>6. ASSUME NEW i \in P PROVE f[i] \in R
  <2>1. i \in 1 .. n /\ s[i] \in X
    BY <1>4
  <2>2. CASE i <= k
    <3>1. i \in 1 .. k /\ i \in 1 .. n + 1 /\ i # k + 1
      BY <1>1, <1>5, <2>1, <2>2
    <3>2. t[i] = s[i]
      BY <1>2, <3>1
    <3>3. i \in R
      BY <1>4, <2>1, <3>1, <3>2
    <3>4. QED
      BY <2>2, <3>3
  <2>3. CASE ~(i <= k)
    <3>1. i \in k + 1 .. n /\ i + 1 \in 1 .. n + 1 /\ i + 1 # k + 1
      BY <1>1, <1>5, <2>1, <2>3
    <3>2. t[i + 1] = s[i]
      BY <1>2, <3>1
    <3>3. i + 1 \in R
      BY <1>4, <2>1, <3>1, <3>2
    <3>4. QED
      BY <2>3, <3>3
  <2>4. QED
    BY <2>2, <2>3
<1>7. ASSUME NEW i \in P, NEW j \in P, f[i] = f[j] PROVE i = j
  <2>1. i \in Nat /\ j \in Nat
    BY <1>1, <1>4
  <2>2. (IF i <= k THEN i ELSE i + 1) = (IF j <= k THEN j ELSE j + 1)
    BY <1>7
  <2>3. QED
    BY <1>5, <2>1, <2>2
<1>8. ASSUME NEW j \in R PROVE \E i \in P : f[i] = j
  <2>1. j \in 1 .. n + 1 /\ t[j] \in X /\ j # k + 1
    BY <1>4
  <2>2. CASE j <= k
    <3>1. j \in 1 .. k /\ j \in 1 .. n
      BY <1>1, <1>5, <2>1, <2>2
    <3>2. s[j] = t[j]
      BY <1>2, <3>1
    <3>3. j \in P
      BY <1>4, <2>1, <3>1, <3>2
    <3>4. f[j] = j
      BY <2>2, <3>3
    <3>5. QED
      BY <3>3, <3>4
  <2>3. CASE ~(j <= k)
    <3>1. j - 1 \in k + 1 .. n /\ j - 1 \in 1 .. n /\ (j - 1) + 1 = j /\ ~(j - 1 <= k)
      BY <1>1, <1>5, <2>1, <2>3
    <3>2. s[j - 1] = t[j]
      BY <1>2, <3>1
    <3>3. j - 1 \in P
      BY <1>4, <2>1, <3>1, <3>2
    <3>4. f[j - 1] = j
      BY <3>1, <3>3
    <3>5. QED
      BY <3>3, <3>4
  <2>4. QED
    BY <2>2, <2>3
<1>9. f \in [P -> R]
  <2>1. f = [i \in P |-> f[i]]
    OBVIOUS
  <2> HIDE DEF f, R
  <2>2. QED
    BY <1>6, <2>1
<1> HIDE DEF f, R
<1>10. f \in Bijection(P, R)
  BY <1>7, <1>8, <1>9 DEF Bijection, Injection, Surjection, IsInjective
<1>11. IsFiniteSet(R) /\ Cardinality(R) = Cardinality(P)
  <2>1. ExistsBijection(P, R)
    BY <1>10 DEF ExistsBijection
  <2>2. QED
    BY <1>3, <2>1, FS_Bijection
<1>12. k + 1 \in 1 .. n + 1 /\ k + 1 \notin R
  BY <1>1, <1>5 DEF R
<1>13. CASE v \in X
  <2>1. Places(t, X) = R \cup {k + 1}
    BY <1>2, <1>4, <1>12, <1>13 DEF R
  <2>2. Cardinality(Places(t, X)) = Cardinality(R) + 1
    BY <1>11, <1>12, <2>1, CountOneMore
  <2>3. QED
    BY <1>11, <1>13, <2>2 DEF Count, P, t
<1>14. CASE v \notin X
  <2>1. Places(t, X) = R
    BY <1>2, <1>4, <1>12, <1>14 DEF R
  <2>2. QED
    BY <1>3, <1>11, <1>14, <2>1 DEF Count, P, t
<1>15. QED
  BY <1>13, <1>14

(* sort.Slice puts values in order and keeps how often each occurs. *)
LEMMA SortedFacts ==
  ASSUME NEW A, A \subseteq Nat, NEW vals \in Seq(A), NEW X
  PROVE  Ordered(Sorted(vals)) /\ Count(Sorted(vals), X) = Count(vals, X)
<1> DEFINE n == Len(vals)
           First(i) == SubSeq(vals, 1, i)
           Right(s, i) == s \in Seq(A) /\ Ordered(s) /\ Count(s, X) = Count(First(i), X)
<1>1. n \in Nat /\ \A i \in 1 .. n : vals[i] \in A
  OBVIOUS
<1>2. Sorted(vals) = Sorting!Fold(<<>>, vals)
  BY ProposalFolds DEF Sorted
<1>3. PICK f : Sorting!Trace(f, <<>>, vals, n) /\ Sorting!Fold(<<>>, vals) = f[n]
  BY Sorting!FoldTrace
<1>4. First(0) = <<>> /\ First(n) = vals
  OBVIOUS
<1>5. ASSUME NEW i \in 0 .. n - 1
      PROVE  First(i) \in Seq(A) /\ First(i + 1) = Append(First(i), vals[i + 1])
  OBVIOUS
<1> DEFINE S == {i \in 0 .. n : Right(f[i], i)}
<1> HIDE DEF n, First
<1>6. 0 \in S
  <2>1. f[0] = <<>>
    BY <1>3 DEF Sorting!Trace
  <2>2. <<>> \in Seq(A) /\ Len(<<>>) = 0 /\ 1 .. 0 = {}
    OBVIOUS
  <2>3. Ordered(<<>>)
    BY <2>2 DEF Ordered
  <2>4. Right(<<>>, 0)
    BY <1>4, <2>2, <2>3
  <2> HIDE DEF Right
  <2>5. QED
    BY <1>1, <2>1, <2>4
<1>7. ASSUME NEW i \in 0 .. n - 1, i \in S PROVE i + 1 \in S
  <2> DEFINE g == f[i]
             v == vals[i + 1]
  <2>1. i + 1 \in 1 .. n /\ (i + 1) - 1 = i
    BY <1>1
  <2>2. f[i + 1] = Insert(g, v)
    BY <1>3, <2>1 DEF Sorting!Trace
  <2>3. g \in Seq(A) /\ Ordered(g) /\ Count(g, X) = Count(First(i), X) /\ v \in A
    BY <1>1, <1>7, <2>1
  <2>4. First(i) \in Seq(A) /\ First(i + 1) = Append(First(i), v)
    BY <1>5
  <2> HIDE DEF g, v
  <2>5. Insert(g, v) \in Seq(A)
    BY <2>3, InsertEffect
  <2>6. Ordered(Insert(g, v))
    BY <2>3, InsertOrdered
  <2>7. Count(Insert(g, v), X) = Count(g, X) + IF v \in X THEN 1 ELSE 0
    BY <2>3, InsertCount
  <2>8. Count(Append(First(i), v), X) = Count(First(i), X) + IF v \in X THEN 1 ELSE 0
    BY <2>3, <2>4, CountAppend
  <2>9. Right(f[i + 1], i + 1)
    BY <2>2, <2>3, <2>4, <2>5, <2>6, <2>7, <2>8
  <2> HIDE DEF Right
  <2>10. QED
    BY <1>1, <2>1, <2>9
<1>8. n \in S
  <2> HIDE DEF S
  <2>1. \A i \in 0 .. n : i \in S
    BY <1>1, <1>6, <1>7, Sorting!UpTo
  <2>2. QED
    BY <1>1, <2>1
<1>9. QED
  BY <1>2, <1>3, <1>4, <1>8


Below(x) == {y \in Nat : y < x}
Above(x) == {y \in Nat : y > x}

(* The value in the middle of an ordered sequence. *)
LEMMA MiddleFacts ==
  ASSUME NEW s \in Seq(Nat), s # <<>>, Ordered(s)
  PROVE  LET x == s[Len(s) \div 2 + 1] IN
         /\ 2 * Count(s, Below(x)) <= Len(s) /\ 2 * Count(s, Above(x)) <= Len(s)
         /\ Places(s, {x}) # {}
<1> DEFINE n == Len(s)
           h == n \div 2
           x == s[h + 1]
<1>1. n \in Nat /\ n # 0 /\ \A i \in 1 .. n : s[i] \in Nat
  OBVIOUS
<1>2. \A i, j \in 1 .. n : i <= j => s[i] <= s[j]
  BY DEF Ordered
<1>3. \A X : Places(s, X) = {i \in 1 .. n : s[i] \in X}
  BY DEF Places
<1> HIDE DEF n
<1>4. h \in Nat /\ 2 * h <= n /\ n <= 2 * h + 1 /\ h + 1 \in 1 .. n
  BY <1>1
<1> HIDE DEF h
<1>5. x \in Nat
  BY <1>1, <1>4
<1>6. Places(s, {x}) # {}
  BY <1>3, <1>4
<1>7. ASSUME NEW i \in Places(s, Below(x)) PROVE i \in 1 .. h
  <2>1. i \in 1 .. n /\ s[i] < x /\ s[i] \in Nat
    BY <1>3 DEF Below
  <2>2. ~(x <= s[i])
    BY <1>5, <2>1
  <2>3. ~(h + 1 <= i)
    BY <1>2, <1>4, <2>1, <2>2
  <2>4. QED
    BY <1>1, <1>4, <2>1, <2>3
<1>8. ASSUME NEW i \in Places(s, Above(x)) PROVE i \in h + 2 .. n
  <2>1. i \in 1 .. n /\ s[i] > x /\ s[i] \in Nat
    BY <1>3 DEF Above
  <2>2. ~(s[i] <= x)
    BY <1>5, <2>1
  <2>3. ~(i <= h + 1)
    BY <1>2, <1>4, <2>1, <2>2
  <2>4. QED
    BY <1>1, <1>4, <2>1, <2>3
<1>9. IsFiniteSet(1 .. h) /\ Cardinality(1 .. h) = h
  BY <1>4, UpToFinite
<1>10. /\ IsFiniteSet(h + 2 .. n)
       /\ Cardinality(h + 2 .. n) = IF h + 2 > n THEN 0 ELSE n - (h + 2) + 1
  <2>1. h + 2 \in Int /\ n \in Int
    BY <1>1, <1>4
  <2>2. QED
    BY <2>1, FS_Interval
<1>11. Count(s, Below(x)) \in Nat /\ Count(s, Above(x)) \in Nat
  BY CountFacts
<1>12. Count(s, Below(x)) <= h
  <2>1. Places(s, Below(x)) \in SUBSET (1 .. h)
    BY <1>7
  <2>2. Cardinality(Places(s, Below(x))) <= Cardinality(1 .. h)
    BY <1>9, <2>1, FS_Subset
  <2>3. QED
    BY <1>9, <2>2 DEF Count
<1>13. Count(s, Above(x)) <= Cardinality(h + 2 .. n)
  <2>1. Places(s, Above(x)) \in SUBSET (h + 2 .. n)
    BY <1>8
  <2>2. Cardinality(Places(s, Above(x))) <= Cardinality(h + 2 .. n)
    BY <1>10, <2>1, FS_Subset
  <2>3. QED
    BY <2>2 DEF Count
<1>14. 2 * Count(s, Below(x)) <= n
  BY <1>1, <1>4, <1>11, <1>12
<1>15. 2 * Count(s, Above(x)) <= n
  BY <1>1, <1>4, <1>10, <1>11, <1>13
<1>16. QED
  BY <1>6, <1>14, <1>15 DEF n, h

(* The median is one of the values, at most half are below and half above. *)
LEMMA MedianFacts ==
  ASSUME NEW vals \in Seq(Nat), vals # <<>>
  PROVE  LET x == median(vals) IN
         /\ 2 * Count(vals, Below(x)) <= Len(vals) /\ 2 * Count(vals, Above(x)) <= Len(vals)
         /\ Count(vals, {x}) # 0
<1> DEFINE s == Sorted(vals)
           x == s[Len(s) \div 2 + 1]
<1>1. s \in Seq(Nat) /\ Len(s) = Len(vals)
  BY SortedTyped
<1>2. Ordered(s) /\ \A X : Count(s, X) = Count(vals, X)
  BY SortedFacts
<1> HIDE DEF s
<1>3. median(vals) = x
  BY <1>1 DEF median, s
<1>4. s # <<>>
  BY <1>1
<1>5. /\ 2 * Count(s, Below(x)) <= Len(s) /\ 2 * Count(s, Above(x)) <= Len(s)
      /\ Places(s, {x}) # {}
  BY <1>1, <1>2, <1>4, MiddleFacts
<1> HIDE DEF x
<1>6. Count(s, {x}) # 0
  <2>1. IsFiniteSet(Places(s, {x}))
    BY <1>1, CountFacts
  <2>2. QED
    BY <1>5, <2>1, FS_EmptySet DEF Count
<1>7. QED
  BY <1>1, <1>2, <1>3, <1>5, <1>6

-----------------------------------------------------------------------------
(* The reports of a pair. *)

Hit(e, pair, X) == Usable(e) /\ e.pair = pair /\ e.price \in X

(* The reports for a pair with a price in X. *)
ReportsIn(exts, pair, X) ==
    {r \in ReportsFor(exts, pair) : Reported(exts, r).price \in X}

(* What is among them. *)
LEMMA ReportIs ==
  ASSUME NEW exts \in Seq(Extensions), NEW pair, NEW X, NEW r \in ReportsIn(exts, pair, X)
  PROVE  /\ r.vote \in 1 .. Len(exts) /\ exts[r.vote] # Malformed
         /\ r.entry \in 1 .. Len(exts[r.vote])
         /\ r = [vote |-> r.vote, entry |-> r.entry]
         /\ Hit(exts[r.vote][r.entry], pair, X)
<1>1. r \in Reports(exts) /\ Reported(exts, r).pair = pair /\ Reported(exts, r).price \in X
  BY DEF ReportsIn, ReportsFor
<1>2. /\ r \in UNION {[vote : {i}, entry : DOMAIN exts[i]] :
                        i \in {k \in DOMAIN exts : exts[k] # Malformed}}
      /\ Usable(Reported(exts, r))
  BY <1>1 DEF Reports
<1>3. PICK i \in {k \in DOMAIN exts : exts[k] # Malformed} : r \in [vote : {i}, entry : DOMAIN exts[i]]
  BY <1>2
<1>4. i \in 1 .. Len(exts) /\ exts[i] # Malformed
  BY <1>3
<1>5. exts[i] \in Seq(PriceEntries)
  BY <1>4 DEF Extensions
<1>6. r.vote = i /\ r.entry \in DOMAIN exts[i] /\ r = [vote |-> r.vote, entry |-> r.entry]
  BY <1>3
<1>7. DOMAIN exts[i] = 1 .. Len(exts[i])
  BY <1>5
<1>8. QED
  BY <1>1, <1>2, <1>4, <1>6, <1>7 DEF Hit, Reported

(* Every hit is among them. *)
LEMMA IsReport ==
  ASSUME NEW exts \in Seq(Extensions), NEW pair, NEW X,
         NEW i \in 1 .. Len(exts), exts[i] # Malformed, NEW j \in 1 .. Len(exts[i]),
         Hit(exts[i][j], pair, X)
  PROVE  [vote |-> i, entry |-> j] \in ReportsIn(exts, pair, X)
<1> DEFINE r == [vote |-> i, entry |-> j]
<1>1. exts[i] \in Seq(PriceEntries) /\ i \in DOMAIN exts
  BY DEF Extensions
<1>2. j \in DOMAIN exts[i]
  BY <1>1
<1>3. Reported(exts, r) = exts[i][j]
  BY DEF Reported
<1>4. r \in [vote : {i}, entry : DOMAIN exts[i]]
  BY <1>2
<1> HIDE DEF r
<1>5. r \in Reports(exts)
  BY <1>1, <1>3, <1>4 DEF Reports, Hit
<1>6. QED
  BY <1>3, <1>5 DEF ReportsIn, ReportsFor, Hit, r

(* The prices collected for a pair. *)
PricesOf(m, pair) == IF pair \in DOMAIN m THEN m[pair] ELSE <<>>

(* They are good. *)
LEMMA PricesTyped ==
  ASSUME NEW m \in Feeds, NEW pair
  PROVE  PricesOf(m, pair) \in Seq(GoodPrices) /\ (pair \in DOMAIN m <=> PricesOf(m, pair) # <<>>)
<1> DEFINE V == Seq(GoodPrices) \ {<<>>}
<1>1. m \in Maps(GoodPairs, V)
  BY DEF Feeds
<1> HIDE DEF V
<1>2. \A k \in DOMAIN m : m[k] \in V
  BY <1>1, MapGet
<1>3. <<>> \in Seq(GoodPrices)
  OBVIOUS
<1>4. QED
  BY <1>2, <1>3 DEF PricesOf, V

(* An entry is counted if it is a hit. *)
LEMMA CollectCount ==
  ASSUME NEW m \in Feeds, NEW e \in PriceEntries, NEW pair, NEW X
  PROVE  Count(PricesOf(CollectPrice(m, e), pair), X)
           = Count(PricesOf(m, pair), X) + IF Hit(e, pair, X) THEN 1 ELSE 0
<1> DEFINE vals == PricesOf(m, pair)
<1>1. vals \in Seq(GoodPrices)
  BY PricesTyped
<1>2. Count(vals, X) \in Nat
  BY <1>1, CountFacts
<1>3. CASE ~Usable(e)
  BY <1>2, <1>3 DEF CollectPrice, Hit
<1>4. CASE Usable(e)
  <2> DEFINE old == PricesOf(m, e.pair)
             new == Append(old, e.price)
             t == Put(m, e.pair, new)
  <2>1. CollectPrice(m, e) = t
    BY <1>4 DEF CollectPrice, PricesOf
  <2>2. e.price \in GoodPrices
    BY <1>4, AmountFacts DEF PriceEntries, Usable, GoodPrices
  <2> HIDE DEF old, new
  <2>3. DOMAIN t = DOMAIN m \cup {e.pair} /\ t[e.pair] = new
    <3>1. DOMAIN t = DOMAIN m \cup {e.pair}
      BY PutDomain
    <3>2. t[e.pair] = new
      BY PutAt
    <3>3. QED
      BY <3>1, <3>2
  <2>4. \A k \in DOMAIN m : k # e.pair => t[k] = m[k]
    BY PutElsewhere
  <2> HIDE DEF t
  <2>5. CASE e.pair = pair
    <3>1. PricesOf(t, pair) = new
      BY <2>3, <2>5 DEF PricesOf
    <3>2. new = Append(vals, e.price)
      BY <2>5 DEF new, old
    <3> HIDE DEF vals
    <3>3. Count(Append(vals, e.price), X) = Count(vals, X) + IF e.price \in X THEN 1 ELSE 0
      BY <1>1, <2>2, CountAppend
    <3>4. Hit(e, pair, X) <=> e.price \in X
      BY <1>4, <2>5 DEF Hit
    <3>5. QED
      BY <2>1, <3>1, <3>2, <3>3, <3>4 DEF vals
  <2>6. CASE e.pair # pair
    <3>1. PricesOf(t, pair) = vals
      BY <2>3, <2>4, <2>6 DEF PricesOf
    <3>2. ~Hit(e, pair, X)
      BY <2>6 DEF Hit
    <3> HIDE DEF vals
    <3>3. Count(PricesOf(t, pair), X) = Count(vals, X) + 0
      BY <1>2, <3>1
    <3>4. QED
      BY <2>1, <3>2, <3>3 DEF vals
  <2>7. QED
    BY <2>5, <2>6
<1>5. QED
  BY <1>3, <1>4


(* The reports before a place: those of earlier votes, and of this one up to *)
(* entry j.                                                                  *)
ReportsTo(exts, pair, X, k, j) ==
    {r \in ReportsIn(exts, pair, X) : r.vote < k \/ (r.vote = k /\ r.entry <= j)}

(* The prices collected so far are those of the reports in T. *)
Counted(m, pair, X, T) ==
    m \in Feeds /\ IsFiniteSet(T) /\ Count(PricesOf(m, pair), X) = Cardinality(T)

(* One entry of an extension. *)
LEMMA CountedEntry ==
  ASSUME NEW exts \in Seq(Extensions), NEW pair, NEW X,
         NEW k \in 1 .. Len(exts), exts[k] # Malformed, NEW j \in 0 .. Len(exts[k]) - 1,
         NEW m, Counted(m, pair, X, ReportsTo(exts, pair, X, k, j))
  PROVE  Counted(CollectPrice(m, exts[k][j + 1]), pair, X, ReportsTo(exts, pair, X, k, j + 1))
<1> DEFINE ext == exts[k]
           e == ext[j + 1]
           P == ReportsTo(exts, pair, X, k, j)
           Q == ReportsTo(exts, pair, X, k, j + 1)
           new == [vote |-> k, entry |-> j + 1]
           vals == PricesOf(m, pair)
<1>1. ext \in Seq(PriceEntries) /\ k \in Nat
  BY DEF Extensions
<1>2. Len(ext) \in Nat /\ j \in Nat /\ j + 1 \in 1 .. Len(ext)
  <2>1. Len(ext) \in Nat /\ j \in 0 .. Len(ext) - 1
    BY <1>1
  <2>2. QED
    BY <2>1
<1>3. e \in PriceEntries
  BY <1>1, <1>2
<1>4. m \in Feeds /\ IsFiniteSet(P) /\ Count(vals, X) = Cardinality(P)
  BY DEF Counted
<1>5. Cardinality(P) \in Nat
  BY <1>4, FS_CardinalityType
<1>6. CollectPrice(m, e) \in Feeds
  BY <1>3, <1>4, CollectTyped
<1>7. Count(PricesOf(CollectPrice(m, e), pair), X) = Count(vals, X) + IF Hit(e, pair, X) THEN 1 ELSE 0
  BY <1>3, <1>4, CollectCount
<1>8. ASSUME NEW r \in Q PROVE r \in P \/ (r = new /\ Hit(e, pair, X))
  <2>1. r \in ReportsIn(exts, pair, X) /\ (r.vote < k \/ (r.vote = k /\ r.entry <= j + 1))
    BY DEF ReportsTo
  <2>2. /\ r.vote \in 1 .. Len(exts) /\ r.entry \in 1 .. Len(exts[r.vote])
        /\ r = [vote |-> r.vote, entry |-> r.entry]
        /\ Hit(exts[r.vote][r.entry], pair, X)
    BY <2>1, ReportIs
  <2>3. CASE r.vote = k /\ r.entry = j + 1
    BY <2>2, <2>3
  <2>4. CASE ~(r.vote = k /\ r.entry = j + 1)
    <3>1. r.vote < k \/ (r.vote = k /\ r.entry <= j)
      <4>1. CASE r.vote < k
        BY <4>1
      <4>2. CASE r.vote = k /\ r.entry <= j + 1
        <5>1. r.entry \in 1 .. Len(ext) /\ r.entry # j + 1
          BY <2>2, <2>4, <4>2
        <5>2. r.entry <= j
          BY <1>2, <4>2, <5>1
        <5>3. QED
          BY <4>2, <5>2
      <4>3. QED
        BY <2>1, <4>1, <4>2
    <3>2. QED
      BY <2>1, <3>1 DEF ReportsTo
  <2>5. QED
    BY <2>3, <2>4
<1>9. ASSUME NEW r \in P PROVE r \in Q /\ r # new
  <2>1. r \in ReportsIn(exts, pair, X) /\ (r.vote < k \/ (r.vote = k /\ r.entry <= j))
    BY DEF ReportsTo
  <2>2. r.vote \in 1 .. Len(exts) /\ r.entry \in 1 .. Len(exts[r.vote])
    BY <2>1, ReportIs
  <2>3. r.vote < k \/ (r.vote = k /\ r.entry <= j + 1 /\ r.entry # j + 1)
    <3>1. CASE r.vote < k
      BY <3>1
    <3>2. CASE r.vote = k /\ r.entry <= j
      <4>1. r.entry \in 1 .. Len(ext)
        BY <2>2, <3>2
      <4>2. QED
        BY <1>2, <3>2, <4>1
    <3>3. QED
      BY <2>1, <3>1, <3>2
  <2>4. r # new
    BY <1>1, <2>3
  <2>5. QED
    BY <2>1, <2>3, <2>4 DEF ReportsTo
<1>10. Hit(e, pair, X) => new \in Q
  <2>1. SUFFICES ASSUME Hit(e, pair, X) PROVE new \in Q
    OBVIOUS
  <2>2. new \in ReportsIn(exts, pair, X)
    BY <1>2, <2>1, IsReport
  <2>3. new.vote = k /\ new.entry <= j + 1
    BY <1>2
  <2> HIDE DEF new
  <2>4. QED
    BY <2>2, <2>3 DEF ReportsTo
<1> HIDE DEF P, Q, new, e, vals, ext
<1>11. IsFiniteSet(Q) /\ Cardinality(Q) = Cardinality(P) + IF Hit(e, pair, X) THEN 1 ELSE 0
  <2>1. CASE Hit(e, pair, X)
    <3>1. Q = P \cup {new} /\ new \notin P
      BY <1>8, <1>9, <1>10, <2>1
    <3>2. IsFiniteSet(Q) /\ Cardinality(Q) = Cardinality(P) + 1
      BY <1>4, <3>1, CountOneMore
    <3>3. QED
      BY <2>1, <3>2
  <2>2. CASE ~Hit(e, pair, X)
    <3>1. Q = P
      BY <1>8, <1>9, <2>2
    <3>2. QED
      BY <1>4, <1>5, <2>2, <3>1
  <2>3. QED
    BY <2>1, <2>2
<1>12. Count(PricesOf(CollectPrice(m, e), pair), X) = Cardinality(Q)
  BY <1>4, <1>7, <1>11
<1>13. QED
  BY <1>6, <1>11, <1>12 DEF Counted, Q, e, ext

(* A whole extension. *)
LEMMA CountedExtension ==
  ASSUME NEW exts \in Seq(Extensions), NEW pair, NEW X,
         NEW k \in 1 .. Len(exts), exts[k] # Malformed,
         NEW m, Counted(m, pair, X, ReportsTo(exts, pair, X, k, 0))
  PROVE  Counted(CollectExtension(m, exts[k]), pair, X, ReportsTo(exts, pair, X, k, Len(exts[k])))
<1> DEFINE ext == exts[k]
           n == Len(ext)
           To(j) == ReportsTo(exts, pair, X, k, j)
<1>1. ext \in Seq(PriceEntries)
  BY DEF Extensions
<1>2. n \in Nat
  BY <1>1
<1>3. CollectExtension(m, ext) = Collecting!Fold(m, ext)
  <2>1. FoldLeft(CollectPrice, m, ext) = Collecting!Fold(m, ext)
    BY ProposalFolds
  <2>2. QED
    BY <2>1 DEF CollectExtension
<1>4. PICK f : Collecting!Trace(f, m, ext, n) /\ Collecting!Fold(m, ext) = f[n]
  <2> HIDE DEF ext
  <2>1. QED
    BY <1>1, Collecting!FoldTrace
<1> DEFINE S == {j \in 0 .. n : Counted(f[j], pair, X, To(j))}
<1>5. 0 \in S
  <2>1. f[0] = m
    BY <1>4 DEF Collecting!Trace
  <2>2. QED
    BY <1>2, <2>1
<1>6. ASSUME NEW j \in 0 .. n - 1, j \in S PROVE j + 1 \in S
  <2> DEFINE g == f[j]
  <2>1. j + 1 \in 1 .. n /\ (j + 1) - 1 = j /\ j + 1 \in 0 .. n
    BY <1>2
  <2>2. f[j + 1] = CollectPrice(g, ext[j + 1])
    BY <1>4, <2>1 DEF Collecting!Trace
  <2>3. Counted(g, pair, X, To(j))
    BY <1>6
  <2> HIDE DEF g
  <2>4. Counted(CollectPrice(g, ext[j + 1]), pair, X, To(j + 1))
    BY <2>3, CountedEntry
  <2>5. QED
    BY <2>1, <2>2, <2>4
<1>7. n \in S
  <2> HIDE DEF S, n
  <2>1. \A j \in 0 .. n : j \in S
    BY <1>2, <1>5, <1>6, Collecting!UpTo
  <2>2. QED
    BY <1>2, <2>1
<1>8. QED
  BY <1>3, <1>4, <1>7


(* Collecting takes every usable report of the pair, and nothing else. *)
LEMMA CollectedFacts ==
  ASSUME NEW exts \in Seq(Extensions), NEW pair, NEW X
  PROVE  /\ IsFiniteSet(ReportsIn(exts, pair, X))
         /\ Count(PricesOf(pairPrices(exts), pair), X) = Cardinality(ReportsIn(exts, pair, X))
<1> DEFINE n == Len(exts)
           all == ReportsIn(exts, pair, X)
           To(k, j) == ReportsTo(exts, pair, X, k, j)
<1>1. n \in Nat /\ \A i \in 1 .. n : exts[i] \in Extensions
  OBVIOUS
<1>2. pairPrices(exts) = Gathering!Fold(<<>>, exts)
  BY ProposalFolds DEF pairPrices
<1>3. PICK f : Gathering!Trace(f, <<>>, exts, n) /\ Gathering!Fold(<<>>, exts) = f[n]
  BY Gathering!FoldTrace
<1>4. ASSUME NEW r \in all
      PROVE  /\ r.vote \in 1 .. n /\ exts[r.vote] # Malformed /\ r.entry \in 1 .. Len(exts[r.vote])
             /\ r.entry \in Nat /\ r.entry >= 1 /\ r.entry <= Len(exts[r.vote])
  <2>1. r.vote \in 1 .. n /\ exts[r.vote] # Malformed /\ r.entry \in 1 .. Len(exts[r.vote])
    BY ReportIs
  <2>2. exts[r.vote] \in Seq(PriceEntries)
    BY <1>1, <2>1 DEF Extensions
  <2>3. Len(exts[r.vote]) \in Nat
    BY <2>2
  <2>4. QED
    BY <2>1, <2>3
<1>5. \A k, j : To(k, j) = {r \in all : r.vote < k \/ (r.vote = k /\ r.entry <= j)}
  BY DEF ReportsTo
<1> HIDE DEF n, all, To
<1>6. To(1, 0) = {}
  <2>1. ASSUME NEW r \in To(1, 0) PROVE FALSE
    <3>1. r \in all /\ (r.vote < 1 \/ (r.vote = 1 /\ r.entry <= 0))
      BY <1>5
    <3>2. r.vote \in 1 .. n /\ r.entry \in Nat /\ r.entry >= 1
      BY <1>4, <3>1
    <3>3. QED
      BY <1>1, <3>1, <3>2
  <2>2. QED
    BY <2>1
<1>7. To(n + 1, 0) = all
  <2>1. ASSUME NEW r \in all PROVE r.vote < n + 1
    BY <1>1, <1>4
  <2>2. QED
    BY <1>5, <2>1
<1>8. ASSUME NEW k \in 1 .. n, exts[k] # Malformed
      PROVE  To(k, Len(exts[k])) = To(k + 1, 0)
  <2>1. ASSUME NEW r \in all
        PROVE  (r.vote < k \/ (r.vote = k /\ r.entry <= Len(exts[k])))
                 <=> (r.vote < k + 1 \/ (r.vote = k + 1 /\ r.entry <= 0))
    <3>1. r.vote \in Nat /\ k \in Nat
      BY <1>1, <1>4
    <3>2. r.vote = k => r.entry <= Len(exts[k])
      BY <1>4
    <3>3. ~(r.entry <= 0)
      BY <1>4
    <3>4. QED
      BY <3>1, <3>2, <3>3
  <2>2. QED
    BY <1>5, <2>1
<1>9. ASSUME NEW k \in 1 .. n, exts[k] = Malformed
      PROVE  To(k, 0) = To(k + 1, 0)
  <2>1. ASSUME NEW r \in all
        PROVE  (r.vote < k \/ (r.vote = k /\ r.entry <= 0))
                 <=> (r.vote < k + 1 \/ (r.vote = k + 1 /\ r.entry <= 0))
    <3>1. r.vote \in Nat /\ k \in Nat
      BY <1>1, <1>4
    <3>2. r.vote # k
      BY <1>4, <1>9
    <3>3. ~(r.entry <= 0)
      BY <1>4
    <3>4. QED
      BY <3>1, <3>2, <3>3
  <2>2. QED
    BY <1>5, <2>1
<1> DEFINE S == {i \in 0 .. n : Counted(f[i], pair, X, To(i + 1, 0))}
<1>10. 0 \in S
  <2>1. f[0] = <<>> /\ 0 + 1 = 1
    BY <1>3 DEF Gathering!Trace
  <2>2. <<>> \in Feeds
    <3>1. <<>> \in Seq(Extensions)
      OBVIOUS
    <3>2. pairPrices(<<>>) \in Feeds
      BY <3>1, FeedsTyped
    <3>3. pairPrices(<<>>) = Gathering!Fold(<<>>, <<>>)
      BY ProposalFolds DEF pairPrices
    <3>4. Gathering!Fold(<<>>, <<>>) = <<>>
      BY Gathering!FoldEmpty
    <3>5. QED
      BY <3>2, <3>3, <3>4
  <2>3. IsFiniteSet({}) /\ Cardinality({}) = 0
    BY FS_EmptySet
  <2>4. Count(PricesOf(<<>>, pair), X) = 0
    <3>1. DOMAIN <<>> = {} /\ Len(<<>>) = 0 /\ 1 .. 0 = {}
      OBVIOUS
    <3>2. PricesOf(<<>>, pair) = <<>>
      BY <3>1 DEF PricesOf
    <3>3. Places(<<>>, X) = {}
      BY <3>1 DEF Places
    <3>4. QED
      BY <2>3, <3>2, <3>3 DEF Count
  <2>5. Counted(<<>>, pair, X, To(1, 0))
    BY <1>6, <2>2, <2>3, <2>4 DEF Counted
  <2>6. QED
    BY <1>1, <2>1, <2>5
<1>11. ASSUME NEW i \in 0 .. n - 1, i \in S PROVE i + 1 \in S
  <2> DEFINE g == f[i]
             k == i + 1
  <2>1. k \in 1 .. n /\ k - 1 = i /\ k \in 0 .. n
    BY <1>1
  <2>2. f[k] = CollectExtension(g, exts[k])
    BY <1>3, <2>1 DEF Gathering!Trace
  <2>3. Counted(g, pair, X, To(k, 0))
    BY <1>11
  <2> HIDE DEF g, k
  <2>4. Counted(CollectExtension(g, exts[k]), pair, X, To(k + 1, 0))
    <3>1. CASE exts[k] = Malformed
      <4>1. CollectExtension(g, exts[k]) = g
        BY <3>1 DEF CollectExtension
      <4>2. QED
        BY <1>9, <2>1, <2>3, <3>1, <4>1
    <3>2. CASE exts[k] # Malformed
      <4>1. Counted(CollectExtension(g, exts[k]), pair, X, To(k, Len(exts[k])))
        BY <2>1, <2>3, <3>2, CountedExtension DEF n, To
      <4>2. QED
        BY <1>8, <2>1, <3>2, <4>1
    <3>3. QED
      BY <3>1, <3>2
  <2>5. k \in S
    BY <2>1, <2>2, <2>4
  <2>6. QED
    BY <2>5 DEF k
<1>12. n \in S
  <2> HIDE DEF S
  <2>1. \A i \in 0 .. n : i \in S
    BY <1>1, <1>10, <1>11, Gathering!UpTo
  <2>2. QED
    BY <1>1, <2>1
<1>13. Counted(f[n], pair, X, all)
  BY <1>7, <1>12
<1>14. QED
  BY <1>2, <1>3, <1>13 DEF Counted, all

(* MedianOfReports, for any extensions and prices. *)
MedianOf(exts, prices) ==
    /\ {p.pair : p \in Range(prices)} = {Reported(exts, r).pair : r \in Reports(exts)}
    /\ \A p \in Range(prices) :
         LET reports == ReportsFor(exts, p.pair)
             below == {r \in reports : Reported(exts, r).price < p.price}
             above == {r \in reports : Reported(exts, r).price > p.price}
         IN /\ \E r \in reports : Reported(exts, r).price = p.price
            /\ 2 * Cardinality(below) <= Cardinality(reports)
            /\ 2 * Cardinality(above) <= Cardinality(reports)

(* The median of what is collected for a pair is one of its reports. *)
LEMMA MedianReport ==
  ASSUME NEW exts \in Seq(Extensions), NEW pair \in DOMAIN pairPrices(exts)
  PROVE  LET x == median(pairPrices(exts)[pair])
             reports == ReportsFor(exts, pair)
             below == {r \in reports : Reported(exts, r).price < x}
             above == {r \in reports : Reported(exts, r).price > x}
         IN /\ \E r \in reports : Reported(exts, r).price = x
            /\ 2 * Cardinality(below) <= Cardinality(reports)
            /\ 2 * Cardinality(above) <= Cardinality(reports)
<1> DEFINE m == pairPrices(exts)
           vals == m[pair]
           x == median(vals)
           reports == ReportsFor(exts, pair)
           below == {r \in reports : Reported(exts, r).price < x}
           above == {r \in reports : Reported(exts, r).price > x}
<1>1. m \in Feeds
  BY FeedsTyped
<1>2. PricesOf(m, pair) = vals
  BY DEF PricesOf
<1>3. vals \in Seq(GoodPrices) /\ vals # <<>>
  BY <1>1, <1>2, PricesTyped
<1>4. GoodPrices \subseteq Nat
  BY AmountFacts DEF GoodPrices
<1>5. \A X : /\ IsFiniteSet(ReportsIn(exts, pair, X))
             /\ Count(vals, X) = Cardinality(ReportsIn(exts, pair, X))
  BY <1>2, CollectedFacts
<1> HIDE DEF m, vals
<1>6. vals \in Seq(Nat)
  <2>1. Len(vals) \in Nat /\ vals \in [1 .. Len(vals) -> GoodPrices]
    BY <1>3
  <2>2. vals \in [1 .. Len(vals) -> Nat]
    BY <1>4, <2>1
  <2>3. QED
    BY <2>1, <2>2
<1>7. /\ 2 * Count(vals, Below(x)) <= Len(vals) /\ 2 * Count(vals, Above(x)) <= Len(vals)
      /\ Count(vals, {x}) # 0
  BY <1>3, <1>6, MedianFacts
<1>8. Count(vals, Nat) = Len(vals)
  BY <1>6, CountFacts
<1> HIDE DEF x
<1>9. ASSUME NEW r \in reports PROVE Reported(exts, r).price \in Nat
  <2> DEFINE price == Reported(exts, r).price
  <2>1. r \in ReportsIn(exts, pair, {price})
    BY DEF ReportsIn
  <2>2. /\ r.vote \in 1 .. Len(exts) /\ exts[r.vote] # Malformed
        /\ r.entry \in 1 .. Len(exts[r.vote])
    BY <2>1, ReportIs
  <2>3. exts[r.vote] \in Seq(PriceEntries)
    BY <2>2 DEF Extensions
  <2>4. exts[r.vote][r.entry] \in PriceEntries
    BY <2>2, <2>3
  <2>5. QED
    BY <2>4, AmountFacts DEF Reported, PriceEntries
<1>10. ReportsIn(exts, pair, Nat) = reports
  BY <1>9 DEF ReportsIn
<1>11. ReportsIn(exts, pair, Below(x)) = below
  BY <1>9 DEF ReportsIn, Below
<1>12. ReportsIn(exts, pair, Above(x)) = above
  BY <1>9 DEF ReportsIn, Above
<1> HIDE DEF reports, below, above
<1>13. ReportsIn(exts, pair, {x}) # {}
  BY <1>5, <1>7, FS_EmptySet
<1>14. \E r \in reports : Reported(exts, r).price = x
  BY <1>13 DEF ReportsIn, reports
<1>15. 2 * Cardinality(below) <= Cardinality(reports) /\ 2 * Cardinality(above) <= Cardinality(reports)
  BY <1>5, <1>7, <1>8, <1>10, <1>11, <1>12
<1>16. QED
  BY <1>14, <1>15 DEF reports, below, above, x, vals, m


(* The oracle update that is built has the median of every reported pair. *)
LEMMA OracleMedian ==
  ASSUME NEW exts \in Seq(Extensions), buildOracleTxFromExtensions(exts) # <<>>
  PROVE  MedianOf(exts, buildOracleTxFromExtensions(exts)[1].prices)
<1> DEFINE m == pairPrices(exts)
           pairs == SetToSeq(DOMAIN m)
           entries == [i \in 1 .. Len(pairs) |->
                         [pair |-> pairs[i], price |-> median(m[pairs[i]])]]
           tx == [type |-> "oracle_update", size |-> 1 + OracleEntrySize * Len(pairs), prices |-> entries]
           built == buildOracleTxFromExtensions(exts)
           n == Cardinality(DOMAIN m)
<1>1. built = IF DOMAIN m = {} THEN <<>> ELSE <<tx>>
  BY DEF buildOracleTxFromExtensions
<1>2. built = <<tx>>
  BY <1>1
<1>3. built[1].prices = entries
  <2> HIDE DEF built
  <2>1. built[1] = tx
    BY <1>2
  <2>2. tx.prices = entries
    OBVIOUS
  <2>3. QED
    BY <2>1, <2>2
<1> HIDE DEF built, tx
<1>4. m \in Feeds
  BY FeedsTyped
<1>5. IsFiniteSet(DOMAIN m)
  BY <1>4 DEF Feeds
<1>6. pairs \in [1 .. n -> DOMAIN m] /\ n \in Nat
  BY <1>5, SetToSeqFacts
<1>7. \A x \in DOMAIN m : \E i \in 1 .. n : pairs[i] = x
  BY <1>5, SetToSeqOnto
<1>8. ASSUME NEW pair PROVE pair \in DOMAIN m <=> ReportsFor(exts, pair) # {}
  <2> DEFINE reports == ReportsFor(exts, pair)
             vals == PricesOf(m, pair)
             P == {Reported(exts, r).price : r \in reports} \cup GoodPrices
  <2>1. vals \in Seq(GoodPrices) /\ (pair \in DOMAIN m <=> vals # <<>>)
    BY <1>4, PricesTyped
  <2>2. ReportsIn(exts, pair, P) = reports
    BY DEF ReportsIn
  <2>3. IsFiniteSet(reports) /\ Count(vals, P) = Cardinality(reports)
    BY <2>2, CollectedFacts
  <2>4. GoodPrices \subseteq P
    OBVIOUS
  <2> HIDE DEF P, vals, reports
  <2>5. Count(vals, P) = Len(vals)
    BY <2>1, <2>4, CountFacts
  <2>6. Cardinality(reports) = 0 <=> reports = {}
    BY <2>3, FS_EmptySet
  <2>7. vals # <<>> <=> Len(vals) # 0
    BY <2>1
  <2>8. QED
    BY <2>1, <2>3, <2>5, <2>6, <2>7 DEF reports
<1> HIDE DEF pairs, n, m
<1>9. Len(pairs) = n
  BY <1>6
<1>10. ASSUME NEW i \in 1 .. n
       PROVE  pairs[i] \in DOMAIN m /\ entries[i] = [pair |-> pairs[i], price |-> median(m[pairs[i]])]
  BY <1>6, <1>9
<1>11. DOMAIN entries = 1 .. n
  BY <1>9
<1> HIDE DEF entries
<1>12. ASSUME NEW p \in Range(entries) PROVE p.pair \in DOMAIN m /\ p.price = median(m[p.pair])
  <2>1. PICK i \in 1 .. n : p = entries[i]
    BY <1>11 DEF Range
  <2>2. pairs[i] \in DOMAIN m /\ p = [pair |-> pairs[i], price |-> median(m[pairs[i]])]
    BY <1>10, <2>1
  <2>3. p.pair = pairs[i] /\ p.price = median(m[pairs[i]])
    BY <2>2
  <2>4. QED
    BY <2>2, <2>3
<1>13. ASSUME NEW pair \in DOMAIN m PROVE \E p \in Range(entries) : p.pair = pair
  <2>1. PICK i \in 1 .. n : pairs[i] = pair
    BY <1>7
  <2>2. entries[i] \in Range(entries) /\ entries[i].pair = pair
    BY <1>10, <1>11, <2>1 DEF Range
  <2>3. QED
    BY <2>2
<1>14. {p.pair : p \in Range(entries)} = DOMAIN m
  BY <1>12, <1>13
<1>15. {Reported(exts, r).pair : r \in Reports(exts)} = DOMAIN m
  <2>1. ASSUME NEW r \in Reports(exts) PROVE Reported(exts, r).pair \in DOMAIN m
    <3>1. r \in ReportsFor(exts, Reported(exts, r).pair)
      BY DEF ReportsFor
    <3>2. QED
      BY <1>8, <3>1
  <2>2. ASSUME NEW pair \in DOMAIN m PROVE \E r \in Reports(exts) : Reported(exts, r).pair = pair
    <3>1. ReportsFor(exts, pair) # {}
      BY <1>8
    <3>2. QED
      BY <3>1 DEF ReportsFor
  <2>3. QED
    BY <2>1, <2>2
<1>16. ASSUME NEW p \in Range(entries)
       PROVE  LET reports == ReportsFor(exts, p.pair)
                  below == {r \in reports : Reported(exts, r).price < p.price}
                  above == {r \in reports : Reported(exts, r).price > p.price}
              IN /\ \E r \in reports : Reported(exts, r).price = p.price
                 /\ 2 * Cardinality(below) <= Cardinality(reports)
                 /\ 2 * Cardinality(above) <= Cardinality(reports)
  <2> DEFINE pair == p.pair
             x == median(pairPrices(exts)[pair])
  <2>1. pair \in DOMAIN pairPrices(exts) /\ p.price = x
    BY <1>12 DEF m
  <2> HIDE DEF pair
  <2>2. LET reports == ReportsFor(exts, pair)
            below == {r \in reports : Reported(exts, r).price < x}
            above == {r \in reports : Reported(exts, r).price > x}
        IN /\ \E r \in reports : Reported(exts, r).price = x
           /\ 2 * Cardinality(below) <= Cardinality(reports)
           /\ 2 * Cardinality(above) <= Cardinality(reports)
    BY <2>1, MedianReport
  <2> HIDE DEF x
  <2>3. QED
    BY <2>1, <2>2 DEF pair
<1>17. MedianOf(exts, entries)
  BY <1>14, <1>15, <1>16 DEF MedianOf
<1>18. QED
  BY <1>3, <1>17 DEF built

(* The oracle update in front of a proposal is the one that is built. *)
Fronted(exts, txs) ==
    txs # <<>> /\ IsOracle(txs[1]) =>
        /\ buildOracleTxFromExtensions(exts) # <<>>
        /\ txs[1] = buildOracleTxFromExtensions(exts)[1]

(* BuildProposal leaves it there. *)
LEMMA ProposalFronted ==
  ASSUME NEW exts \in Seq(Extensions), NEW mempool \in Seq(Transactions)
  PROVE  Fronted(exts, BuildProposal(exts, mempool))
<1> DEFINE built == buildOracleTxFromExtensions(exts)
           fits == built # <<>> /\ built[1].size <= MaxTxBytes
           base == IF fits THEN built ELSE <<>>
           S == {txs \in Seq(Transactions) : Fronted(exts, txs)}
<1>1. base \in S
  <2>1. CASE ~fits
    <3>1. base = <<>> /\ <<>> \in Seq(Transactions)
      BY <2>1
    <3>2. QED
      BY <3>1 DEF Fronted
  <2>2. CASE fits
    <3>1. PICK tx \in Transactions : built = <<tx>>
      BY <2>2, OracleBuilt
    <3>2. base = built /\ built # <<>>
      BY <2>2
    <3>3. built \in Seq(Transactions)
      BY <3>1
    <3>4. Fronted(exts, built)
      BY <3>2 DEF Fronted
    <3>5. QED
      BY <3>2, <3>3, <3>4
  <2>3. QED
    BY <2>1, <2>2
<1>2. ASSUME NEW txs \in S, NEW tx \in Transactions PROVE AddFromMempool(txs, tx) \in S
  <2>1. CASE TotalSize(txs) + tx.size > MaxTxBytes \/ IsOracle(tx)
    BY <2>1 DEF AddFromMempool
  <2>2. CASE ~(TotalSize(txs) + tx.size > MaxTxBytes \/ IsOracle(tx))
    <3> DEFINE new == Append(txs, tx)
    <3>1. AddFromMempool(txs, tx) = new
      BY <2>2 DEF AddFromMempool
    <3>2. txs \in Seq(Transactions) /\ new \in Seq(Transactions)
      OBVIOUS
    <3>3. CASE txs = <<>>
      <4>1. new[1] = tx
        BY <3>3
      <4> HIDE DEF new
      <4>2. QED
        BY <2>2, <3>1, <3>2, <4>1 DEF Fronted
    <3>4. CASE txs # <<>>
      <4>1. new[1] = txs[1]
        BY <3>2, <3>4
      <4>2. Fronted(exts, txs)
        OBVIOUS
      <4> HIDE DEF new
      <4>3. QED
        BY <3>1, <3>2, <3>4, <4>1, <4>2 DEF Fronted
    <3>5. QED
      BY <3>3, <3>4
  <2>3. QED
    BY <2>1, <2>2
<1>3. BuildProposal(exts, mempool) = FoldLeft(AddFromMempool, base, mempool)
  BY DEF BuildProposal
<1>4. FoldLeft(AddFromMempool, base, mempool) = Filling!Fold(base, mempool)
  BY ProposalFolds
<1> HIDE DEF base, S
<1>5. Filling!Fold(base, mempool) \in S
  BY <1>1, <1>2, Filling!FoldWithin
<1>6. QED
  BY <1>3, <1>4, <1>5 DEF S

=============================================================================
