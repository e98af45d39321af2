---------------------------- MODULE CounterProofs ---------------------------
(***************************************************************************)
(* Proofs about Counter, for counts of every width, blocks of any length,  *)
(* chains of any height and any number of restarts, crashes and readers.   *)
(*                                                                         *)
(* Two parts.  What execution computes: adding up the blocks in integers   *)
(* and reducing once is the same as executing them one by one in Width     *)
(* bits (by FoldTheorems).  Where the engine and the application stand:    *)
(* unless a genesis Handshake passed over committed state, the application *)
(* is at most one block ahead of what the engine has noted, and executes   *)
(* the block after its own.                                                *)
(***************************************************************************)
EXTENDS Counter, TLAPS

Txs == INSTANCE FoldTheorems WITH Op <- ExecuteTx
Sums == INSTANCE FoldTheorems WITH Op <- AddAdmitted
Chains == INSTANCE FoldTheorems WITH Op <- AddBlock

Transactions == Nat \cup {Short}
Modulus == 2^Width

-----------------------------------------------------------------------------
(* What execution computes. *)

(* A number less than the modulus is its own remainder. *)
LEMMA Remainder ==
  ASSUME NEW m \in Nat \ {0}, NEW a \in Nat, NEW q \in Nat, NEW r \in 0 .. m - 1, a = m * q + r
  PROVE  a % m = r
  OBVIOUS

(* Reducing before an addition changes nothing. *)
LEMMA ModAdd ==
  ASSUME NEW m \in Nat \ {0}, NEW a \in Nat, NEW t \in Nat
  PROVE  ((a % m) + t) % m = (a + t) % m
<1>1. ASSUME NEW x \in Nat
      PROVE  x \div m \in Nat /\ x % m \in 0 .. m - 1 /\ x = m * (x \div m) + (x % m)
  <2>1. x \div m \in Nat /\ x % m \in 0 .. m - 1
    OBVIOUS
  <2>2. m \in Int /\ m > 0 /\ x \in Int
    OBVIOUS
  <2>3. x = m * (x \div m) + (x % m)
    BY <2>2, SMTT(30)
  <2>4. QED
    BY <2>1, <2>3
<1>2. PICK q \in Nat, r \in 0 .. m - 1 : a = m * q + r /\ r = a % m
  BY <1>1
<1>3. r + t \in Nat
  OBVIOUS
<1>4. PICK p \in Nat, s \in 0 .. m - 1 : r + t = m * p + s /\ s = (r + t) % m
  BY <1>1, <1>3
<1>5. a + t = m * (q + p) + s
  <2>1. a + t = m * q + (r + t)
    BY <1>2
  <2>2. m * q + m * p = m * (q + p)
    OBVIOUS
  <2>3. m * q \in Nat /\ m * p \in Nat
    OBVIOUS
  <2>4. QED
    BY <1>4, <2>1, <2>2, <2>3
<1>6. (a + t) % m = s
  <2>1. a + t \in Nat /\ q + p \in Nat
    OBVIOUS
  <2>2. QED
    BY <1>5, <2>1, Remainder
<1>7. QED
  BY <1>2, <1>4, <1>6

(* The sums of FoldTheorems are the folds of the model. *)
LEMMA FoldNames ==
  ASSUME NEW c, NEW txs
  PROVE  /\ ExecuteTxs(c, txs) = Txs!Fold(c, txs)
         /\ AddBlock(c, txs) = Sums!Fold(c, txs)
         /\ FoldLeft(AddBlock, c, txs) = Chains!Fold(c, txs)
<1>1. ExecuteTxs(c, txs) = Txs!Fold(c, txs)
  BY DEF ExecuteTxs, FoldLeft, MapThenFoldSet, Max, Txs!Fold, Txs!FoldLeft,
     Txs!MapThenFoldSet, Txs!Max
<1>2. AddBlock(c, txs) = Sums!Fold(c, txs)
  BY DEF AddBlock, FoldLeft, MapThenFoldSet, Max, Sums!Fold, Sums!FoldLeft,
     Sums!MapThenFoldSet, Sums!Max
<1>3. FoldLeft(AddBlock, c, txs) = Chains!Fold(c, txs)
  BY DEF FoldLeft, MapThenFoldSet, Max, Chains!Fold, Chains!FoldLeft,
     Chains!MapThenFoldSet, Chains!Max
<1>4. QED
  BY <1>1, <1>2, <1>3

(* One transaction, in Width bits and in integers. *)
LEMMA OneTx ==
  ASSUME NEW sum \in Nat, NEW tx \in Transactions
  PROVE  /\ AddAdmitted(sum, tx) \in Nat
         /\ ExecuteTx(sum % Modulus, tx) = AddAdmitted(sum, tx) % Modulus
<1>1. Modulus \in Nat \ {0}
  BY CounterAssumption DEF Modulus
<1>2. CASE tx = Short
  BY <1>2 DEF AddAdmitted, CheckTx, ExecuteTx, validateTx
<1>3. CASE tx # Short
  <2>1. tx \in Nat
    BY <1>3 DEF Transactions
  <2>2. ((sum % Modulus) + tx) % Modulus = (sum + tx) % Modulus
    BY <1>1, <2>1, ModAdd
  <2>3. /\ AddAdmitted(sum, tx) = sum + tx
        /\ ExecuteTx(sum % Modulus, tx) = ((sum % Modulus) + tx) % Modulus
    BY <1>3 DEF AddAdmitted, CheckTx, ExecuteTx, validateTx, Modulus
  <2>4. QED
    BY <2>1, <2>2, <2>3
<1>4. QED
  BY <1>2, <1>3

(* A block, in Width bits and in integers. *)
LEMMA OneBlock ==
  ASSUME NEW sum \in Nat, NEW txs \in Seq(Transactions)
  PROVE  /\ AddBlock(sum, txs) \in Nat
         /\ ExecuteTxs(sum % Modulus, txs) = AddBlock(sum, txs) % Modulus
<1> DEFINE n == Len(txs)
<1>1. n \in Nat /\ \A i \in 1 .. n : txs[i] \in Transactions
  OBVIOUS
<1>2. PICK f : Sums!Trace(f, sum, txs, n) /\ AddBlock(sum, txs) = f[n]
  BY FoldNames, Sums!FoldTrace
<1> DEFINE g == [i \in 0 .. n |-> f[i] % Modulus]
           S == {i \in 0 .. n : f[i] \in Nat}
<1> HIDE DEF n
<1>3. \A i \in 0 .. n : f[i] \in Nat
  <2>1. 0 \in S
    BY <1>1, <1>2 DEF Sums!Trace
  <2>2. ASSUME NEW i \in 0 .. n - 1, i \in S PROVE i + 1 \in S
    <3>1. i + 1 \in 1 .. n /\ (i + 1) - 1 = i
      BY <1>1
    <3>2. f[i + 1] = AddAdmitted(f[i], txs[i + 1])
      BY <1>2, <3>1 DEF Sums!Trace
    <3>3. f[i] \in Nat /\ txs[i + 1] \in Transactions
      BY <1>1, <2>2, <3>1
    <3>4. f[i + 1] \in Nat
      BY <3>2, <3>3, OneTx
    <3>5. QED
      BY <1>1, <3>1, <3>4
  <2>3. \A i \in 0 .. n : i \in S
    <3> HIDE DEF S
    <3>1. QED
      BY <1>1, <2>1, <2>2, Sums!UpTo
  <2>4. QED
    BY <2>3
<1>4. Txs!Trace(g, sum % Modulus, txs, n)
  <2>1. g[0] = sum % Modulus
    BY <1>1, <1>2 DEF Sums!Trace
  <2>2. ASSUME NEW i \in 1 .. n PROVE g[i] = ExecuteTx(g[i - 1], txs[i])
    <3>1. i - 1 \in 0 .. n /\ i \in 0 .. n /\ f[i - 1] \in Nat /\ txs[i] \in Transactions
      BY <1>1, <1>3
    <3>2. f[i] = AddAdmitted(f[i - 1], txs[i])
      BY <1>2 DEF Sums!Trace
    <3>3. ExecuteTx(f[i - 1] % Modulus, txs[i]) = f[i] % Modulus
      BY <3>1, <3>2, OneTx
    <3>4. g[i] = f[i] % Modulus /\ g[i - 1] = f[i - 1] % Modulus
      BY <3>1
    <3>5. QED
      BY <3>3, <3>4
  <2> HIDE DEF g
  <2>3. QED
    BY <2>1, <2>2 DEF Txs!Trace
<1>5. ExecuteTxs(sum % Modulus, txs) = g[n]
  <2> HIDE DEF g
  <2>1. QED
    BY <1>4, FoldNames, Txs!FoldIsTrace DEF n
<1>6. n \in 0 .. n
  BY <1>1
<1>7. QED
  BY <1>2, <1>3, <1>5, <1>6

(* The sum of a chain, in integers. *)
Total(blocks) == FoldLeft(AddBlock, 0, blocks)

(* The sum of a chain is a number. *)
LEMMA TotalNat ==
  ASSUME NEW blocks \in Seq(Blocks)
  PROVE  Total(blocks) \in Nat
<1>1. \A sum \in Nat, txs \in Blocks : AddBlock(sum, txs) \in Nat
  BY OneBlock, CounterAssumption DEF Transactions
<1>2. Chains!Fold(0, blocks) \in Nat
  BY <1>1, Chains!FoldWithin
<1>3. QED
  BY <1>2, FoldNames DEF Total

(* The count after the first n blocks, ChainCount for any blocks. *)
CountOf(blocks, n) == Total(SubSeq(blocks, 1, n)) % Modulus

(* ChainCount is the count of the chain, in every state. *)
LEMMA ChainIs == \A n : ChainCount(n) = CountOf(chain, n)
BY DEF ChainCount, CountOf, Total, Modulus

(* No block, no count. *)
LEMMA ChainZero ==
  ASSUME NEW blocks \in Seq(Blocks)
  PROVE  CountOf(blocks, 0) = 0
<1>1. SubSeq(blocks, 1, 0) = <<>>
  OBVIOUS
<1>2. Total(<<>>) = 0
  BY FoldNames, Chains!FoldEmpty DEF Total
<1>3. 0 % Modulus = 0
  BY CounterAssumption DEF Modulus
<1>4. QED
  BY <1>1, <1>2, <1>3 DEF CountOf

(* The next block, executed on the count of the blocks before it. *)
LEMMA ChainNext ==
  ASSUME NEW blocks \in Seq(Blocks), NEW n \in Nat, n + 1 <= Len(blocks)
  PROVE  CountOf(blocks, n + 1) = ExecuteTxs(CountOf(blocks, n), blocks[n + 1])
<1> DEFINE before == SubSeq(blocks, 1, n)
           txs == blocks[n + 1]
<1>1. /\ before \in Seq(Blocks) /\ txs \in Blocks
      /\ SubSeq(blocks, 1, n + 1) = Append(before, txs)
  OBVIOUS
<1>2. txs \in Seq(Transactions)
  BY <1>1, CounterAssumption DEF Transactions
<1> HIDE DEF before, txs
<1>3. Total(Append(before, txs)) = AddBlock(Total(before), txs)
  <2>1. Chains!Fold(0, Append(before, txs)) = AddBlock(Chains!Fold(0, before), txs)
    BY <1>1, Chains!FoldAppend
  <2>2. \A bs : Total(bs) = Chains!Fold(0, bs)
    BY FoldNames DEF Total
  <2>3. QED
    BY <2>1, <2>2
<1>4. ExecuteTxs(Total(before) % Modulus, txs) = AddBlock(Total(before), txs) % Modulus
  BY <1>1, <1>2, TotalNat, OneBlock
<1>5. CountOf(blocks, n) = Total(before) % Modulus
  BY DEF CountOf, before
<1>6. CountOf(blocks, n + 1) = Total(Append(before, txs)) % Modulus
  BY <1>1 DEF CountOf
<1>7. QED
  BY <1>3, <1>4, <1>5, <1>6 DEF txs

(* A block more leaves the counts of the blocks before it. *)
LEMMA ChainKept ==
  ASSUME NEW blocks \in Seq(Blocks), NEW txs \in Blocks, NEW n \in 0 .. Len(blocks)
  PROVE  CountOf(Append(blocks, txs), n) = CountOf(blocks, n)
<1>1. SubSeq(Append(blocks, txs), 1, n) = SubSeq(blocks, 1, n)
  OBVIOUS
<1>2. QED
  BY <1>1 DEF CountOf

(* Executing a block keeps the count within Width bits. *)
LEMMA ExecuteTyped ==
  ASSUME NEW c \in Counts, NEW txs \in Blocks
  PROVE  ExecuteTxs(c, txs) \in Counts
<1>1. Modulus \in Nat \ {0} /\ Counts = 0 .. Modulus - 1
  BY CounterAssumption DEF Modulus, Counts
<1>2. c \in Nat /\ c % Modulus = c
  BY <1>1
<1>3. txs \in Seq(Transactions)
  BY CounterAssumption DEF Transactions
<1>4. AddBlock(c, txs) \in Nat /\ ExecuteTxs(c, txs) = AddBlock(c, txs) % Modulus
  BY <1>2, <1>3, OneBlock
<1>5. QED
  BY <1>1, <1>4

-----------------------------------------------------------------------------
(* Where the engine and the application stand. *)

Hashes == {computeHash(c) : c \in Counts}

Reads == [at : {"idle", "app", "done"}, since : Nat, value : Nat, height : Nat]

(* Types, and what the engine executes is a block of its chain. *)
TypeInv ==
    /\ count \in Counts /\ newCount \in Counts
    /\ staged \in [count : Counts, appHash : Hashes \cup {Nil}, height : 0 .. Len(chain)]
    /\ chain \in Seq(Blocks) /\ hashes \in Seq(Hashes)
    /\ Len(hashes) <= Len(chain) /\ Len(chain) <= MaxHeight
    /\ height \in 0 .. Len(chain)
    /\ appHash = computeHash(count)
    /\ pc \in {"down", "ready", "execute", "executed", "committed"}
    /\ next \in 0 .. Len(chain) + 1
    /\ pc # "down" => next >= 1
    /\ pc \in {"execute", "executed", "committed"} => next <= Len(chain)
    /\ pc = "executed" => staged.appHash = computeHash(staged.count)
    /\ pc \in {"executed", "committed"} => outcome \in Hashes
    /\ reads \in [Readers -> Reads]
    /\ forgot \in BOOLEAN /\ faults \in 0 .. MaxFaults

(* The engine executes the block after the application's last, and the       *)
(* application is ahead of what the engine has noted by one block at most,   *)
(* and only from its Commit to the engine's note of it.                      *)
PlaceInv ==
    ~forgot =>
        /\ pc = "down" => height <= Len(hashes) + 1
        /\ pc \in {"ready", "execute", "executed"} => next = height + 1 /\ height <= Len(hashes)
        /\ pc = "committed" => height = next /\ height <= Len(hashes) + 1
        /\ pc = "executed" => staged.height = next

(* What both hold is of the chain. *)
CountInv ==
    ~forgot =>
        /\ count = CountOf(chain, height)
        /\ \A h \in 1 .. Len(hashes) : hashes[h] = computeHash(CountOf(chain, h))
        /\ pc = "execute" => newCount = count
        /\ pc = "executed" => staged.count = CountOf(chain, next)
        /\ pc \in {"executed", "committed"} => outcome = computeHash(CountOf(chain, next))

(* What a reader was told is of the chain, no older than its call. *)
ReadInv ==
    ~forgot => \A r \in Readers :
        /\ reads[r].at = "app" => reads[r].since <= height
        /\ reads[r].at = "done" =>
            /\ reads[r].since <= reads[r].height /\ reads[r].height <= height
            /\ reads[r].value = CountOf(chain, reads[r].height)

CounterInv == TypeInv /\ PlaceInv /\ CountInv /\ ReadInv

(* The first connection. *)
LEMMA CounterInitInv == CounterInit => CounterInv
<1> SUFFICES ASSUME CounterInit PROVE CounterInv
  OBVIOUS
<1> USE DEF CounterInit
<1>1. 0 \in Counts
  BY CounterAssumption DEF Counts
<1>2. /\ <<>> \in Seq(Blocks) /\ <<>> \in Seq(Hashes) /\ Len(<<>>) = 0
  OBVIOUS
<1>3. TypeInv
  <2>1. NothingStaged \in [count : Counts, appHash : Hashes \cup {Nil}, height : 0 .. Len(chain)]
    BY <1>1, <1>2 DEF NothingStaged
  <2>2. NoRead \in Reads
    BY DEF NoRead, Reads
  <2>3. reads \in [Readers -> Reads]
    BY <2>2
  <2>4. forgot \in BOOLEAN
    OBVIOUS
  <2>5. QED
    BY <1>1, <1>2, <2>1, <2>3, <2>4, CounterAssumption DEF TypeInv, NewApp
<1>4. PlaceInv /\ CountInv
  <2>1. CountOf(chain, 0) = 0
    BY <1>2, ChainZero
  <2>2. QED
    BY <1>2, <2>1 DEF PlaceInv, CountInv, NewApp
<1>5. ReadInv
  BY DEF ReadInv, NoRead
<1>6. QED
  BY <1>3, <1>4, <1>5 DEF CounterInv

(* What Handshake does: at genesis the engine starts from the first block,   *)
(* and otherwise from the block after the application's, noting the hash of  *)
(* a block that the application is ahead by.                                 *)
LEMMA HandshakeFollows ==
  ASSUME TypeInv, Handshake
  PROVE  /\ pc = "down" /\ pc' = "ready"
         /\ UNCHANGED <<appVars, newCount, chain, outcome, reads, faults>>
         /\ \/ hashes = <<>> /\ next' = 1 /\ UNCHANGED hashes
            \/ /\ hashes # <<>> /\ next' = height + 1
               /\ hashes' = IF height > Len(hashes) THEN Append(hashes, appHash) ELSE hashes
         /\ forgot' <=> (forgot \/ (hashes = <<>> /\ height > 0))
<1> USE DEF Handshake, appVars
<1>1. height \in Nat /\ Nil \notin Nat /\ hashes \in Seq(Hashes)
  BY CounterAssumption DEF TypeInv
<1>2. forgot' <=> (forgot \/ (hashes = <<>> /\ height > 0))
  BY Zenon
<1>3. CASE hashes = <<>>
  <2>1. resp'.lastBlock = Nil
    BY <1>3 DEF HandshakeResponse
  <2>2. Len(hashes) = 0
    BY <1>3
  <2>3. next' = 1 /\ UNCHANGED hashes
    BY <2>1, <2>2
  <2>4. QED
    BY <1>2, <1>3, <2>3
<1>4. CASE hashes # <<>>
  <2>1. resp'.lastBlock = height /\ resp'.appHash = Nil
    BY <1>4 DEF HandshakeResponse
  <2>2. ReportedHash' = appHash
    BY <2>1 DEF ReportedHash
  <2>3. /\ next' = height + 1
        /\ hashes' = IF height > Len(hashes) THEN Append(hashes, appHash) ELSE hashes
    BY <1>1, <2>1, <2>2
  <2>4. QED
    BY <1>2, <1>4, <2>3
<1>5. QED
  BY <1>3, <1>4

(* Types are kept. *)
LEMMA CounterTypeStep ==
  ASSUME CounterInv, CounterNext
  PROVE  TypeInv'
<1> USE CounterAssumption DEF appVars, engineVars
<1>1. TypeInv
  BY DEF CounterInv
<1> DEFINE Staged(n) == [count : Counts, appHash : Hashes \cup {Nil}, height : 0 .. n]
<1>2. CASE Handshake
  <2>1. appHash \in Hashes
    BY <1>1 DEF TypeInv, Hashes
  <2>2. /\ pc' = "ready" /\ next' \in {1, height + 1}
        /\ UNCHANGED <<appVars, newCount, chain, outcome, reads, faults>>
        /\ \/ UNCHANGED hashes
           \/ height > Len(hashes) /\ hashes' = Append(hashes, appHash)
    BY <1>1, <1>2, HandshakeFollows
  <2>3. hashes' \in Seq(Hashes) /\ Len(hashes') <= Len(chain)
    <3>1. /\ hashes \in Seq(Hashes) /\ chain \in Seq(Blocks)
          /\ Len(hashes) <= Len(chain) /\ height \in 0 .. Len(chain)
      BY <1>1 DEF TypeInv
    <3>2. CASE UNCHANGED hashes
      BY <3>1, <3>2
    <3>3. CASE height > Len(hashes) /\ hashes' = Append(hashes, appHash)
      <4>1. hashes' \in Seq(Hashes) /\ Len(hashes') = Len(hashes) + 1
        BY <2>1, <3>1, <3>3
      <4>2. QED
        BY <3>1, <3>3, <4>1
    <3>4. QED
      BY <2>2, <3>2, <3>3
  <2>4. forgot' \in BOOLEAN
    BY <1>2 DEF Handshake
  <2>5. next' \in 0 .. Len(chain) + 1 /\ next' >= 1
    BY <1>1, <2>2 DEF TypeInv
  <2>6. QED
    BY <1>1, <2>2, <2>3, <2>4, <2>5 DEF TypeInv
<1>3. CASE Finalize
  <2>1. /\ chain' \in Seq(Blocks) /\ Len(chain') = Len(chain) + 1
        /\ Len(chain) + 1 <= MaxHeight
    BY <1>1, <1>3 DEF Finalize, TypeInv
  <2>2. staged' \in Staged(Len(chain'))
    BY <1>1, <1>3, <2>1 DEF Finalize, TypeInv
  <2>3. QED
    BY <1>1, <1>3, <2>1, <2>2 DEF Finalize, TypeInv
<1>4. CASE ExecuteRead
  BY <1>1, <1>4 DEF ExecuteRead, TypeInv
<1>5. CASE ExecuteStage
  <2> DEFINE c == ExecuteTxs(newCount, chain[next])
  <2>1. next \in 1 .. Len(chain) /\ chain[next] \in Blocks
    BY <1>1, <1>5 DEF ExecuteStage, TypeInv
  <2>2. c \in Counts /\ 0 \in Counts
    <3>1. newCount \in Counts
      BY <1>1 DEF TypeInv
    <3>2. c \in Counts
      BY <2>1, <3>1, ExecuteTyped
    <3>3. 0 \in Counts
      BY DEF Counts
    <3>4. QED
      BY <3>2, <3>3
  <2>3. /\ staged' = [count |-> c, appHash |-> computeHash(c), height |-> next]
        /\ outcome' = computeHash(c)
    BY <1>5 DEF ExecuteStage
  <2> HIDE DEF c
  <2>4. computeHash(c) \in Hashes
    BY <2>2 DEF Hashes
  <2>5. staged' \in Staged(Len(chain)) /\ staged'.appHash = computeHash(staged'.count)
    BY <2>1, <2>2, <2>3, <2>4
  <2>6. QED
    BY <1>1, <1>5, <2>1, <2>2, <2>3, <2>4, <2>5 DEF ExecuteStage, TypeInv
<1>6. CASE Commit
  BY <1>1, <1>6 DEF Commit, TypeInv
<1>7. CASE Record
  <2>1. next \in 1 .. Len(chain) /\ outcome \in Hashes
    BY <1>1, <1>7 DEF Record, TypeInv
  <2>2. hashes' \in Seq(Hashes) /\ Len(hashes') <= Len(chain)
    BY <1>1, <1>7, <2>1 DEF Record, TypeInv
  <2>3. QED
    BY <1>1, <1>7, <2>1, <2>2 DEF Record, TypeInv
<1>8. ASSUME NEW r \in Readers, QueryEnter(r) \/ Query(r) PROVE TypeInv'
  <2>1. reads' \in [Readers -> Reads]
    <3>1. reads \in [Readers -> Reads] /\ count \in Nat /\ height \in Nat
      BY <1>1 DEF TypeInv, Counts
    <3>2. CASE QueryEnter(r)
      <4>1. [NoRead EXCEPT !.at = "app", !.since = height] \in Reads
        BY <3>1 DEF NoRead, Reads
      <4>2. QED
        BY <3>1, <3>2, <4>1 DEF QueryEnter
    <3>3. CASE Query(r)
      <4>1. reads[r] \in Reads
        BY <3>1
      <4>2. [reads[r] EXCEPT !.at = "done", !.value = count, !.height = height] \in Reads
        BY <3>1, <4>1 DEF Reads
      <4>3. reads' = [reads EXCEPT ![r] =
                [reads[r] EXCEPT !.at = "done", !.value = count, !.height = height]]
        BY <3>1, <3>3, <4>1 DEF Query, Reads
      <4>4. QED
        BY <3>1, <4>2, <4>3
    <3>4. QED
      BY <1>8, <3>2, <3>3
  <2>2. UNCHANGED <<appVars, newCount, engineVars, forgot, faults>>
    BY <1>8 DEF QueryEnter, Query
  <2>3. QED
    BY <1>1, <2>1, <2>2 DEF TypeInv
<1>9. CASE EngineRestarts \/ ProcessCrashes
  <2>1. /\ pc' = "down" /\ next' = 0 /\ newCount' = 0
        /\ UNCHANGED <<chain, hashes, forgot>>
        /\ reads' = [r \in Readers |-> NoRead]
        /\ faults < MaxFaults /\ faults' = faults + 1
        /\ \/ UNCHANGED appVars
           \/ /\ count' = 0 /\ appHash' = computeHash(0) /\ height' = 0
              /\ staged' = NothingStaged
    BY <1>9 DEF EngineRestarts, ProcessCrashes, EngineStops, NewApp
  <2>2. 0 \in Counts /\ NoRead \in Reads
    BY DEF Counts, NoRead, Reads
  <2>3. NothingStaged \in Staged(Len(chain))
    BY <1>1, <2>2 DEF NothingStaged, TypeInv
  <2>4. staged' \in Staged(Len(chain)) /\ reads' \in [Readers -> Reads]
    BY <1>1, <2>1, <2>2, <2>3 DEF TypeInv
  <2>5. /\ count' \in Counts /\ appHash' = computeHash(count') /\ height' \in 0 .. Len(chain)
    BY <1>1, <2>1, <2>2 DEF TypeInv
  <2>6. QED
    BY <1>1, <2>1, <2>2, <2>4, <2>5 DEF TypeInv
<1>10. QED
  BY <1>2, <1>3, <1>4, <1>5, <1>6, <1>7, <1>8, <1>9 DEF CounterNext, EngineStep

(* Only Handshake can pass over committed state, and it is never undone. *)
LEMMA ForgotKept ==
  ASSUME TypeInv, CounterNext, ~forgot'
  PROVE  ~forgot
<1>1. CASE Handshake
  BY <1>1, HandshakeFollows
<1>2. CASE ~Handshake
  <2>1. UNCHANGED forgot
    BY <1>2 DEF CounterNext, EngineStep, Finalize, ExecuteRead, ExecuteStage, Commit, Record,
       QueryEnter, Query, EngineRestarts, ProcessCrashes, EngineStops
  <2>2. QED
    BY <2>1
<1>3. QED
  BY <1>1, <1>2

(* Facts on lengths and heights that every step uses. *)
LEMMA Sizes ==
  ASSUME TypeInv
  PROVE  /\ hashes \in Seq(Hashes) /\ Len(hashes) \in Nat
         /\ chain \in Seq(Blocks) /\ Len(chain) \in Nat
         /\ height \in Nat /\ next \in Nat /\ height <= Len(chain)
BY DEF TypeInv

(* What a restart or a crash leaves. *)
LEMMA Fault ==
  ASSUME EngineRestarts \/ ProcessCrashes
  PROVE  /\ pc' = "down" /\ pc # "down" /\ UNCHANGED <<chain, hashes>>
         /\ reads' = [r \in Readers |-> NoRead]
         /\ (count' = count /\ height' = height) \/ (count' = 0 /\ height' = 0)
BY DEF EngineRestarts, ProcessCrashes, EngineStops, NewApp, appVars

(* A Query changes what its reader holds. *)
LEMMA Reading ==
  ASSUME NEW r \in Readers, QueryEnter(r) \/ Query(r)
  PROVE  UNCHANGED <<count, height, staged, newCount, pc, chain, hashes, next, outcome>>
BY DEF QueryEnter, Query, appVars, engineVars

(* The engine stays with the application. *)
LEMMA PlaceStep ==
  ASSUME CounterInv, CounterNext
  PROVE  PlaceInv'
<1> SUFFICES ASSUME ~forgot'
             PROVE  /\ pc' = "down" => height' <= Len(hashes') + 1
                    /\ pc' \in {"ready", "execute", "executed"} =>
                        next' = height' + 1 /\ height' <= Len(hashes')
                    /\ pc' = "committed" => height' = next' /\ height' <= Len(hashes') + 1
                    /\ pc' = "executed" => staged'.height = next'
  BY DEF PlaceInv
<1>1. /\ TypeInv /\ ~forgot
      /\ hashes \in Seq(Hashes) /\ Len(hashes) \in Nat
      /\ height \in Nat /\ next \in Nat
      /\ pc \in {"down", "ready", "execute", "executed", "committed"}
  BY ForgotKept, Sizes DEF CounterInv, TypeInv
<1>2. /\ pc = "down" => height <= Len(hashes) + 1
      /\ pc \in {"ready", "execute", "executed"} => next = height + 1 /\ height <= Len(hashes)
      /\ pc = "committed" => height = next /\ height <= Len(hashes) + 1
      /\ pc = "executed" => staged.height = next
  BY <1>1 DEF CounterInv, PlaceInv
<1>3. CASE Handshake
  <2>1. pc = "down" /\ pc' = "ready" /\ height' = height
    BY <1>1, <1>3, HandshakeFollows DEF appVars
  <2>2. CASE hashes = <<>>
    <3>1. height = 0 /\ next' = 1 /\ hashes' = hashes
      BY <1>1, <1>3, <2>2, HandshakeFollows
    <3>2. QED
      BY <1>1, <2>1, <3>1
  <2>3. CASE hashes # <<>>
    <3>1. next' = height + 1
      BY <1>1, <1>3, <2>3, HandshakeFollows
    <3>2. CASE height > Len(hashes)
      <4>1. hashes' = Append(hashes, appHash)
        BY <1>1, <1>3, <2>3, <3>2, HandshakeFollows
      <4>2. appHash \in Hashes
        BY <1>1 DEF TypeInv, Hashes
      <4>3. Len(hashes') = Len(hashes) + 1
        BY <1>1, <4>1, <4>2
      <4>4. QED
        BY <1>1, <1>2, <2>1, <3>1, <4>3
    <3>3. CASE ~(height > Len(hashes))
      <4>1. hashes' = hashes
        BY <1>1, <1>3, <2>3, <3>3, HandshakeFollows
      <4>2. QED
        BY <1>1, <2>1, <3>1, <3>3, <4>1
    <3>4. QED
      BY <3>2, <3>3
  <2>4. QED
    BY <2>2, <2>3
<1>4. CASE Finalize \/ ExecuteRead
  BY <1>2, <1>4 DEF Finalize, ExecuteRead, appVars
<1>5. CASE ExecuteStage
  BY <1>2, <1>5 DEF ExecuteStage
<1>6. CASE Commit
  BY <1>1, <1>2, <1>6 DEF Commit
<1>7. CASE Record
  <2>1. outcome \in Hashes
    BY <1>1, <1>7 DEF Record, TypeInv
  <2>2. /\ next > Len(hashes) => Len(hashes') = Len(hashes) + 1
        /\ ~(next > Len(hashes)) => Len(hashes') = Len(hashes)
    BY <1>1, <1>7, <2>1 DEF Record
  <2>3. pc = "committed" /\ pc' = "ready" /\ next' = next + 1 /\ height' = height
    BY <1>7 DEF Record, appVars
  <2>4. QED
    BY <1>1, <1>2, <2>2, <2>3
<1>8. ASSUME NEW r \in Readers, QueryEnter(r) \/ Query(r)
      PROVE  UNCHANGED <<height, staged, pc, hashes, next>>
  BY <1>8, Reading
<1>9. CASE EngineRestarts \/ ProcessCrashes
  <2>1. pc' = "down" /\ pc # "down" /\ hashes' = hashes /\ height' \in {height, 0}
    BY <1>9, Fault
  <2>2. QED
    BY <1>1, <1>2, <2>1
<1>10. CASE UNCHANGED <<height, staged, pc, hashes, next>>
  BY <1>2, <1>10
<1>11. QED
  BY <1>3, <1>4, <1>5, <1>6, <1>7, <1>8, <1>9, <1>10 DEF CounterNext, EngineStep

(* The counts of both stay those of the chain. *)
LEMMA CountStep ==
  ASSUME CounterInv, CounterNext
  PROVE  CountInv'
<1> SUFFICES ASSUME ~forgot'
             PROVE  /\ count' = CountOf(chain', height')
                    /\ \A h \in 1 .. Len(hashes') : hashes'[h] = computeHash(CountOf(chain', h))
                    /\ pc' = "execute" => newCount' = count'
                    /\ pc' = "executed" => staged'.count = CountOf(chain', next')
                    /\ pc' \in {"executed", "committed"} =>
                        outcome' = computeHash(CountOf(chain', next'))
  BY DEF CountInv, computeHash
<1>1. /\ TypeInv /\ ~forgot
      /\ hashes \in Seq(Hashes) /\ Len(hashes) \in Nat
      /\ chain \in Seq(Blocks) /\ Len(chain) \in Nat /\ Len(hashes) <= Len(chain)
      /\ height \in Nat /\ next \in Nat /\ height <= Len(chain)
  BY ForgotKept, Sizes DEF CounterInv, TypeInv
<1>2. /\ pc = "down" => height <= Len(hashes) + 1
      /\ pc \in {"ready", "execute", "executed"} => next = height + 1 /\ height <= Len(hashes)
      /\ pc = "committed" => height = next /\ height <= Len(hashes) + 1
      /\ pc = "executed" => staged.height = next
  BY <1>1 DEF CounterInv, PlaceInv
<1>3. /\ count = CountOf(chain, height)
      /\ \A h \in 1 .. Len(hashes) : hashes[h] = computeHash(CountOf(chain, h))
      /\ pc = "execute" => newCount = count
      /\ pc = "executed" => staged.count = CountOf(chain, next)
      /\ pc \in {"executed", "committed"} => outcome = computeHash(CountOf(chain, next))
  BY <1>1 DEF CounterInv, CountInv
<1>4. ASSUME NEW hash \in Hashes, hash = computeHash(CountOf(chain, Len(hashes) + 1)),
             hashes' = Append(hashes, hash), UNCHANGED chain
      PROVE  \A h \in 1 .. Len(hashes') : hashes'[h] = computeHash(CountOf(chain', h))
  <2>1. /\ Len(hashes') = Len(hashes) + 1
        /\ \A h \in 1 .. Len(hashes) : hashes'[h] = hashes[h]
        /\ hashes'[Len(hashes) + 1] = hash
    BY <1>1, <1>4
  <2>2. \A h \in 1 .. Len(hashes') : h \in 1 .. Len(hashes) \/ h = Len(hashes) + 1
    BY <1>1, <2>1
  <2>3. QED
    BY <1>3, <1>4, <2>1, <2>2
<1>5. ASSUME UNCHANGED <<hashes, chain>>
      PROVE  \A h \in 1 .. Len(hashes') : hashes'[h] = computeHash(CountOf(chain', h))
  BY <1>3, <1>5
<1>6. CASE Handshake
  <2>1. /\ pc = "down" /\ pc' = "ready"
        /\ UNCHANGED <<count, appHash, height, chain>>
    BY <1>1, <1>6, HandshakeFollows DEF appVars
  <2>2. \/ UNCHANGED hashes
        \/ height > Len(hashes) /\ hashes' = Append(hashes, appHash)
    BY <1>1, <1>6, HandshakeFollows
  <2>3. CASE UNCHANGED hashes
    BY <1>3, <1>5, <2>1, <2>3
  <2>4. CASE height > Len(hashes) /\ hashes' = Append(hashes, appHash)
    <3>1. appHash \in Hashes /\ appHash = computeHash(count)
      BY <1>1 DEF TypeInv, Hashes
    <3>2. height = Len(hashes) + 1
      BY <1>1, <1>2, <2>1, <2>4
    <3>3. QED
      BY <1>3, <1>4, <2>1, <2>4, <3>1, <3>2
  <2>5. QED
    BY <2>2, <2>3, <2>4
<1>7. CASE Finalize
  <2>1. PICK txs \in Blocks : chain' = Append(chain, txs)
    BY <1>7 DEF Finalize
  <2>2. \A n \in 0 .. Len(chain) : CountOf(chain', n) = CountOf(chain, n)
    BY <1>1, <2>1, ChainKept
  <2>3. /\ pc = "ready" /\ pc' = "ready" /\ UNCHANGED <<count, height, hashes>>
    BY <1>7 DEF Finalize, appVars
  <2>4. height \in 0 .. Len(chain) /\ \A h \in 1 .. Len(hashes) : h \in 0 .. Len(chain)
    BY <1>1
  <2>5. QED
    BY <1>3, <2>2, <2>3, <2>4
<1>8. CASE ExecuteRead
  <2>1. /\ pc' = "execute" /\ newCount' = count
        /\ UNCHANGED <<count, height, hashes, chain>>
    BY <1>8 DEF ExecuteRead, appVars
  <2>2. QED
    BY <1>3, <1>5, <2>1
<1>9. CASE ExecuteStage
  <2>1. /\ pc = "execute" /\ pc' = "executed"
        /\ staged'.count = ExecuteTxs(newCount, chain[next])
        /\ outcome' = computeHash(ExecuteTxs(newCount, chain[next]))
        /\ UNCHANGED <<count, height, hashes, chain, next>>
    BY <1>9 DEF ExecuteStage
  <2>2. height + 1 <= Len(chain) /\ next = height + 1
    BY <1>1, <1>2, <2>1 DEF TypeInv
  <2>3. CountOf(chain, next) = ExecuteTxs(newCount, chain[next])
    BY <1>1, <1>3, <2>1, <2>2, ChainNext
  <2>4. QED
    BY <1>3, <1>5, <2>1, <2>3
<1>10. CASE Commit
  <2>1. /\ pc = "executed" /\ pc' = "committed"
        /\ count' = staged.count /\ height' = staged.height
        /\ UNCHANGED <<hashes, chain, next, outcome>>
    BY <1>10 DEF Commit
  <2>2. QED
    BY <1>2, <1>3, <1>5, <2>1
<1>11. CASE Record
  <2>1. /\ pc = "committed" /\ pc' = "ready" /\ UNCHANGED <<count, height, chain>>
        /\ hashes' = IF next > Len(hashes) THEN Append(hashes, outcome) ELSE hashes
    BY <1>11 DEF Record, appVars
  <2>2. CASE next > Len(hashes)
    <3>1. outcome \in Hashes
      BY <1>1, <2>1 DEF TypeInv
    <3>2. next = Len(hashes) + 1
      BY <1>1, <1>2, <2>1, <2>2
    <3>3. QED
      BY <1>3, <1>4, <2>1, <2>2, <3>1, <3>2
  <2>3. CASE ~(next > Len(hashes))
    BY <1>3, <1>5, <2>1, <2>3
  <2>4. QED
    BY <2>2, <2>3
<1>12. ASSUME NEW r \in Readers, QueryEnter(r) \/ Query(r)
       PROVE  UNCHANGED <<count, height, staged, newCount, pc, chain, hashes, next, outcome>>
  BY <1>12, Reading
<1>13. CASE UNCHANGED <<count, height, staged, newCount, pc, chain, hashes, next, outcome>>
  BY <1>3, <1>5, <1>13
<1>14. CASE EngineRestarts \/ ProcessCrashes
  <2>1. /\ pc' = "down" /\ UNCHANGED <<chain, hashes>>
        /\ (count' = count /\ height' = height) \/ (count' = 0 /\ height' = 0)
    BY <1>14, Fault
  <2>2. CountOf(chain, 0) = 0
    BY <1>1, ChainZero
  <2>3. QED
    BY <1>3, <1>5, <2>1, <2>2
<1>15. QED
  BY <1>6, <1>7, <1>8, <1>9, <1>10, <1>11, <1>12, <1>13, <1>14 DEF CounterNext, EngineStep

(* What readers were told stays true. *)
LEMMA ReadStep ==
  ASSUME CounterInv, CounterNext
  PROVE  ReadInv'
<1> DEFINE Told(read, blocks, h) ==
               /\ read.at = "app" => read.since <= h
               /\ read.at = "done" =>
                   /\ read.since <= read.height /\ read.height <= h
                   /\ read.value = CountOf(blocks, read.height)
<1> SUFFICES ASSUME ~forgot'
             PROVE  \A r \in Readers : Told(reads'[r], chain', height')
  BY DEF ReadInv
<1>1. /\ TypeInv /\ ~forgot
      /\ chain \in Seq(Blocks) /\ Len(chain) \in Nat
      /\ height \in Nat /\ next \in Nat /\ height <= Len(chain)
      /\ reads \in [Readers -> Reads]
  BY ForgotKept, Sizes DEF CounterInv, TypeInv
<1>2. \A r \in Readers : Told(reads[r], chain, height)
  BY <1>1 DEF CounterInv, ReadInv
<1>3. count = CountOf(chain, height)
  BY <1>1 DEF CounterInv, CountInv
<1>4. \A r \in Readers : reads[r].since \in Nat /\ reads[r].height \in Nat
  BY <1>1 DEF Reads
<1>5. ASSUME UNCHANGED <<reads, chain>>, height' \in Nat, height <= height'
      PROVE  \A r \in Readers : Told(reads'[r], chain', height')
  BY <1>1, <1>2, <1>4, <1>5
<1>6. CASE Handshake
  <2>1. UNCHANGED <<reads, chain, height>>
    BY <1>1, <1>6, HandshakeFollows DEF appVars
  <2>2. QED
    BY <1>1, <1>5, <2>1
<1>7. CASE Finalize
  <2>1. PICK txs \in Blocks : chain' = Append(chain, txs)
    BY <1>7 DEF Finalize
  <2>2. \A n \in 0 .. Len(chain) : CountOf(chain', n) = CountOf(chain, n)
    BY <1>1, <2>1, ChainKept
  <2>3. UNCHANGED <<reads, height>>
    BY <1>7 DEF Finalize, appVars
  <2>4. \A r \in Readers : reads[r].height <= height => reads[r].height \in 0 .. Len(chain)
    BY <1>1, <1>4
  <2>5. QED
    BY <1>2, <2>2, <2>3, <2>4
<1>8. CASE ExecuteRead \/ ExecuteStage \/ Record
  <2>1. UNCHANGED <<reads, chain, height>>
    BY <1>8 DEF ExecuteRead, ExecuteStage, Record, appVars
  <2>2. QED
    BY <1>1, <1>5, <2>1
<1>9. CASE Commit
  <2>1. UNCHANGED <<reads, chain>> /\ height' = staged.height
    BY <1>9 DEF Commit
  <2>2. staged.height = next /\ next = height + 1
    BY <1>1, <1>9 DEF Commit, CounterInv, PlaceInv
  <2>3. QED
    BY <1>1, <1>5, <2>1, <2>2
<1>10. ASSUME NEW q \in Readers, QueryEnter(q)
       PROVE  \A r \in Readers : Told(reads'[r], chain', height')
  <2>1. UNCHANGED <<chain, height>>
    BY <1>10, Reading
  <2>2. reads' = [reads EXCEPT ![q] = [NoRead EXCEPT !.at = "app", !.since = height]]
    BY <1>10 DEF QueryEnter
  <2>3. Told([NoRead EXCEPT !.at = "app", !.since = height], chain, height)
    BY <1>1 DEF NoRead
  <2>4. \A r \in Readers : r # q => reads'[r] = reads[r]
    BY <1>1, <2>2
  <2>5. reads'[q] = [NoRead EXCEPT !.at = "app", !.since = height]
    BY <1>1, <2>2
  <2> HIDE DEF Told
  <2>6. QED
    BY <1>2, <2>1, <2>3, <2>4, <2>5
<1>11. ASSUME NEW q \in Readers, Query(q)
       PROVE  \A r \in Readers : Told(reads'[r], chain', height')
  <2>1. UNCHANGED <<chain, height>>
    BY <1>11, Reading
  <2>2. \A r \in Readers : r # q => reads'[r] = reads[r]
    BY <1>1, <1>11 DEF Query
  <2>3. reads[q].at = "app" /\ reads[q].since <= height
    BY <1>2, <1>11 DEF Query
  <2>4. /\ reads'[q].at = "done" /\ reads'[q].value = count /\ reads'[q].height = height
        /\ reads'[q].since = reads[q].since
    BY <1>1, <1>11 DEF Query, Reads
  <2>5. Told(reads'[q], chain, height)
    BY <1>1, <1>3, <2>3, <2>4
  <2> HIDE DEF Told
  <2>6. QED
    BY <1>2, <2>1, <2>2, <2>5
<1>12. CASE EngineRestarts \/ ProcessCrashes
  <2>1. reads' = [r \in Readers |-> NoRead]
    BY <1>12, Fault
  <2>2. QED
    BY <2>1 DEF NoRead
<1>13. QED
  BY <1>6, <1>7, <1>8, <1>9, <1>10, <1>11, <1>12 DEF CounterNext, EngineStep

(* The invariant is inductive. *)
LEMMA CounterNextInv == CounterInv /\ [CounterNext]_vars => CounterInv'
<1>1. ASSUME CounterInv, CounterNext PROVE CounterInv'
  BY <1>1, CounterTypeStep, PlaceStep, CountStep, ReadStep DEF CounterInv
<1>2. ASSUME CounterInv, UNCHANGED vars PROVE CounterInv'
  BY <1>2 DEF CounterInv, TypeInv, PlaceInv, CountInv, ReadInv, vars, appVars, engineVars
<1>3. QED
  BY <1>1, <1>2

-----------------------------------------------------------------------------
(* Results. *)

(* The engine and the application keep together over restarts and crashes    *)
(* (Handshake, ExecuteBlock, Commit, Query of example/counter/app.go).       *)
THEOREM CounterInvariance == CounterSpec => []CounterInv
BY CounterInitInv, CounterNextInv, PTL DEF CounterSpec

(* Counts keep to Width bits and heights to the chain, and the engine never  *)
(* notes more blocks than it has finalised.                                  *)
THEOREM CounterTypeCorrect == CounterSpec => []CounterTypeOK
<1>1. CounterInv => CounterTypeOK
  <2> SUFFICES ASSUME TypeInv PROVE CounterTypeOK
    BY DEF CounterInv
  <2>1. /\ staged.count \in Counts /\ staged.height \in 0 .. MaxHeight
        /\ height \in 0 .. MaxHeight /\ next \in 0 .. MaxHeight + 1
    BY CounterAssumption, Sizes DEF TypeInv
  <2>2. appHash \in {computeHash(c) : c \in Counts}
    BY DEF TypeInv
  <2>3. QED
    BY <2>1, <2>2 DEF TypeInv, CounterTypeOK
<1>2. QED
  BY <1>1, CounterInvariance, PTL

(* The committed count is the sum of the chain in Width bits, every block    *)
(* counted once, over any restarts, crashes and replays (ExecuteBlock,       *)
(* Commit).                                                                  *)
THEOREM CommittedCorrect == CounterSpec => []CommittedIsChain
<1>1. CounterInv => CommittedIsChain
  BY ChainIs DEF CounterInv, CountInv, CommittedIsChain
<1>2. QED
  BY <1>1, CounterInvariance, PTL

(* The engine's AppHash of a height is that of the chain, wherever it has it *)
(* from (Handshake, ExecuteBlock).                                           *)
THEOREM RecordedCorrect == CounterSpec => []RecordedIsChain
<1>1. CounterInv => RecordedIsChain
  BY ChainIs DEF CounterInv, CountInv, RecordedIsChain
<1>2. QED
  BY <1>1, CounterInvariance, PTL

(* A replayed block has the AppHash it had the first time (ExecuteBlock). *)
THEOREM ReplayCorrect == CounterSpec => []ReplayAgrees
<1>1. CounterInv => ReplayAgrees
  <2> SUFFICES ASSUME CounterInv, ~forgot, pc \in {"executed", "committed"}, next <= Len(hashes)
               PROVE  outcome = hashes[next]
    BY DEF ReplayAgrees
  <2>1. next \in 1 .. Len(hashes)
    BY Sizes DEF CounterInv, TypeInv
  <2>2. QED
    BY <2>1 DEF CounterInv, CountInv
<1>2. QED
  BY <1>1, CounterInvariance, PTL

(* A Query answers with the count of the chain at the height it gives, no    *)
(* older than the call (Query).                                              *)
THEOREM QueryCorrect == CounterSpec => []QueryReadsCommitted
<1>1. CounterInv => QueryReadsCommitted
  <2> SUFFICES ASSUME CounterInv, ~forgot, NEW r \in Readers, reads[r].at = "done"
               PROVE  reads[r].value = ChainCount(reads[r].height) /\ reads[r].height >= reads[r].since
    BY DEF QueryReadsCommitted
  <2>1. reads[r].since \in Nat /\ reads[r].height \in Nat
    BY DEF CounterInv, TypeInv, Reads
  <2>2. /\ reads[r].since <= reads[r].height
        /\ reads[r].value = CountOf(chain, reads[r].height)
    BY DEF CounterInv, ReadInv
  <2>3. QED
    BY <2>1, <2>2, ChainIs
<1>2. QED
  BY <1>1, CounterInvariance, PTL

=============================================================================
