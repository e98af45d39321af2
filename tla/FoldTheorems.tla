---------------------------- MODULE FoldTheorems ----------------------------
(***************************************************************************)
(* What FoldLeft computes, for every operation and every sequence: the     *)
(* examples execute a block, and the properties sum up a chain, by folding *)
(* over sequences.  A module that folds with an operation of its own takes *)
(* these theorems with INSTANCE ... WITH Op.                               *)
(*                                                                         *)
(* FoldLeft chooses a recursive function on the sets of indices.  That it  *)
(* exists is shown by induction on the greatest index; induction itself is *)
(* the least element of a set of naturals (WFMin), as the provers cannot   *)
(* apply the library's induction rules to a predicate.                     *)
(***************************************************************************)
EXTENDS Integers, SequencesExt, WellFoundedInduction, TLAPS

CONSTANT Op(_, _)

Fold(base, seq) == FoldLeft(Op, base, seq)

(* The values that a fold of the first n elements goes through. *)
Trace(f, base, seq, n) == f[0] = base /\ \A i \in 1 .. n : f[i] = Op(f[i - 1], seq[i])

-----------------------------------------------------------------------------
(* Induction. *)

(* A set of naturals that is not empty has a least element. *)
LEMMA LeastNat ==
  ASSUME NEW T, T \subseteq Nat, T # {}
  PROVE  \E n \in T : \A k \in T : n <= k
<1> DEFINE R == {ss \in Nat \X Nat : ss[1] < ss[2]}
<1>1. IsWellFoundedOn(R, Nat)
  BY NatLessThanWellFounded DEF OpToRel
<1>2. PICK n \in T : \A k \in T : <<k, n>> \notin R
  <2> HIDE DEF R
  <2>1. QED
    BY <1>1, WFMin
<1>3. ASSUME NEW k \in T PROVE n <= k
  <2>1. n \in Nat /\ k \in Nat
    OBVIOUS
  <2>2. ~(k < n)
    BY <1>2, <2>1
  <2>3. QED
    BY <2>1, <2>2
<1>4. QED
  BY <1>3

(* Induction up to a bound, with a set in place of a predicate. *)
LEMMA UpTo ==
  ASSUME NEW n \in Nat, NEW S, 0 \in S, \A i \in 0 .. n - 1 : i \in S => i + 1 \in S
  PROVE  \A i \in 0 .. n : i \in S
<1> DEFINE T == {i \in 0 .. n : i \notin S}
<1>1. SUFFICES ASSUME T # {} PROVE FALSE
  OBVIOUS
<1>2. PICK k \in T : \A j \in T : k <= j
  <2>1. T \subseteq Nat
    OBVIOUS
  <2>2. QED
    BY <1>1, <2>1, LeastNat
<1>3. k # 0 /\ k - 1 \in 0 .. n - 1 /\ k - 1 \notin T
  BY <1>2
<1>4. QED
  BY <1>2, <1>3

(* A set of indices that is not empty has a greatest element, its Max. *)
LEMMA MaxIn ==
  ASSUME NEW n \in Nat, NEW s \in SUBSET (1 .. n), s # {}
  PROVE  Max(s) \in s /\ \A y \in s : y <= Max(s)
<1> DEFINE T == {n - i : i \in s}
<1>1. T \subseteq Nat /\ T # {}
  <2>1. ASSUME NEW i \in s PROVE n - i \in Nat
    <3>1. i \in 1 .. n
      OBVIOUS
    <3>2. QED
      BY <3>1
  <2>2. PICK i \in s : TRUE
    OBVIOUS
  <2>3. n - i \in T
    OBVIOUS
  <2>4. QED
    BY <2>1, <2>3
<1>2. PICK k \in T : \A j \in T : k <= j
  BY <1>1, LeastNat
<1>3. PICK i \in s : k = n - i
  OBVIOUS
<1>4. ASSUME NEW y \in s PROVE i >= y
  <2>1. n - i <= n - y
    BY <1>2, <1>3
  <2>2. QED
    BY <2>1
<1>5. \E x \in s : \A y \in s : x >= y
  BY <1>4
<1>6. Max(s) \in s /\ \A y \in s : Max(s) >= y
  BY <1>5 DEF Max
<1>7. QED
  BY <1>6

-----------------------------------------------------------------------------
(* The function inside FoldLeft. *)

IterStep(iter, base, seq, s) ==
    IF s = {} THEN base ELSE Op(iter[s \ {Max(s)}], seq[Max(s)])

IsIter(iter, n, base, seq) ==
    iter = [s \in SUBSET (1 .. n) |-> IterStep(iter, base, seq, s)]

(* It exists: a function that is right for the sets of indices up to k gives *)
(* one that is right up to k + 1.                                            *)
LEMMA IterExists ==
  ASSUME NEW n \in Nat, NEW base, NEW seq
  PROVE  \E f : IsIter(f, n, base, seq)
<1> DEFINE D == SUBSET (1 .. n)
           Right(f, k) == /\ f = [s \in D |-> f[s]]
                          /\ \A s \in SUBSET (1 .. k) : f[s] = IterStep(f, base, seq, s)
           S == {k \in 0 .. n : \E f : Right(f, k)}
<1>1. 0 \in S
  <2> DEFINE f == [s \in D |-> base]
  <2>1. \A s \in SUBSET (1 .. 0) : s = {}
    OBVIOUS
  <2>2. f[{}] = base
    OBVIOUS
  <2>3. Right(f, 0)
    BY <2>1, <2>2 DEF IterStep
  <2> HIDE DEF f, Right
  <2>4. QED
    BY <2>3
<1>2. ASSUME NEW k \in 0 .. n - 1, k \in S PROVE k + 1 \in S
  <2>1. PICK f : Right(f, k)
    BY <1>2
  <2> DEFINE g == [s \in D |->
                     IF s \in SUBSET (1 .. k) THEN f[s] ELSE IterStep(f, base, seq, s)]
  <2>2. g = [s \in D |-> g[s]]
    OBVIOUS
  <2>3. ASSUME NEW s \in SUBSET (1 .. k + 1) PROVE g[s] = IterStep(g, base, seq, s)
    <3>1. s \in D
      OBVIOUS
    <3>2. CASE s = {}
      BY <2>1, <3>2 DEF IterStep
    <3>3. CASE s # {}
      <4>1. Max(s) \in s /\ \A y \in s : y <= Max(s)
        BY <3>1, <3>3, MaxIn
      <4>2. s \ {Max(s)} \in SUBSET (1 .. k)
        <5>1. ASSUME NEW y \in s \ {Max(s)} PROVE y \in 1 .. k
          <6>1. y \in 1 .. k + 1 /\ Max(s) \in 1 .. k + 1 /\ y <= Max(s) /\ y # Max(s)
            BY <4>1
          <6>2. QED
            BY <6>1
        <5>2. QED
          BY <5>1
      <4>3. s \ {Max(s)} \in D
        BY <3>1
      <4>4. g[s \ {Max(s)}] = f[s \ {Max(s)}]
        BY <4>2, <4>3
      <4>5. g[s] = IterStep(f, base, seq, s)
        <5>1. s \in SUBSET (1 .. k) => f[s] = IterStep(f, base, seq, s)
          BY <2>1
        <5> HIDE DEF Right
        <5>2. QED
          BY <3>1, <5>1
      <4> HIDE DEF g
      <4>6. QED
        BY <3>3, <4>4, <4>5 DEF IterStep
    <3>4. QED
      BY <3>2, <3>3
  <2> HIDE DEF g
  <2>4. Right(g, k + 1)
    BY <2>2, <2>3
  <2> HIDE DEF Right
  <2>5. QED
    BY <2>4
<1>3. n \in S
  <2> HIDE DEF S
  <2>1. QED
    BY <1>1, <1>2, UpTo
<1>4. PICK f : Right(f, n)
  BY <1>3
<1>5. \A s \in D : f[s] = IterStep(f, base, seq, s)
  BY <1>4
<1>6. f = [s \in D |-> f[s]]
  BY <1>4
<1>7. [s \in D |-> f[s]] = [s \in D |-> IterStep(f, base, seq, s)]
  BY <1>5, Zenon
<1>8. f = [s \in D |-> IterStep(f, base, seq, s)]
  BY <1>6, <1>7, Zenon
<1>9. QED
  BY <1>8 DEF IsIter

-----------------------------------------------------------------------------
(* What a fold computes. *)

(* A fold is the last value of a trace of the whole sequence. *)
THEOREM FoldTrace ==
  ASSUME NEW A, NEW seq \in Seq(A), NEW base
  PROVE  \E f : Trace(f, base, seq, Len(seq)) /\ Fold(base, seq) = f[Len(seq)]
<1> DEFINE n == Len(seq)
           iter == CHOOSE it : IsIter(it, n, base, seq)
<1>1. n \in Nat /\ DOMAIN seq = 1 .. n
  OBVIOUS
<1>2. IsIter(iter, n, base, seq)
  BY <1>1, IterExists
<1>3. Fold(base, seq) = iter[1 .. n]
  BY <1>1 DEF Fold, FoldLeft, MapThenFoldSet, IsIter, IterStep
<1> HIDE DEF iter, n
<1>4. \A s \in SUBSET (1 .. n) : iter[s] = IterStep(iter, base, seq, s)
  BY <1>2 DEF IsIter
<1>5. iter[{}] = base
  <2>1. {} \in SUBSET (1 .. n)
    OBVIOUS
  <2>2. QED
    BY <1>4, <2>1 DEF IterStep
<1>6. ASSUME NEW i \in 1 .. n PROVE iter[1 .. i] = Op(iter[1 .. i - 1], seq[i])
  <2>1. 1 .. i \in SUBSET (1 .. n) /\ 1 .. i # {} /\ i \in 1 .. i
    BY <1>1
  <2>2. Max(1 .. i) \in 1 .. i /\ \A y \in 1 .. i : y <= Max(1 .. i)
    BY <1>1, <2>1, MaxIn
  <2>3. Max(1 .. i) = i
    BY <2>1, <2>2
  <2>4. (1 .. i) \ {i} = 1 .. i - 1
    BY <1>1
  <2>5. iter[1 .. i] = IterStep(iter, base, seq, 1 .. i)
    BY <1>4, <2>1
  <2>6. QED
    BY <2>1, <2>3, <2>4, <2>5 DEF IterStep
<1> DEFINE f == [i \in 0 .. n |-> iter[1 .. i]]
<1>7. f[0] = base
  <2>1. 1 .. 0 = {}
    OBVIOUS
  <2>2. QED
    BY <1>1, <1>5, <2>1
<1>8. \A i \in 1 .. n : f[i] = Op(f[i - 1], seq[i])
  BY <1>1, <1>6
<1>9. f[n] = iter[1 .. n]
  BY <1>1
<1> HIDE DEF f
<1>10. Trace(f, base, seq, n)
  BY <1>7, <1>8 DEF Trace
<1>11. QED
  BY <1>3, <1>9, <1>10 DEF n

(* Traces are determined by the base and the elements. *)
THEOREM TraceUnique ==
  ASSUME NEW n \in Nat, NEW base, NEW seq, NEW other, NEW f, NEW g,
         Trace(f, base, seq, n), Trace(g, base, other, n),
         \A i \in 1 .. n : seq[i] = other[i]
  PROVE  \A i \in 0 .. n : f[i] = g[i]
<1> DEFINE S == {i \in 0 .. n : f[i] = g[i]}
<1>1. 0 \in S
  BY DEF Trace
<1>2. ASSUME NEW i \in 0 .. n - 1, i \in S PROVE i + 1 \in S
  <2>1. i + 1 \in 1 .. n /\ (i + 1) - 1 = i
    OBVIOUS
  <2>2. f[i + 1] = Op(f[i], seq[i + 1]) /\ g[i + 1] = Op(g[i], other[i + 1])
    BY <2>1 DEF Trace
  <2>3. QED
    BY <1>2, <2>1, <2>2
<1>3. \A i \in 0 .. n : i \in S
  <2> HIDE DEF S
  <2>1. QED
    BY <1>1, <1>2, UpTo
<1>4. QED
  BY <1>3

(* Any trace of the whole sequence ends in the fold. *)
THEOREM FoldIsTrace ==
  ASSUME NEW A, NEW seq \in Seq(A), NEW base, NEW f, Trace(f, base, seq, Len(seq))
  PROVE  Fold(base, seq) = f[Len(seq)]
<1>1. Len(seq) \in Nat
  OBVIOUS
<1>2. PICK g : Trace(g, base, seq, Len(seq)) /\ Fold(base, seq) = g[Len(seq)]
  BY FoldTrace
<1>3. \A i \in 0 .. Len(seq) : f[i] = g[i]
  BY <1>1, <1>2, TraceUnique
<1>4. QED
  BY <1>1, <1>2, <1>3

(* The fold of nothing. *)
THEOREM FoldEmpty ==
  ASSUME NEW base
  PROVE  Fold(base, <<>>) = base
<1>1. <<>> \in Seq({}) /\ Len(<<>>) = 0
  OBVIOUS
<1>2. PICK f : Trace(f, base, <<>>, Len(<<>>)) /\ Fold(base, <<>>) = f[Len(<<>>)]
  BY <1>1, FoldTrace
<1>3. QED
  BY <1>1, <1>2 DEF Trace

(* One more element is one more application. *)
THEOREM FoldAppend ==
  ASSUME NEW A, NEW seq \in Seq(A), NEW e \in A, NEW base
  PROVE  Fold(base, Append(seq, e)) = Op(Fold(base, seq), e)
<1> DEFINE n == Len(seq)
           longer == Append(seq, e)
<1>1. /\ n \in Nat /\ longer \in Seq(A) /\ Len(longer) = n + 1 /\ longer[n + 1] = e
      /\ \A i \in 1 .. n : longer[i] = seq[i]
  OBVIOUS
<1> HIDE DEF longer
<1>2. PICK f : Trace(f, base, longer, n + 1) /\ Fold(base, longer) = f[n + 1]
  BY <1>1, FoldTrace
<1>3. Trace(f, base, seq, n)
  BY <1>1, <1>2 DEF Trace
<1>4. Fold(base, seq) = f[n]
  BY <1>3, FoldIsTrace
<1>5. f[n + 1] = Op(f[n], e)
  <2>1. n + 1 \in 1 .. n + 1 /\ (n + 1) - 1 = n
    BY <1>1
  <2>2. QED
    BY <1>1, <1>2, <2>1 DEF Trace
<1>6. QED
  BY <1>2, <1>4, <1>5 DEF longer

(* A set that the operation does not leave. *)
THEOREM FoldWithin ==
  ASSUME NEW A, NEW seq \in Seq(A), NEW S, NEW base \in S,
         \A x \in S, e \in A : Op(x, e) \in S
  PROVE  Fold(base, seq) \in S
<1> DEFINE n == Len(seq)
<1>1. n \in Nat /\ \A i \in 1 .. n : seq[i] \in A
  OBVIOUS
<1>2. PICK f : Trace(f, base, seq, n) /\ Fold(base, seq) = f[n]
  BY FoldTrace
<1> DEFINE I == {i \in 0 .. n : f[i] \in S}
<1> HIDE DEF n
<1>3. 0 \in I
  BY <1>1, <1>2 DEF Trace
<1>4. ASSUME NEW i \in 0 .. n - 1, i \in I PROVE i + 1 \in I
  <2>1. i + 1 \in 1 .. n /\ (i + 1) - 1 = i
    BY <1>1
  <2>2. f[i + 1] = Op(f[i], seq[i + 1])
    BY <1>2, <2>1 DEF Trace
  <2>3. QED
    BY <1>1, <1>4, <2>1, <2>2
<1>5. n \in I
  <2> HIDE DEF I
  <2>1. \A i \in 0 .. n : i \in I
    BY <1>1, <1>3, <1>4, UpTo
  <2>2. QED
    BY <1>1, <2>1
<1>6. QED
  BY <1>2, <1>5

=============================================================================
