--------------------------- MODULE UtilitiesProofs ---------------------------
(***************************************************************************)
(* Proofs about parts of Utilities.tla, as theorems of its specification:  *)
(* a part moves by its own actions, or not at all.  First what several of  *)
(* them need, induction over a set of numbers and sums; then the weights,  *)
(* the one-step trainer, the result files and the rate of rewards.  The    *)
(* others are in UtilitiesDataProofs.tla.                                  *)
(***************************************************************************)
EXTENDS Utilities, FiniteSetTheorems, SequenceTheorems, WellFoundedInduction, TLAPS

-----------------------------------------------------------------------------
(* Numbers and sums                                                        *)

LEMMA Least ==
    ASSUME NEW T \in SUBSET Nat, T # {}
    PROVE  \E x \in T : \A y \in T : x <= y
<1>1. PICK x \in T : \A y \in T : ~(<<y, x>> \in OpToRel(<, Nat))
  BY NatLessThanWellFounded, WFMin
<1>2. \A y \in T : ~(y < x)
  BY <1>1 DEF OpToRel
<1>. QED  BY <1>2

-----------------------------------------------------------------------------
(* Induction, with a set of numbers in place of a predicate                *)

LEMMA Induction ==
    ASSUME NEW T, 0 \in T, \A n \in Nat : n \in T => n + 1 \in T
    PROVE  \A n \in Nat : n \in T
<1>. DEFINE Bad == {n \in Nat : n \notin T}
<1>1. SUFFICES ASSUME Bad # {} PROVE FALSE
  OBVIOUS
<1>2. PICK m \in Bad : \A n \in Bad : m <= n
  BY <1>1, Least
<1>3. m \in Nat \ {0}
  OBVIOUS
<1>4. m - 1 \in Nat /\ m - 1 \notin Bad
  BY <1>2, <1>3
<1>5. (m - 1) + 1 \in T
  BY <1>4
<1>. QED  BY <1>3, <1>5

-----------------------------------------------------------------------------
(* Sums over finite sets                                                   *)

Pick(s) == CHOOSE x \in s : TRUE

\* The function that MapThenSumSet evaluates, for the values f.
Partial(f, S) ==
    CHOOSE iter : iter = [s \in SUBSET S |->
        IF s = {} THEN 0 ELSE f[Pick(s)] + iter[s \ {Pick(s)}]]
SumOf(f, S) == Partial(f, S)[S]

Adds(f, S, g) ==
    \A s \in SUBSET S : g[s] = IF s = {} THEN 0 ELSE f[Pick(s)] + g[s \ {Pick(s)}]

LEMMA PickIn == \A s : s # {} => Pick(s) \in s
BY DEF Pick

LEMMA OneLess ==
    ASSUME NEW S, IsFiniteSet(S), NEW x \in S
    PROVE  /\ IsFiniteSet(S \ {x}) /\ Cardinality(S) \in Nat /\ Cardinality(S) > 0
           /\ Cardinality(S \ {x}) = Cardinality(S) - 1
<1>1. IsFiniteSet(S \ {x}) /\ Cardinality(S \ {x}) = Cardinality(S) - 1
  BY FS_RemoveElement
<1>2. Cardinality(S) \in Nat /\ Cardinality(S \ {x}) \in Nat
  BY <1>1, FS_CardinalityType
<1>. QED  BY <1>1, <1>2

AddsUpTo(f, S, n) ==
    \E g : /\ g = [s \in SUBSET S |-> g[s]]
           /\ \A s \in SUBSET S : Cardinality(s) <= n =>
                g[s] = IF s = {} THEN 0 ELSE f[Pick(s)] + g[s \ {Pick(s)}]

\* There is such a function, whatever is picked.
LEMMA PartialIs ==
    ASSUME NEW S, IsFiniteSet(S), NEW f
    PROVE  Adds(f, S, Partial(f, S))
<1>. DEFINE Step(s, g) == IF s = {} THEN 0 ELSE f[Pick(s)] + g[s \ {Pick(s)}]
            T == {n \in Nat : AddsUpTo(f, S, n)}
<1>0. \A s \in SUBSET S : IsFiniteSet(s) /\ Cardinality(s) \in Nat
  BY FS_Subset, FS_CardinalityType
<1>1. 0 \in T
  <2>. DEFINE g == [s \in SUBSET S |-> 0]
  <2>1. \A s \in SUBSET S : Cardinality(s) <= 0 => s = {}
    BY <1>0, FS_EmptySet
  <2>2. \A s \in SUBSET S : Cardinality(s) <= 0 => g[s] = Step(s, g)
    BY <2>1
  <2>3. g = [s \in SUBSET S |-> g[s]]
    OBVIOUS
  <2>. HIDE DEF g
  <2>. QED  BY <2>2, <2>3 DEF AddsUpTo
<1>2. ASSUME NEW n \in Nat, n \in T PROVE n + 1 \in T
  <2>1. PICK g : \A s \in SUBSET S : Cardinality(s) <= n => g[s] = Step(s, g)
    BY <1>2 DEF AddsUpTo
  <2>. DEFINE h == [s \in SUBSET S |-> Step(s, g)]
  <2>2. ASSUME NEW s \in SUBSET S, Cardinality(s) <= n + 1 PROVE h[s] = Step(s, h)
    <3>1. CASE s = {}
      BY <3>1
    <3>2. CASE s # {}
      <4>. DEFINE t == s \ {Pick(s)}
      <4>1. Pick(s) \in s /\ t \in SUBSET S
        BY <3>2, PickIn
      <4>2. Cardinality(t) = Cardinality(s) - 1
        BY <4>1, <1>0, OneLess
      <4>3. Cardinality(t) <= n
        BY <4>1, <4>2, <1>0, <2>2
      <4>4. g[t] = h[t]
        BY <4>1, <4>3, <2>1
      <4>. QED  BY <3>2, <4>4
    <3>. QED  BY <3>1, <3>2
  <2>3. h = [s \in SUBSET S |-> h[s]]
    OBVIOUS
  <2>. HIDE DEF h
  <2>4. AddsUpTo(f, S, n + 1)
    BY <2>2, <2>3 DEF AddsUpTo
  <2>. QED  BY <2>4
<1>3. \A n \in Nat : n \in T
  <2>. HIDE DEF T
  <2>. QED  BY <1>1, <1>2, Induction
<1>4. PICK g : /\ g = [s \in SUBSET S |-> g[s]]
               /\ \A s \in SUBSET S : Cardinality(s) <= Cardinality(S) => g[s] = Step(s, g)
  BY <1>0, <1>3 DEF AddsUpTo
<1>5. \A s \in SUBSET S : Cardinality(s) <= Cardinality(S)
  BY FS_Subset
<1>6. g = [s \in SUBSET S |-> Step(s, g)]
  BY <1>4, <1>5
<1>7. Partial(f, S) = [s \in SUBSET S |-> Step(s, Partial(f, S))]
  <2>1. g = [s \in SUBSET S |-> IF s = {} THEN 0 ELSE f[Pick(s)] + g[s \ {Pick(s)}]]
    BY <1>6
  <2>. QED  BY <2>1 DEF Partial
<1>. QED  BY <1>7 DEF Adds

\* It does not matter of which larger set the sums are taken.
LEMMA SameSums ==
    ASSUME NEW f, NEW g, NEW h, NEW S, NEW R, IsFiniteSet(S), IsFiniteSet(R),
           Adds(f, S, g), Adds(f, R, h)
    PROVE  \A s \in SUBSET (S \cap R) : g[s] = h[s]
<1>. DEFINE T == {n \in Nat : \A s \in SUBSET (S \cap R) :
                                 Cardinality(s) = n => g[s] = h[s]}
<1>0. \A s \in SUBSET (S \cap R) : IsFiniteSet(s) /\ Cardinality(s) \in Nat
  BY FS_Subset, FS_CardinalityType
<1>1. 0 \in T
  <2>1. \A s \in SUBSET (S \cap R) : Cardinality(s) = 0 => s = {}
    BY <1>0, FS_EmptySet
  <2>2. g[{}] = 0 /\ h[{}] = 0
    BY DEF Adds
  <2>. QED  BY <2>1, <2>2
<1>2. ASSUME NEW n \in Nat, n \in T PROVE n + 1 \in T
  <2>1. ASSUME NEW s \in SUBSET (S \cap R), Cardinality(s) = n + 1 PROVE g[s] = h[s]
    <3>1. s # {}
      BY <2>1, FS_EmptySet
    <3>2. Pick(s) \in s
      BY <3>1, PickIn
    <3>3. Cardinality(s \ {Pick(s)}) = n /\ s \ {Pick(s)} \in SUBSET (S \cap R)
      BY <3>2, <2>1, <1>0, OneLess
    <3>4. g[s \ {Pick(s)}] = h[s \ {Pick(s)}]
      BY <3>3, <1>2
    <3>5. /\ g[s] = f[Pick(s)] + g[s \ {Pick(s)}]
          /\ h[s] = f[Pick(s)] + h[s \ {Pick(s)}]
      BY <3>1 DEF Adds
    <3>. QED  BY <3>4, <3>5
  <2>. QED  BY <2>1
<1>3. \A n \in Nat : n \in T
  <2>. HIDE DEF T
  <2>. QED  BY <1>1, <1>2, Induction
<1>. QED  BY <1>0, <1>3

LEMMA SumPicks ==
    ASSUME NEW f, NEW S, IsFiniteSet(S)
    PROVE  SumOf(f, S) = IF S = {} THEN 0 ELSE f[Pick(S)] + SumOf(f, S \ {Pick(S)})
<1>1. CASE S = {}
  BY <1>1, PartialIs DEF SumOf, Adds
<1>2. CASE S # {}
  <2>. DEFINE R == S \ {Pick(S)}
  <2>1. Adds(f, S, Partial(f, S)) /\ IsFiniteSet(R)
    BY PartialIs, FS_Subset
  <2>2. Adds(f, R, Partial(f, R))
    BY <2>1, PartialIs
  <2>3. R \in SUBSET (S \cap R)
    OBVIOUS
  <2>. HIDE DEF R
  <2>4. Partial(f, S)[R] = Partial(f, R)[R]
    BY <2>1, <2>2, <2>3, SameSums
  <2>5. SumOf(f, S) = f[Pick(S)] + Partial(f, S)[R]
    BY <1>2, <2>1 DEF SumOf, Adds, R
  <2>. QED  BY <1>2, <2>4, <2>5 DEF SumOf, R
<1>. QED  BY <1>1, <1>2

LEMMA SumType ==
    ASSUME NEW S, IsFiniteSet(S), NEW f, \A x \in S : f[x] \in Nat
    PROVE  SumOf(f, S) \in Nat
<1>. DEFINE T == {n \in Nat : \A s \in SUBSET S : Cardinality(s) = n => SumOf(f, s) \in Nat}
<1>0. \A s \in SUBSET S : IsFiniteSet(s) /\ Cardinality(s) \in Nat
  BY FS_Subset, FS_CardinalityType
<1>1. 0 \in T
  <2>1. \A s \in SUBSET S : Cardinality(s) = 0 => s = {}
    BY <1>0, FS_EmptySet
  <2>2. SumOf(f, {}) = 0
    BY FS_EmptySet, SumPicks
  <2>. QED  BY <2>1, <2>2
<1>2. ASSUME NEW n \in Nat, n \in T PROVE n + 1 \in T
  <2>1. ASSUME NEW s \in SUBSET S, Cardinality(s) = n + 1 PROVE SumOf(f, s) \in Nat
    <3>1. s # {}
      BY <2>1, FS_EmptySet
    <3>2. Pick(s) \in s
      BY <3>1, PickIn
    <3>3. Cardinality(s \ {Pick(s)}) = n /\ s \ {Pick(s)} \in SUBSET S
      BY <3>2, <2>1, <1>0, OneLess
    <3>4. SumOf(f, s \ {Pick(s)}) \in Nat /\ f[Pick(s)] \in Nat
      BY <3>2, <3>3, <1>2
    <3>5. SumOf(f, s) = f[Pick(s)] + SumOf(f, s \ {Pick(s)})
      BY <3>1, <1>0, SumPicks
    <3>. QED  BY <3>4, <3>5
  <2>. QED  BY <2>1
<1>3. \A n \in Nat : n \in T
  <2>. HIDE DEF T
  <2>. QED  BY <1>1, <1>2, Induction
<1>. QED  BY <1>0, <1>3

\* Any element can be taken out first.
LEMMA SumTakes ==
    ASSUME NEW S, IsFiniteSet(S), NEW f, \A x \in S : f[x] \in Nat
    PROVE  \A x \in S : SumOf(f, S) = f[x] + SumOf(f, S \ {x})
<1>. DEFINE T == {n \in Nat : \A s \in SUBSET S : Cardinality(s) = n =>
                     \A x \in s : SumOf(f, s) = f[x] + SumOf(f, s \ {x})}
<1>0. \A s \in SUBSET S : IsFiniteSet(s) /\ Cardinality(s) \in Nat /\ SumOf(f, s) \in Nat
  <2>1. TAKE s \in SUBSET S
  <2>2. IsFiniteSet(s) /\ \A x \in s : f[x] \in Nat
    BY FS_Subset
  <2>. QED  BY <2>2, FS_CardinalityType, SumType
<1>1. 0 \in T
  BY <1>0, FS_EmptySet
<1>2. ASSUME NEW n \in Nat, n \in T PROVE n + 1 \in T
  <2>1. ASSUME NEW s \in SUBSET S, Cardinality(s) = n + 1, NEW x \in s
        PROVE  SumOf(f, s) = f[x] + SumOf(f, s \ {x})
    <3>. DEFINE p == Pick(s)
    <3>1. p \in s /\ SumOf(f, s) = f[p] + SumOf(f, s \ {p})
      BY <2>1, <1>0, PickIn, SumPicks
    <3>2. CASE p = x
      BY <3>1, <3>2
    <3>3. CASE p # x
      <4>1. /\ Cardinality(s \ {p}) = n /\ Cardinality(s \ {x}) = n
            /\ s \ {p} \in SUBSET S /\ s \ {x} \in SUBSET S
        BY <2>1, <3>1, <1>0, OneLess
      <4>2. SumOf(f, s \ {p}) = f[x] + SumOf(f, (s \ {p}) \ {x})
        BY <4>1, <3>3, <1>2
      <4>3. SumOf(f, s \ {x}) = f[p] + SumOf(f, (s \ {x}) \ {p})
        BY <4>1, <3>1, <3>3, <1>2
      <4>4. (s \ {p}) \ {x} = (s \ {x}) \ {p}
        OBVIOUS
      <4>5. SumOf(f, (s \ {x}) \ {p}) \in Nat /\ f[p] \in Nat /\ f[x] \in Nat
        BY <1>0, <3>1
      <4>6. SumOf(f, s) = f[p] + (f[x] + SumOf(f, (s \ {x}) \ {p}))
        BY <3>1, <4>2, <4>4
      <4>. HIDE DEF p
      <4>. QED  BY <4>3, <4>5, <4>6
    <3>. QED  BY <3>2, <3>3
  <2>. QED  BY <2>1
<1>3. \A n \in Nat : n \in T
  <2>. HIDE DEF T
  <2>. QED  BY <1>1, <1>2, Induction
<1>. QED  BY <1>0, <1>3

\* The sum of the larger set is what it is of the smaller one and of the rest.
LEMMA SumSplits ==
    ASSUME NEW S, IsFiniteSet(S), NEW f, \A x \in S : f[x] \in Nat
    PROVE  \A s \in SUBSET S : SumOf(f, S) = SumOf(f, s) + SumOf(f, S \ s)
<1>. DEFINE T == {n \in Nat : \A s \in SUBSET S : Cardinality(s) = n =>
                                 SumOf(f, S) = SumOf(f, s) + SumOf(f, S \ s)}
<1>0. \A s \in SUBSET S : /\ IsFiniteSet(s) /\ Cardinality(s) \in Nat /\ SumOf(f, s) \in Nat
                          /\ \A x \in s : SumOf(f, s) = f[x] + SumOf(f, s \ {x})
  <2>1. TAKE s \in SUBSET S
  <2>2. IsFiniteSet(s) /\ \A x \in s : f[x] \in Nat
    BY FS_Subset
  <2>. QED  BY <2>2, FS_CardinalityType, SumType, SumTakes
<1>1. 0 \in T
  <2>1. \A s \in SUBSET S : Cardinality(s) = 0 => s = {} /\ S \ s = S
    BY <1>0, FS_EmptySet
  <2>2. SumOf(f, {}) = 0 /\ SumOf(f, S) \in Nat
    BY <1>0, FS_EmptySet, SumPicks
  <2>. QED  BY <2>1, <2>2
<1>2. ASSUME NEW n \in Nat, n \in T PROVE n + 1 \in T
  <2>1. ASSUME NEW s \in SUBSET S, Cardinality(s) = n + 1
        PROVE  SumOf(f, S) = SumOf(f, s) + SumOf(f, S \ s)
    <3>1. PICK x \in s : TRUE
      BY <2>1, FS_EmptySet
    <3>2. Cardinality(s \ {x}) = n /\ s \ {x} \in SUBSET S /\ S \ (s \ {x}) \in SUBSET S
      BY <2>1, <1>0, OneLess
    <3>3. SumOf(f, S) = SumOf(f, s \ {x}) + SumOf(f, S \ (s \ {x}))
      BY <3>2, <1>2
    <3>4. SumOf(f, s) = f[x] + SumOf(f, s \ {x})
      BY <1>0
    <3>5. x \in S \ (s \ {x}) /\ (S \ (s \ {x})) \ {x} = S \ s /\ S \ s \in SUBSET S
      OBVIOUS
    <3>6. SumOf(f, S \ (s \ {x})) = f[x] + SumOf(f, S \ s)
      BY <1>0, <3>2, <3>5
    <3>7. f[x] \in Nat /\ SumOf(f, S \ s) \in Nat /\ SumOf(f, s \ {x}) \in Nat
      BY <1>0, <3>2, <3>5
    <3>. QED  BY <3>3, <3>4, <3>6, <3>7
  <2>. QED  BY <2>1
<1>3. \A n \in Nat : n \in T
  <2>. HIDE DEF T
  <2>. QED  BY <1>1, <1>2, Induction
<1>. QED  BY <1>0, <1>3

LEMMA SumGrows ==
    ASSUME NEW S, IsFiniteSet(S), NEW f, \A x \in S : f[x] \in Nat, NEW s \in SUBSET S
    PROVE  SumOf(f, s) <= SumOf(f, S)
<1>1. SumOf(f, S) = SumOf(f, s) + SumOf(f, S \ s)
  BY SumSplits
<1>2. IsFiniteSet(s) /\ IsFiniteSet(S \ s)
  BY FS_Subset
<1>3. SumOf(f, s) \in Nat /\ SumOf(f, S \ s) \in Nat
  BY <1>2, SumType
<1>. QED  BY <1>1, <1>3

-----------------------------------------------------------------------------
(* The weight transfer                                                     *)

LEMMA BucketInit == Init => BucketIInv
<1> SUFFICES ASSUME Init PROVE BucketIInv
  OBVIOUS
<1> USE Assumption DEF Assumption, Init
<1>1. BucketTypeOK
  <2>1. useShm \in BOOLEAN /\ isLast \in BOOLEAN
    BY Zenon
  <2>. QED  BY <2>1 DEF BucketTypeOK, InBucket, Nowhere, Weights
<1>2. InBucket = {} /\ Placed = {}
  BY DEF InBucket, Placed, Nowhere
<1>3. Packed /\ Copied
  BY <1>2 DEF Packed, Copied
<1>4. Turns
  BY <1>2 DEF Turns, Sent
<1>5. Progress
  BY DEF Progress, Sent, Weights
<1>. QED  BY <1>1, <1>3, <1>4, <1>5 DEF BucketIInv

-----------------------------------------------------------------------------
\* The sender

LEMMA BucketBegins == ASSUME BucketIInv, Begin PROVE BucketIInv'
<1> USE Assumption DEF Assumption, BucketIInv, BucketTypeOK, Begin
<1>1. InBucket' = {} /\ Placed' = {} /\ InBucket = {} /\ Placed = {}
  BY DEF Turns, InBucket, Placed, Nowhere
<1>2. /\ nbytes' \in [Weights -> Nat] /\ itemsize' \in [Weights -> Nat \ {0}]
      /\ useShm' \in BOOLEAN /\ isLast' \in BOOLEAN
  BY Zenon
<1>3. BucketTypeOK'
  BY <1>1, <1>2
<1>4. Packed' /\ Copied'
  BY <1>1 DEF Packed, Copied
<1>5. Turns'
  BY <1>1 DEF Turns, Sent
<1>6. Progress'
  BY DEF Turns, Progress, Sent, Weights
<1>. QED  BY <1>3, <1>4, <1>5, <1>6

LEMMA PlaceKeeps == ASSUME BucketIInv, Place PROVE BucketIInv'
<1> USE Assumption
    DEF Assumption, BucketIInv, BucketTypeOK, Place, Filling, Fits, inputs
<1>1. pos \in Weights /\ nbytes[pos] \in Nat /\ pos' = pos + 1 /\ offset \in Nat
  BY DEF Weights
<1>2. at' = [at EXCEPT ![pos] = offset] /\ at'[pos] = offset
  BY <1>1
<1>3. InBucket' = InBucket \cup {pos} /\ Placed' = Placed \cup {pos}
  BY <1>1, <1>2 DEF InBucket, Placed, Nowhere
<1>4. BucketTypeOK'
  <2>1. useShm' \in BOOLEAN /\ isLast' \in BOOLEAN
    BY Zenon
  <2>2. pos' \in 1 .. NWeights + 1 /\ offset' \in 0 .. BucketSize
    BY <1>1
  <2>. QED  BY <1>1, <1>2, <1>3, <2>1, <2>2
<1>5. Packed'
  BY <1>1, <1>2, <1>3 DEF Packed, Placed
<1>6. Copied'
  BY <1>1, <1>2, <1>3 DEF Copied, Bytes
<1>7. Turns'
  BY <1>1, <1>3 DEF Turns, Sent
<1>8. Progress'
  <2>1. sender' = "fill" /\ loaded' = loaded /\ \A w \in Weights : Whole(w)' = Whole(w)
    BY DEF Whole, Bytes
  <2>2. \A w \in Weights : w < pos' => w < pos \/ w = pos
    BY <1>1 DEF Weights
  <2>. QED  BY <1>3, <2>1, <2>2 DEF Progress, Sent
<1>. QED  BY <1>4, <1>5, <1>6, <1>7, <1>8

\* Two stretches of bytes that do not overlap have no byte in common.
LEMMA BytesApart ==
    ASSUME NEW p \in Nat, NEW q \in Nat, NEW m \in Nat, NEW n \in Nat,
           p + m <= q \/ q + n <= p, NEW j \in Nat, j < m
    PROVE  (p + j) - q < 0 \/ (p + j) - q >= n
OBVIOUS

\* A copy writes the bytes of its own weight and no byte of another one.
LEMMA CopyEndsKeeps ==
    ASSUME BucketIInv, NEW w \in Weights, CopyEnds(w) PROVE BucketIInv'
<1>a. \A b \in 0 .. BucketSize - 1 :
        /\ b - at[w] \in Bytes(w) => buffer'[b] = <<w, b - at[w]>>
        /\ b - at[w] \notin Bytes(w) => buffer'[b] = buffer[b]
  BY DEF CopyEnds
<1> USE Assumption
    DEF Assumption, BucketIInv, BucketTypeOK, CopyEnds, inputs, senderVars
<1>1. w \in Placed /\ copying' = copying \ {w}
  BY DEF Turns
<1>2. InBucket' = InBucket /\ Placed' = Placed
  BY DEF InBucket, Placed
<1>3. BucketTypeOK'
  <2>1. \A b \in 0 .. BucketSize - 1 :
          buffer'[b] \in {Garbage} \cup (Weights \X Nat)
    BY <1>1 DEF Bytes, Placed
  <2>2. buffer' \in [0 .. BucketSize - 1 -> {Garbage} \cup (Weights \X Nat)]
    BY <2>1
  <2>. QED  BY <1>2, <2>2
<1>4. Packed'
  BY <1>2 DEF Packed
<1>5. Copied'
  <2>1. at' = at /\ \A v \in Weights : Bytes(v)' = Bytes(v)
    BY DEF Bytes
  <2>2. ASSUME NEW v \in Placed, v \notin copying', NEW j \in Bytes(v)
        PROVE  buffer'[at[v] + j] = <<v, j>>
    <3>1. /\ v \in Weights /\ at[v] \in Nat /\ at[w] \in Nat
          /\ nbytes[v] \in Nat /\ nbytes[w] \in Nat /\ offset <= BucketSize
          /\ j \in Nat /\ j < nbytes[v] /\ at[v] + nbytes[v] <= offset
      BY <1>1 DEF Packed, Placed, Bytes
    <3>2. at[v] + j \in 0 .. BucketSize - 1
      BY <3>1
    <3>3. PICK b \in 0 .. BucketSize - 1 : b = at[v] + j
      BY <3>2
    <3>4. CASE v = w
      <4>1. b - at[w] = j
        BY <3>1, <3>3, <3>4
      <4>2. buffer'[b] = <<w, j>>
        BY <1>a, <3>4, <4>1
      <4>. QED  BY <3>3, <3>4, <4>2
    <3>5. CASE v # w
      <4>1. at[v] + nbytes[v] <= at[w] \/ at[w] + nbytes[w] <= at[v]
        BY <1>1, <3>5 DEF Packed
      <4>2. b - at[w] \notin Bytes(w)
        <5>1. b - at[w] < 0 \/ b - at[w] >= nbytes[w]
          BY <3>1, <3>3, <4>1, BytesApart
        <5>2. b - at[w] \in Int /\ nbytes[w] \in Nat
          BY <3>1, <3>3
        <5>. QED  BY ONLY <5>1, <5>2 DEF Bytes
      <4>3. buffer[b] = <<v, j>>
        BY <1>1, <2>2, <3>3, <3>5 DEF Copied
      <4>4. buffer'[b] = buffer[b]
        BY <1>a, <4>2
      <4>. QED  BY <3>3, <4>3, <4>4
    <3>. QED  BY <3>4, <3>5
  <2>3. \A v \in Placed' \ copying' : \A j \in Bytes(v)' : buffer'[at'[v] + j] = <<v, j>>
    <3>1. \A v \in Placed' : v \in Placed /\ v \in Weights
      BY <1>2 DEF Placed
    <3>. QED  BY <2>1, <2>2, <3>1, Zenon
  <2>. QED  BY <2>3 DEF Copied
<1>6. Turns'
  BY <1>1, <1>2 DEF Turns, Sent
<1>7. Progress'
  BY <1>2 DEF Progress, Sent, Whole, Bytes
<1>. QED  BY <1>3, <1>4, <1>5, <1>6, <1>7

\* What a step that leaves the bucket alone has still to show.
BucketSame == /\ UNCHANGED <<nbytes, itemsize, useShm, offset, at, copying, buffer>>

LEMMA BucketAlone ==
    ASSUME BucketIInv, BucketSame
    PROVE  /\ InBucket' = InBucket /\ Placed' = Placed /\ Packed' /\ Copied'
           /\ \A w \in Weights : Whole(w)' = Whole(w)
BY DEF BucketSame, BucketIInv, InBucket, Placed, Packed, Copied, Whole, Bytes

LEMMA SendKeeps == ASSUME BucketIInv, Flush \/ SendLast PROVE BucketIInv'
<1> USE Assumption
    DEF Assumption, BucketIInv, BucketTypeOK, Flush, SendLast, Send, Filling, inputs,
        Synchronized
<1>1. BucketSame
  BY DEF BucketSame
<1>2. BucketTypeOK'
  <2>1. useShm' \in BOOLEAN /\ isLast' \in BOOLEAN
    BY Zenon
  <2>. QED  BY <1>1, <2>1, BucketAlone DEF BucketSame
<1>3. /\ sender = "fill" /\ copying' = {} /\ link' = "bucket"
      /\ pos' = pos /\ loaded' = loaded /\ sender' \in {"flush", "end"}
      /\ sender' = "end" => pos = NWeights + 1
  BY DEF Turns
<1>4. Turns'
  BY <1>1, <1>3, BucketAlone DEF Turns, Sent
<1>5. Progress'
  BY <1>1, <1>3, BucketAlone DEF Progress, Sent
<1>. QED  BY <1>1, <1>2, <1>4, <1>5, BucketAlone

LEMMA DirectSendKeeps == ASSUME BucketIInv, DirectSend PROVE BucketIInv'
<1> USE Assumption
    DEF Assumption, BucketIInv, BucketTypeOK, DirectSend, Filling, inputs
<1>1. pos \in Weights /\ pos' = pos /\ at' = [at EXCEPT ![pos] = ByHandle]
  BY DEF Weights
<1>2. Placed' = {} /\ InBucket' = {pos} /\ copying' = {}
  BY <1>1 DEF Placed, InBucket, Turns, ByHandle, Nowhere
<1>3. BucketTypeOK'
  <2>1. useShm' \in BOOLEAN /\ isLast' \in BOOLEAN
    BY Zenon
  <2>. QED  BY <1>1, <1>2, <2>1 DEF ByHandle
<1>4. Packed'
  BY <1>1, <1>2 DEF Packed
<1>5. Copied'
  BY <1>2 DEF Copied
<1>6. Turns'
  BY <1>1, <1>2 DEF Turns, Sent
<1>7. Progress'
  <2>1. \A w \in Weights : Whole(w)' = Whole(w)
    BY DEF Whole, Bytes
  <2>. QED  BY <1>1, <1>2, <2>1 DEF Progress, Sent
<1>. QED  BY <1>3, <1>4, <1>5, <1>6, <1>7

LEMMA TooLargeKeeps == ASSUME BucketIInv, TooLarge PROVE BucketIInv'
<1> USE DEF BucketIInv, BucketTypeOK, TooLarge, Filling, inputs
<1>1. BucketSame
  BY DEF BucketSame
<1>2. copying = {}
  BY DEF Turns, Placed, InBucket, Nowhere
<1>3. BucketTypeOK'
  <2>1. useShm' \in BOOLEAN /\ isLast' \in BOOLEAN
    BY Zenon
  <2>. QED  BY <1>1, <2>1, BucketAlone DEF BucketSame
<1>4. Turns'
  BY <1>1, <1>2, BucketAlone DEF Turns, Sent
<1>5. Progress'
  BY <1>1, BucketAlone DEF Progress, Sent
<1>. QED  BY <1>1, <1>3, <1>4, <1>5, BucketAlone

\* The bucket is emptied once everything in it has been loaded.
LEMMA AcknowledgedKeeps == ASSUME BucketIInv, Acknowledged PROVE BucketIInv'
<1> USE Assumption
    DEF Assumption, BucketIInv, BucketTypeOK, Acknowledged, inputs
<1>1. Placed' = {} /\ InBucket' = {}
  BY DEF Placed, InBucket, Nowhere
<1>2. (sender = "init" \/ Sent) /\ copying = {}
  BY DEF Turns, Sent
<1>3. pos' \in 1 .. NWeights + 1
  BY DEF Turns, Weights
<1>4. BucketTypeOK'
  <2>1. useShm' \in BOOLEAN /\ isLast' \in BOOLEAN
    BY Zenon
  <2>. QED  BY <1>1, <1>2, <1>3, <2>1 DEF Nowhere
<1>5. Packed' /\ Copied'
  BY <1>1 DEF Packed, Copied
<1>6. Turns'
  BY <1>1, <1>2 DEF Turns, Sent
<1>7. Progress'
  <2>1. loaded' = loaded /\ \A w \in Weights : Whole(w)' = Whole(w)
    BY DEF Whole, Bytes
  <2>2. ASSUME NEW w \in Weights, w < pos' PROVE loaded[w] = Whole(w)
    <3>1. CASE w < pos
      BY <1>2, <3>1 DEF Progress, Turns, InBucket, Weights
    <3>2. CASE ~(w < pos)
      <4>1. sender = "direct" /\ w = pos
        BY <2>2, <3>2 DEF Weights
      <4>2. w \in InBucket
        BY <4>1 DEF Turns, InBucket, ByHandle, Nowhere
      <4>. QED  BY <4>1, <4>2 DEF Progress, Sent
    <3>. QED  BY <3>1, <3>2
  <2>. QED  BY <1>1, <2>1, <2>2 DEF Progress, Sent
<1>. QED  BY <1>4, <1>5, <1>6, <1>7

-----------------------------------------------------------------------------
\* The receiver

LEMMA AttachKeeps == ASSUME BucketIInv, AttachBuffer PROVE BucketIInv'
<1> USE DEF BucketIInv, BucketTypeOK, AttachBuffer, inputs, senderVars
<1>1. BucketSame
  BY DEF BucketSame
<1>2. sender = "init"
  BY DEF Turns, Sent
<1>3. BucketTypeOK'
  <2>1. useShm' \in BOOLEAN /\ isLast' \in BOOLEAN
    BY Zenon
  <2>. QED  BY <1>1, <2>1, BucketAlone DEF BucketSame
<1>4. Turns'
  BY <1>1, <1>2, BucketAlone DEF Turns, Sent
<1>5. Progress'
  BY <1>1, <1>2, BucketAlone DEF Progress, Sent
<1>. QED  BY <1>1, <1>3, <1>4, <1>5, BucketAlone

LEMMA LoadKeeps == ASSUME BucketIInv, LoadBucket PROVE BucketIInv'
<1> USE DEF BucketIInv, BucketTypeOK, LoadBucket, inputs, senderVars
<1>1. BucketSame
  BY DEF BucketSame
<1>2. Sent /\ copying = {} /\ sender' = sender /\ pos' = pos /\ link' = "ack"
  BY DEF Turns, Sent
<1>3. ASSUME NEW w \in InBucket PROVE Content(w) = Whole(w)
  <2>1. CASE at[w] = ByHandle
    BY <2>1 DEF Content
  <2>2. CASE at[w] # ByHandle
    <3>1. w \in Placed \ copying
      BY <1>2, <2>2 DEF InBucket, Placed, Packed
    <3>. QED  BY <2>2, <3>1 DEF Content, Whole, Copied
  <2>. QED  BY <2>1, <2>2
<1>4. \A w \in Weights :
        loaded'[w] = IF w \in InBucket THEN Whole(w) ELSE loaded[w]
  BY <1>3
<1>5. BucketTypeOK'
  <2>1. useShm' \in BOOLEAN /\ isLast' \in BOOLEAN
    BY Zenon
  <2>. QED  BY <1>1, <2>1, BucketAlone DEF BucketSame
<1>6. Turns'
  BY <1>1, <1>2, BucketAlone DEF Turns, Sent
<1>7. Progress'
  <2>1. \A w \in Weights : loaded'[w] \in {Garbage, Whole(w)'}
    BY <1>1, <1>4, BucketAlone DEF Progress
  <2>2. \A w \in Weights : w < pos => w \in InBucket \/ loaded'[w] = Whole(w)'
    BY <1>1, <1>4, BucketAlone DEF Progress
  <2>3. \A w \in InBucket : loaded'[w] = Whole(w)'
    BY <1>1, <1>4, BucketAlone DEF InBucket
  <2>. QED  BY <1>1, <1>2, <2>1, <2>2, <2>3, BucketAlone DEF Progress, Sent
<1>. QED  BY <1>1, <1>5, <1>6, <1>7, BucketAlone

LEMMA RaiseKeeps == ASSUME BucketIInv, ViewRaises PROVE BucketIInv'
<1> USE DEF BucketIInv, BucketTypeOK, ViewRaises, inputs, senderVars
<1>1. BucketSame
  BY DEF BucketSame
<1>2. BucketTypeOK'
  <2>1. useShm' \in BOOLEAN /\ isLast' \in BOOLEAN
    BY Zenon
  <2>. QED  BY <1>1, <2>1, BucketAlone DEF BucketSame
<1>3. Turns' /\ Progress'
  BY <1>1, BucketAlone DEF Turns, Progress, Sent
<1>. QED  BY <1>1, <1>2, <1>3, BucketAlone

LEMMA BucketStutters == ASSUME BucketIInv, UNCHANGED vars PROVE BucketIInv'
<1> USE DEF BucketIInv, BucketTypeOK, vars, inputs, senderVars
<1>1. BucketSame
  BY DEF BucketSame
<1>2. BucketTypeOK'
  <2>1. useShm' \in BOOLEAN /\ isLast' \in BOOLEAN
    BY Zenon
  <2>. QED  BY <1>1, <2>1, BucketAlone DEF BucketSame
<1>3. UNCHANGED <<pos, sender, link, loaded>>
  BY Zenon
<1>4. Turns'
  BY <1>1, <1>3, BucketAlone DEF Turns, Sent, BucketSame
<1>5. Progress'
  <2>1. \A w \in Weights : Whole(w)' = Whole(w)
    BY <1>1, BucketAlone
  <2>2. InBucket' = InBucket
    BY <1>1, BucketAlone
  <2>3. \A w \in Weights : loaded'[w] \in {Garbage, Whole(w)'}
    BY <1>3, <2>1 DEF Progress
  <2>4. \A w \in Weights : w < pos => w \in InBucket \/ loaded'[w] = Whole(w)'
    BY <1>3, <2>1 DEF Progress
  <2>5. Sent /\ link = "ack" => \A w \in InBucket : loaded'[w] = Whole(w)'
    BY <1>3, <2>1 DEF Progress, InBucket
  <2>. QED  BY <1>3, <2>2, <2>3, <2>4, <2>5 DEF Progress, Sent
<1>. QED  BY <1>1, <1>2, <1>4, <1>5, BucketAlone

-----------------------------------------------------------------------------
LEMMA BucketAlways == Spec => []BucketIInv
<1>1. BucketIInv /\ [Next]_vars => BucketIInv'
  BY BucketBegins, PlaceKeeps, CopyEndsKeeps, SendKeeps, DirectSendKeeps,
     TooLargeKeeps, AcknowledgedKeeps, AttachKeeps, LoadKeeps, RaiseKeeps,
     BucketStutters DEF Next, Transfer
<1>. QED  BY BucketInit, <1>1, PTL DEF Spec

\* Type correctness: every placed weight stays within the buffer's bytes and the
\* two ends are never in a state their protocol does not have.
THEOREM BucketTypes == Spec => []BucketTypeOK
BY BucketAlways, PTL DEF BucketIInv

\* What the receiver hands to the model is the sender's weights byte for byte,
\* for every size of weights and buffer and every order in which asynchronous
\* copies end; and when async_send_weights returns all of them are loaded.
THEOREM TransferIntact == Spec => []Intact
<1>1. BucketIInv => Intact
  <2> SUFFICES ASSUME BucketIInv PROVE Intact
    OBVIOUS
  <2>1. \A w \in Weights : loaded[w] \in {Garbage, Whole(w)}
    BY DEF BucketIInv, Progress
  <2>2. ASSUME sender = "done", NEW w \in Weights PROVE loaded[w] = Whole(w)
    <3>1. pos = NWeights + 1 /\ w < pos /\ InBucket = {}
      BY <2>2, Assumption DEF BucketIInv, Turns, Progress, Weights, Assumption
    <3>. QED  BY <3>1 DEF BucketIInv, Progress
  <2>. QED  BY <2>1, <2>2 DEF Intact
<1>. QED  BY BucketAlways, <1>1, PTL

-----------------------------------------------------------------------------
(* The one-step-off-policy trainer: the inductive invariant                *)

Stream  == OneStep!Stream
Missing  == OneStep!Missing

StepTypes ==
    /\ lastStep \in Totals /\ lastStep \in Nat \ {0}
    /\ driver \in {"load", "await", "train", "save", "done", "failed"}
    /\ current \in 0 .. lastStep + 1 /\ resumed \in 0 .. lastStep
    /\ actor \in 0 .. lastStep /\ rollout \in 0 .. actor
    /\ ends \in 0 .. lastStep + Stream + kills /\ reader \in 0 .. ends
    /\ future \in [batch : Nat, by : SUBSET (0 .. lastStep), ready : BOOLEAN]
    /\ training \in [batch : Nat, by : SUBSET (0 .. lastStep), ready : BOOLEAN]
    /\ saved \in [step : 0 .. lastStep, reader : Nat, actor : Nat]
    /\ saved.actor \in 0 .. saved.step
    /\ kills \in 0 .. MaxKills

InLife == driver \in {"await", "train", "save"}

\* The step whose batch is being generated, if any is.
NextStep == IF driver = "await" THEN current ELSE current + 1

\* A life is a constant number of batches ahead of its steps, and the iterator
\* lasts unless the run is longer than its epochs or the life was resumed inside
\* the first one.
Ahead(d) ==
    /\ lastStep <= Stream /\ resumed \notin 1 .. EpochSteps - 1 => lastStep + d <= ends
    /\ driver = "train" => training.batch = current + d
    /\ future # Missing => future.batch = reader /\ reader = NextStep + d
    /\ future = Missing => /\ reader = NextStep - 1 + d
                           /\ NextStep <= lastStep => reader >= ends
BatchInv ==
    /\ InLife => current \in 1 .. lastStep /\ \E d \in 0 .. kills : Ahead(d)
    /\ driver = "failed" => lastStep > Stream \/ resumed \in 1 .. EpochSteps - 1

\* The servers have the actor's weights or those of one update before.  Nothing
\* is updated during warm-up.
Trained == IF driver = "save" THEN current ELSE current - 1
WeightInv ==
    /\ driver = "load" => rollout = 0
    /\ InLife =>
        /\ actor <= Trained /\ (Trained < WarmupSteps => actor = 0)
        /\ future # Missing => future.by = {rollout}
        /\ rollout \in {actor - 1, actor}
        /\ driver = "train" => /\ rollout = actor
                               /\ \E v \in {actor - 1, actor} : training.by = {v}

\* The saved position is ahead of the saved step by the kills before it, and by
\* the batch that was being generated.
SavedInv ==
    /\ saved.step = 0 => saved.reader = 0
    /\ saved.step > 0 => /\ saved.reader >= saved.step
                         /\ saved.reader <= saved.step + kills + 1
                         /\ driver = "load" => saved.reader <= saved.step + kills
    /\ saved.step < WarmupSteps => saved.actor = 0
    /\ saved.step = lastStep => driver = "done"

StepInv == StepTypes /\ BatchInv /\ WeightInv /\ SavedInv

-----------------------------------------------------------------------------
(* Steps and epochs                                                        *)

LEMMA StepConstants ==
    /\ EpochSteps \in Nat \ {0} /\ TotalEpochs \in Nat \ {0} /\ SaveEvery \in Nat
    /\ WarmupSteps \in Nat /\ MaxKills \in Nat
    /\ Totals \subseteq Nat \ {0} /\ Stream \in Nat \ {0} /\ EpochSteps <= Stream
<1>1. /\ EpochSteps \in Nat \ {0} /\ TotalEpochs \in Nat \ {0} /\ SaveEvery \in Nat
      /\ WarmupSteps \in Nat /\ MaxKills \in Nat /\ Totals \subseteq Nat \ {0}
  BY UtilAssumption DEF UtilAssumption
<1>2. EpochSteps * TotalEpochs \in Nat \ {0} /\ EpochSteps <= EpochSteps * TotalEpochs
  BY <1>1, SMTT(30)
<1>. QED  BY <1>1, <1>2 DEF Stream, OneStep!Stream

\* The epoch a position lies in starts before it, by at most its length.
LEMMA EpochStart ==
    ASSUME NEW p \in Nat
    PROVE  /\ OneStep!EpochOf(p) * EpochSteps \in Nat
           /\ OneStep!EpochOf(p) * EpochSteps <= p
           /\ p <= OneStep!EpochOf(p) * EpochSteps + EpochSteps
<1>1. CASE p = 0
  <2>1. OneStep!EpochOf(p) = 0
    BY <1>1 DEF OneStep!EpochOf
  <2>. QED  BY <1>1, <2>1, StepConstants
<1>2. CASE p # 0
  <2>1. p - 1 \in Nat /\ EpochSteps \in Nat \ {0}
    BY <1>2, StepConstants
  <2>2. /\ (p - 1) \div EpochSteps \in Nat /\ (p - 1) % EpochSteps \in 0 .. EpochSteps - 1
        /\ p - 1 = ((p - 1) \div EpochSteps) * EpochSteps + ((p - 1) % EpochSteps)
    BY <2>1, SMTT(30)
  <2>3. OneStep!EpochOf(p) = (p - 1) \div EpochSteps
    BY <1>2 DEF OneStep!EpochOf
  <2>4. OneStep!EpochOf(p) * EpochSteps \in Nat
    BY <2>1, <2>2, <2>3
  <2>. QED  BY <2>1, <2>2, <2>3, <2>4
<1>. QED  BY <1>1, <1>2

LEMMA PrefetchTypes ==
    ASSUME NEW p \in Nat, NEW w \in 0 .. lastStep, NEW last \in Nat, p <= last,
           OneStep!Prefetch(p, w, last)
    PROVE  /\ reader' \in 0 .. last
           /\ future' \in [batch : Nat, by : SUBSET (0 .. lastStep), ready : BOOLEAN]
           /\ future' # Missing => /\ future'.batch = p + 1 /\ future'.by = {w}
                                   /\ reader' = p + 1
           /\ future' = Missing => reader' = p /\ p >= last
<1>1. CASE p < last
  <2>1. reader' = p + 1 /\ future' = [batch |-> p + 1, by |-> {w}, ready |-> FALSE]
    BY <1>1 DEF OneStep!Prefetch
  <2>2. future' # Missing
    <3>1. future'.batch # 0 /\ Missing.batch = 0
      BY <2>1 DEF Missing, OneStep!Missing
    <3>. QED  BY <3>1
  <2>. QED  BY <1>1, <2>1, <2>2
<1>2. CASE ~(p < last)
  <2>1. reader' = p /\ future' = Missing
    BY <1>2 DEF OneStep!Prefetch, Missing
  <2>2. Missing \in [batch : Nat, by : SUBSET (0 .. lastStep), ready : BOOLEAN]
    BY DEF Missing, OneStep!Missing
  <2>. QED  BY <1>2, <2>1, <2>2
<1>. QED  BY <1>1, <1>2

-----------------------------------------------------------------------------
(* Its actions                                                             *)

LEMMA MissingTypes ==
    /\ Missing \in [batch : Nat, by : SUBSET (0 .. lastStep), ready : BOOLEAN]
    /\ Missing.ready = TRUE /\ Missing.batch = 0
BY DEF Missing, OneStep!Missing

LEMMA StepInit == OneStep!Init => StepInv
<1> SUFFICES ASSUME OneStep!Init PROVE StepInv
  OBVIOUS
<1> USE StepConstants DEF OneStep!Init
<1>1. future = Missing /\ training = Missing
  BY DEF Missing
<1>2. StepTypes
  BY <1>1, MissingTypes DEF StepTypes
<1>. QED  BY <1>2 DEF StepInv, BatchInv, WeightInv, SavedInv, InLife

LEMMA KillKeeps == ASSUME StepInv, OneStep!Kill PROVE StepInv'
<1> USE StepConstants DEF StepInv, OneStep!Kill
<1>1. future' = Missing /\ training' = Missing /\ kills' \in 0 .. MaxKills /\ kills' = kills + 1
  BY DEF Missing, StepTypes
<1>2. StepTypes'
  BY <1>1, MissingTypes DEF StepTypes
<1>3. SavedInv'
  BY <1>1 DEF SavedInv, StepTypes
<1>. QED  BY <1>2, <1>3 DEF BatchInv, WeightInv, InLife

LEMMA ResumeKeeps == ASSUME StepInv, OneStep!Resume PROVE StepInv'
<1> USE StepConstants DEF StepInv
<1> DEFINE from     == saved.step
           position == IF from % EpochSteps = 0 THEN from ELSE saved.reader
           begins   == IF from % EpochSteps = 0 THEN from
                       ELSE OneStep!EpochOf(position) * EpochSteps
           d        == position - from
<1>1. /\ driver = "load" /\ driver' = "await" /\ resumed' = from /\ current' = from + 1
      /\ rollout' = OneStep!Published(from, saved.actor) /\ ends' = begins + Stream
      /\ OneStep!Prefetch(position, rollout', ends') /\ actor' = saved.actor
      /\ UNCHANGED <<lastStep, training, saved, kills>>
  BY DEF OneStep!Resume, Stream
<1>2. /\ lastStep \in Totals /\ lastStep \in Nat \ {0} /\ from \in Nat /\ from < lastStep /\ position \in Nat /\ kills \in Nat
      /\ d \in 0 .. kills
  BY <1>1 DEF StepTypes, SavedInv
<1>3. /\ begins \in Nat /\ begins <= position /\ position <= begins + EpochSteps
      /\ from \notin 1 .. EpochSteps - 1 => begins >= d
  <2>1. CASE from % EpochSteps = 0
    BY <1>2, <2>1
  <2>2. CASE from % EpochSteps # 0
    <3>1. /\ begins \in Nat /\ begins <= position /\ position <= begins + EpochSteps
      BY <1>2, <2>2, EpochStart
    <3>2. from # 0
      BY <2>2
    <3>. HIDE DEF begins, position
    <3>. QED  BY <1>2, <3>1, <3>2
  <2>. QED  BY <2>1, <2>2
<1> HIDE DEF begins, position
<1>4. /\ ends' \in 0 .. lastStep + Stream + kills /\ position <= ends' /\ ends' \in Nat
      /\ lastStep <= Stream /\ from \notin 1 .. EpochSteps - 1 => lastStep + d <= ends'
  BY <1>1, <1>2, <1>3
<1>5. /\ saved.actor \in 0 .. lastStep /\ rollout' \in {saved.actor}
      /\ from < WarmupSteps => saved.actor = 0
  <2>1. saved.actor \in 0 .. lastStep /\ (from < WarmupSteps => saved.actor = 0)
    BY <1>2 DEF StepTypes, SavedInv
  <2>2. rollout = 0 \/ ~(from < WarmupSteps)
    BY <1>1 DEF WeightInv
  <2>3. saved.actor \in 0 .. saved.step
    BY DEF StepTypes
  <2>. QED  BY <1>1, <1>2, <2>1, <2>2, <2>3 DEF OneStep!Published
<1>6. /\ reader' \in 0 .. ends'
      /\ future' \in [batch : Nat, by : SUBSET (0 .. lastStep), ready : BOOLEAN]
      /\ future' # Missing => /\ future'.batch = position + 1 /\ future'.by = {rollout'}
                              /\ reader' = position + 1
      /\ future' = Missing => reader' = position /\ position >= ends'
  <2>1. rollout' \in 0 .. lastStep
    BY <1>5
  <2>. QED  BY <1>1, <1>2, <1>4, <2>1, PrefetchTypes
<1>7. StepTypes'
  <2>1. /\ current' \in 0 .. lastStep + 1 /\ resumed' \in 0 .. lastStep
        /\ actor' \in 0 .. lastStep /\ rollout' \in 0 .. actor'
    BY <1>1, <1>2, <1>5
  <2>. QED  BY <1>1, <1>4, <1>6, <2>1 DEF StepTypes
<1>8. BatchInv'
  <2>0. PICK gap \in 0 .. kills : gap = d
    BY <1>2
  <2>1. NextStep' = from + 1 /\ position = from + gap
    BY <1>1, <1>2, <2>0 DEF NextStep
  <2>2. Ahead(gap)'
    BY <1>1, <1>2, <1>4, <1>6, <2>0, <2>1 DEF Ahead
  <2>3. current' \in 1 .. lastStep' /\ driver' # "failed"
    BY <1>1, <1>2
  <2>4. gap \in 0 .. kills'
    BY <1>1
  <2>. QED  BY <2>2, <2>3, <2>4 DEF BatchInv
<1>9. WeightInv'
  BY <1>1, <1>2, <1>5, <1>6 DEF WeightInv, InLife, Trained, StepTypes
<1>10. SavedInv'
  BY <1>1, <1>2 DEF SavedInv, StepTypes
<1>. QED  BY <1>7, <1>8, <1>9, <1>10

LEMMA GeneratedKeeps == ASSUME StepInv, OneStep!Generated PROVE StepInv'
<1> USE StepConstants DEF StepInv, OneStep!Generated
<1>1. /\ future # Missing /\ future'.batch = future.batch
      /\ future'.by = future.by \cup {rollout}
      /\ future' \in [batch : Nat, by : SUBSET (0 .. lastStep), ready : BOOLEAN]
  <2>1. rollout \in 0 .. lastStep
    BY DEF StepTypes
  <2>. QED  BY <2>1, MissingTypes DEF StepTypes
<1>2. StepTypes'
  BY <1>1 DEF StepTypes
<1>3. InLife => future'.batch # 0 /\ future' # Missing
  <2>1. InLife => future.batch # 0
    BY <1>1 DEF BatchInv, Ahead, NextStep, StepTypes
  <2>. QED  BY <1>1, <2>1, MissingTypes
<1>4. BatchInv'
  <2>1. ASSUME InLife, NEW d \in 0 .. kills, Ahead(d) PROVE Ahead(d)'
    BY <1>1, <1>3, <2>1 DEF Ahead, NextStep
  <2>. QED  BY <2>1 DEF BatchInv, InLife
<1>5. WeightInv'
  BY <1>1, <1>3 DEF WeightInv, InLife, Trained
<1>6. SavedInv'
  BY DEF SavedInv
<1>. QED  BY <1>2, <1>4, <1>5, <1>6

LEMMA CollectKeeps == ASSUME StepInv, OneStep!Collect PROVE StepInv'
<1> USE StepConstants DEF StepInv
<1>1. /\ driver = "await" /\ driver' = "train" /\ future # Missing /\ training' = future
      /\ rollout' = OneStep!Published(current, actor)
      /\ IF current >= lastStep THEN future' = Missing /\ reader' = reader
         ELSE OneStep!Prefetch(reader, rollout', ends)
      /\ UNCHANGED <<lastStep, current, resumed, actor, ends, saved, kills>>
  BY DEF OneStep!Collect, OneStep!IsLastStep, OneStep!PrefetchedBy, Missing
<1>2. PICK d \in 0 .. kills : Ahead(d)
  BY <1>1 DEF BatchInv, InLife
<1>3. /\ lastStep \in Totals /\ lastStep \in Nat \ {0}
      /\ current \in 1 .. lastStep /\ actor \in 0 .. lastStep /\ reader \in 0 .. ends
      /\ ends \in Nat /\ kills \in Nat
      /\ future \in [batch : Nat, by : SUBSET (0 .. lastStep), ready : BOOLEAN]
  BY <1>1 DEF BatchInv, InLife, StepTypes
<1>4. reader = current + d /\ future.batch = current + d
  BY <1>1, <1>2 DEF Ahead, NextStep
<1>5. /\ rollout' = actor /\ actor <= current - 1 /\ (current - 1 < WarmupSteps => actor = 0)
      /\ future.by = {rollout} /\ rollout \in {actor - 1, actor}
  <2>1. /\ actor <= current - 1 /\ (current - 1 < WarmupSteps => actor = 0)
        /\ future.by = {rollout} /\ rollout \in {actor - 1, actor} /\ rollout \in 0 .. actor
    BY <1>1 DEF WeightInv, InLife, Trained, StepTypes
  <2>. QED  BY <1>1, <1>3, <2>1 DEF OneStep!Published
<1>6. /\ reader' \in 0 .. ends
      /\ future' \in [batch : Nat, by : SUBSET (0 .. lastStep), ready : BOOLEAN]
      /\ future' # Missing => /\ future'.batch = reader + 1 /\ future'.by = {actor}
                              /\ reader' = reader + 1
      /\ future' = Missing => reader' = reader /\ (current < lastStep => reader >= ends)
  <2>1. CASE current >= lastStep
    BY <1>1, <1>3, <2>1, MissingTypes
  <2>2. CASE current < lastStep
    <3>1. OneStep!Prefetch(reader, actor, ends)
      BY <1>1, <1>3, <1>5, <2>2
    <3>. QED  BY <1>3, <2>2, <3>1, PrefetchTypes
  <2>. QED  BY <1>3, <2>1, <2>2
<1>7. StepTypes'
  BY <1>1, <1>3, <1>5, <1>6 DEF StepTypes
<1>8. BatchInv'
  <2>1. NextStep' = current + 1 /\ driver' # "failed" /\ lastStep' = lastStep
    BY <1>1 DEF NextStep
  <2>2. training'.batch = current + d
    BY <1>1, <1>4
  <2>3. lastStep <= Stream /\ resumed \notin 1 .. EpochSteps - 1 => lastStep + d <= ends
    BY <1>2 DEF Ahead
  <2>4. Ahead(d)'
    BY <1>1, <1>3, <1>4, <1>6, <2>1, <2>2, <2>3 DEF Ahead, Missing, OneStep!Missing
  <2>. QED  BY <1>1, <1>3, <2>1, <2>4 DEF BatchInv
<1>9. WeightInv'
  BY <1>1, <1>3, <1>5, <1>6 DEF WeightInv, InLife, Trained
<1>10. SavedInv'
  BY <1>1 DEF SavedInv
<1>. QED  BY <1>7, <1>8, <1>9, <1>10

LEMMA RaisesKeeps == ASSUME StepInv, OneStep!CollectRaises PROVE StepInv'
<1> USE StepConstants DEF StepInv, OneStep!CollectRaises
<1>1. StepTypes' /\ WeightInv' /\ SavedInv'
  BY DEF StepTypes, WeightInv, SavedInv, InLife
<1>2. PICK d \in 0 .. kills : Ahead(d)
  BY DEF BatchInv, InLife
<1>3. /\ current \in 1 .. lastStep /\ current - 1 + d >= ends /\ ends \in Nat /\ d \in Nat
      /\ lastStep \in Nat
  BY <1>2 DEF BatchInv, InLife, Ahead, NextStep, StepTypes, Missing
<1>4. lastStep > Stream \/ resumed \in 1 .. EpochSteps - 1
  BY <1>2, <1>3 DEF Ahead
<1>. QED  BY <1>1, <1>4 DEF BatchInv, InLife

LEMMA TrainKeeps == ASSUME StepInv, OneStep!Train PROVE StepInv'
<1> USE StepConstants DEF StepInv, OneStep!Train
<1>1. PICK d \in 0 .. kills : Ahead(d)
  BY DEF BatchInv, InLife
<1>2. /\ lastStep \in Nat /\ current \in 1 .. lastStep /\ actor \in Nat /\ rollout = actor
      /\ actor <= current - 1 /\ (current - 1 < WarmupSteps => actor = 0)
      /\ future # Missing => future.by = {rollout}
  BY DEF BatchInv, InLife, WeightInv, Trained, StepTypes
<1>3. actor' \in {actor, actor + 1} /\ (current < WarmupSteps => actor' = 0)
  BY <1>2
<1>4. StepTypes'
  BY <1>2, <1>3 DEF StepTypes
<1>5. BatchInv'
  <2>1. Ahead(d)'
    BY <1>1 DEF Ahead, NextStep, Missing, OneStep!Missing
  <2>. QED  BY <1>2, <2>1 DEF BatchInv
<1>6. WeightInv'
  BY <1>2, <1>3 DEF WeightInv, InLife, Trained
<1>7. SavedInv'
  BY DEF SavedInv
<1>. QED  BY <1>4, <1>5, <1>6, <1>7

LEMMA SaveKeeps == ASSUME StepInv, OneStep!Save PROVE StepInv'
<1> USE StepConstants DEF StepInv
<1>1. /\ driver = "save" /\ current' = current + 1 /\ training' = Missing
      /\ driver' = IF current >= lastStep THEN "done" ELSE "await"
      /\ UNCHANGED <<lastStep, resumed, actor, rollout, reader, ends, future, kills>>
      /\ \/ saved' = [step |-> current, reader |-> reader, actor |-> actor]
         \/ saved' = saved
  BY DEF OneStep!Save, OneStep!IsLastStep, Missing
<1>2. PICK d \in 0 .. kills : Ahead(d)
  BY <1>1 DEF BatchInv, InLife
<1>3. /\ lastStep \in Totals /\ lastStep \in Nat \ {0}
      /\ current \in 1 .. lastStep /\ actor \in Nat /\ actor <= current /\ kills \in Nat
      /\ (current < WarmupSteps => actor = 0) /\ rollout \in {actor - 1, actor}
      /\ future # Missing => future.by = {rollout}
  BY <1>1 DEF BatchInv, InLife, WeightInv, Trained, StepTypes
<1>4. reader \in Nat /\ reader >= current + d /\ reader <= current + 1 + d
  BY <1>1, <1>2, <1>3 DEF Ahead, NextStep, StepTypes
<1>5. StepTypes'
  <2>1. saved' \in [step : 0 .. lastStep, reader : Nat, actor : Nat] /\ saved'.actor \in 0 .. saved'.step
    BY <1>1, <1>3, <1>4 DEF StepTypes
  <2>. QED  BY <1>1, <1>3, <2>1, MissingTypes DEF StepTypes
<1>6. BatchInv'
  <2>1. lastStep' = lastStep /\ driver' # "failed" /\ Missing' = Missing
    BY <1>1 DEF Missing, OneStep!Missing
  <2>2. CASE current < lastStep
    <3>1. NextStep = current + 1 /\ NextStep' = current + 1 /\ driver' = "await"
      BY <1>1, <1>3, <2>2 DEF NextStep
    <3>2. Ahead(d)'
      BY <1>1, <1>2, <2>1, <3>1 DEF Ahead
    <3>3. current' \in 1 .. lastStep'
      BY <1>1, <1>3, <2>1, <2>2
    <3>. QED  BY <1>1, <2>1, <3>2, <3>3 DEF BatchInv
  <2>3. CASE current >= lastStep
    BY <1>1, <1>3, <2>3 DEF BatchInv, InLife
  <2>. QED  BY <1>3, <2>2, <2>3
<1>7. WeightInv'
  BY <1>1, <1>3 DEF WeightInv, InLife, Trained
<1>8. SavedInv'
  <2>1. lastStep' = lastStep /\ driver' # "load"
    BY <1>1
  <2>2. CASE saved' = [step |-> current, reader |-> reader, actor |-> actor]
    BY <1>1, <1>2, <1>3, <1>4, <2>1, <2>2 DEF SavedInv
  <2>3. CASE saved' = saved
    BY <1>1, <2>1, <2>3 DEF SavedInv
  <2>. QED  BY <1>1, <2>2, <2>3
<1>. QED  BY <1>5, <1>6, <1>7, <1>8

LEMMA StepStutters == ASSUME StepInv, UNCHANGED oneStepVars PROVE StepInv'
<1> USE DEF StepInv, oneStepVars
<1>1. StepTypes' /\ WeightInv' /\ SavedInv'
  BY DEF StepTypes, WeightInv, SavedInv, InLife, Trained,
         Missing, OneStep!Missing
<1>2. \A d : Ahead(d)' <=> Ahead(d)
  BY DEF Ahead, NextStep, Missing, OneStep!Missing
<1>3. BatchInv'
  BY <1>2 DEF BatchInv, InLife
<1>. QED  BY <1>1, <1>3

\* A step of Utilities is one of this part, or leaves it alone.
LEMMA StepKeeps == ASSUME StepInv, [UtilNext]_all PROVE StepInv'
<1>1. CASE OneStep!Next
  <2>1. CASE OneStep!Step
    BY <2>1, ResumeKeeps, GeneratedKeeps, CollectKeeps, RaisesKeeps, TrainKeeps, SaveKeeps
    DEF OneStep!Step
  <2>. QED  BY <1>1, <2>1, KillKeeps DEF OneStep!Next
<1>2. CASE UNCHANGED oneStepVars
  BY <1>2, StepStutters
<1>3. [UtilNext]_all => OneStep!Next \/ UNCHANGED oneStepVars
  <2>1. InOneStep /\ OneStep!Next => OneStep!Next
    OBVIOUS
  <2>2. InWeights \/ InResults \/ InRewards \/ InBalance \/ InTools \/ InValid \/ Stop
            \/ UNCHANGED all => UNCHANGED oneStepVars
    BY DEF InWeights, InResults, InRewards, InBalance, InTools, InValid, Stop, all, secondVars
  <2>. QED  BY <2>1, <2>2 DEF UtilNext
<1>. QED  BY <1>1, <1>2, <1>3

\* For any length and number of epochs, any total number of steps, fewer or more
\* than the epochs have, any save frequency and warm-up and any number of kills:
\* a batch is sampled by one version of the weights, at most one update behind the
\* actor that trains on it; it is the step's own or later by at most the number of
\* kills; and the stream of batches is too short only for a run that is to take
\* more steps than its epochs have, or is resumed inside its first epoch.
THEOREM OneStepBehind == FairSpec => []OneStepOff
<1>1. UtilInit => StepInv
  BY StepInit DEF UtilInit
<1>2. StepInv => OneStepOff
  <2> SUFFICES ASSUME StepInv PROVE OneStep!OneStepOff
    BY DEF OneStepOff
  <2>1. driver = "train" => training.batch \in current .. current + kills
    <3> SUFFICES ASSUME driver = "train" PROVE training.batch \in current .. current + kills
      OBVIOUS
    <3>1. PICK d \in 0 .. kills : training.batch = current + d
      BY DEF StepInv, BatchInv, InLife, Ahead
    <3>2. current \in Nat /\ kills \in Nat
      BY DEF StepInv, StepTypes
    <3>. QED  BY <3>1, <3>2
  <2>. QED  BY <2>1 DEF OneStep!OneStepOff, Stream, StepInv, BatchInv, WeightInv, InLife
<1>. QED  BY <1>1, <1>2, StepKeeps, PTL DEF FairSpec

-----------------------------------------------------------------------------
(* The result files: the inductive invariant                               *)

Lines == (Results!Rows \X BOOLEAN) \cup {Results!Torn}

FileTypes == open \in BOOLEAN /\ (open => file # <<>>)
PlaceTypes ==
    /\ tool \in {"label", "eval"} /\ file \in Seq(Lines)
    /\ completed \subseteq Results!Rows /\ next \in 1 .. NRows + 1
    /\ DOMAIN pending \subseteq Results!Rows /\ batch \subseteq DOMAIN pending
ResultTypes == FileTypes /\ PlaceTypes

\* The annotator never records a row twice, the evaluation none after an answer
\* that is ok: whatever the earlier lives were killed in.
LatestIsOk == \A r \in Results!Rows : \A i, j \in Results!Records(r) :
    /\ tool = "label" => i = j
    /\ tool = "eval" /\ Results!OkAt(i) => j <= i

\* The rows this life has still to answer.
Remaining(r) == r \notin completed /\ (r >= next \/ r \in DOMAIN pending)

\* They have no record that makes them complete, and the others have one unless
\* it was glued to a torn line.
LivesOn == pc \notin Results!Ended =>
    /\ \A r \in DOMAIN pending : r < next /\ r \notin completed
    /\ \A r \in Results!Rows : Remaining(r) =>
            \A i \in Results!Records(r) : tool = "eval" /\ ~Results!OkAt(i)
    /\ Results!Readable =>
            \A r \in Results!Rows : ~Remaining(r) => Results!Records(r) # {}

ResultInv == ResultTypes /\ LatestIsOk /\ LivesOn /\ Results!EndsWhole

-----------------------------------------------------------------------------
(* Least and greatest elements, and lines of the file                      *)

LEMMA MinIs ==
    ASSUME NEW T \in SUBSET Nat, T # {}
    PROVE  Results!Min(T) \in T /\ \A y \in T : Results!Min(T) <= y
BY Least DEF Results!Min

LEMMA MaxIs ==
    ASSUME NEW T \in SUBSET Nat, NEW i \in T, \A j \in T : j <= i
    PROVE  Results!Max(T) = i
<1>1. \A x \in T : (\A y \in T : x >= y) => x = i
  OBVIOUS
<1>2. \E x \in T : \A y \in T : x >= y
  OBVIOUS
<1>. QED  BY <1>1, <1>2 DEF Results!Max

LEMMA FrontIs ==
    ASSUME NEW S, NEW f \in Seq(S), f # <<>>
    PROVE  /\ Results!Front(f) \in Seq(S) /\ Len(Results!Front(f)) = Len(f) - 1
           /\ \A i \in 1 .. Len(f) - 1 : Results!Front(f)[i] = f[i]
<1>1. Len(f) \in Nat /\ Len(f) > 0
  BY EmptySeq
<1>2. Results!Front(f) = SubSeq(f, 1, Len(f) - 1)
  BY DEF Results!Front
<1>3. ASSUME NEW n \in Nat, n = Len(f) - 1
      PROVE  /\ SubSeq(f, 1, n) \in Seq(S) /\ Len(SubSeq(f, 1, n)) = n
             /\ \A i \in 1 .. n : SubSeq(f, 1, n)[i] = f[i]
  <2>1. \A i \in 1 .. n : f[i] \in S
    BY <1>1, <1>3
  <2>2. /\ SubSeq(f, 1, n) \in Seq(S)
        /\ Len(SubSeq(f, 1, n)) = IF 1 <= n THEN n - 1 + 1 ELSE 0
        /\ \A i \in 1 .. n - 1 + 1 : SubSeq(f, 1, n)[i] = f[1 + i - 1]
    BY <2>1, SubSeqProperties
  <2>3. n - 1 + 1 = n /\ \A i \in 1 .. n : 1 + i - 1 = i
    BY <1>3
  <2>. QED  BY <2>2, <2>3
<1>4. Len(f) - 1 \in Nat
  BY <1>1
<1>. QED  BY <1>2, <1>3, <1>4

LEMMA RecordsIn ==
    ASSUME ResultTypes, NEW r
    PROVE  /\ Len(file) \in Nat /\ DOMAIN file = 1 .. Len(file)
           /\ Results!Records(r) \in SUBSET Nat /\ Results!Records(r) \subseteq 1 .. Len(file)
BY DEF ResultTypes, FileTypes, PlaceTypes, Results!Records

\* A line is added, or it spoils the last one, which has no end.
LEMMA AppendedIs ==
    ASSUME ResultTypes, NEW line \in Lines
    PROVE  LET new == Results!Appended(line)
           IN  /\ new \in Seq(Lines)
               /\ open => /\ Len(new) = Len(file) /\ Len(file) > 0
                          /\ new[Len(file)] = Results!Torn
                          /\ \A i \in 1 .. Len(file) - 1 : new[i] = file[i]
               /\ ~open => /\ Len(new) = Len(file) + 1 /\ new[Len(file) + 1] = line
                           /\ \A i \in 1 .. Len(file) : new[i] = file[i]
<1>1. file \in Seq(Lines) /\ Results!Torn \in Lines /\ Len(file) \in Nat
  BY DEF ResultTypes, FileTypes, PlaceTypes, Lines
<1>2. CASE open
  <2> DEFINE front == Results!Front(file)
  <2>1. file # <<>> /\ Len(file) > 0
    BY <1>1, <1>2, EmptySeq DEF ResultTypes, FileTypes, PlaceTypes
  <2>2. /\ front \in Seq(Lines) /\ Len(front) = Len(file) - 1
        /\ \A i \in 1 .. Len(file) - 1 : front[i] = file[i]
    BY <1>1, <2>1, FrontIs
  <2>3. Results!Appended(line) = Append(front, Results!Torn)
    BY <1>2 DEF Results!Appended
  <2>. HIDE DEF front
  <2>4. /\ Append(front, Results!Torn) \in Seq(Lines)
        /\ Len(Append(front, Results!Torn)) = Len(front) + 1
        /\ \A i \in 1 .. Len(front) : Append(front, Results!Torn)[i] = front[i]
        /\ Append(front, Results!Torn)[Len(front) + 1] = Results!Torn
    BY <1>1, <2>2, AppendProperties
  <2>. QED  BY <1>1, <1>2, <2>1, <2>2, <2>3, <2>4
<1>3. CASE ~open
  <2>1. Results!Appended(line) = Append(file, line)
    BY <1>3 DEF Results!Appended
  <2>2. /\ Append(file, line) \in Seq(Lines) /\ Len(Append(file, line)) = Len(file) + 1
        /\ \A i \in 1 .. Len(file) : Append(file, line)[i] = file[i]
        /\ Append(file, line)[Len(file) + 1] = line
    BY <1>1, AppendProperties
  <2>. QED  BY <1>1, <1>3, <2>1, <2>2
<1>. QED  BY <1>2, <1>3

\* What is in the file after a write: nothing that was not there but the line,
\* and if it can be read, all that was there and the line.
LEMMA Added ==
    ASSUME ResultTypes, NEW line \in Lines, file' = Results!Appended(line)
    PROVE  /\ file' \in Seq(Lines) /\ file' # <<>>
           /\ \A r \in Results!Rows : \A i \in Results!Records(r)' :
                \/ i \in Results!Records(r) /\ file'[i] = file[i]
                \/ i = Len(file) + 1 /\ file'[i] = line /\ line # Results!Torn /\ line[1] = r
           /\ Results!Readable' =>
                /\ Results!Readable
                /\ \A r \in Results!Rows : Results!Records(r) \subseteq Results!Records(r)'
                /\ \A r \in Results!Rows : line # Results!Torn /\ line[1] = r =>
                        Len(file) + 1 \in Results!Records(r)'
<1>1. /\ file' \in Seq(Lines)
      /\ open => /\ Len(file') = Len(file) /\ Len(file) > 0
                 /\ file'[Len(file)] = Results!Torn
                 /\ \A i \in 1 .. Len(file) - 1 : file'[i] = file[i]
      /\ ~open => /\ Len(file') = Len(file) + 1 /\ file'[Len(file) + 1] = line
                  /\ \A i \in 1 .. Len(file) : file'[i] = file[i]
  BY AppendedIs
<1>2. /\ Len(file) \in Nat /\ DOMAIN file = 1 .. Len(file)
      /\ DOMAIN file' = 1 .. Len(file')
  BY <1>1 DEF ResultTypes, FileTypes, PlaceTypes
<1>3. file' # <<>>
  <2>1. Len(file') > 0
    <3>1. CASE open
      BY <1>1, <3>1
    <3>2. CASE ~open
      <4>1. Len(file') = Len(file) + 1
        BY <1>1, <3>2
      <4>. QED  BY <1>2, <4>1
    <3>. QED  BY <3>1, <3>2
  <2>. QED  BY <2>1
<1>4. Results!Torn' = Results!Torn
  BY DEF Results!Torn
<1>5. CASE open
  <2>1. ~Results!Readable'
    BY <1>1, <1>2, <1>4, <1>5 DEF Results!Readable
  <2>2. \A r \in Results!Rows : \A i \in Results!Records(r)' :
            i \in Results!Records(r) /\ file'[i] = file[i]
    <3> TAKE r \in Results!Rows
    <3> TAKE i \in Results!Records(r)'
    <3>1. i \in 1 .. Len(file) /\ file'[i] # Results!Torn /\ file'[i][1] = r
      BY <1>1, <1>2, <1>4, <1>5 DEF Results!Records
    <3>2. i \in 1 .. Len(file) - 1
      BY <1>1, <1>2, <1>5, <3>1
    <3>. QED  BY <1>1, <1>2, <1>5, <3>1, <3>2 DEF Results!Records
  <2>. QED  BY <1>1, <1>3, <2>1, <2>2
<1>6. CASE ~open
  <2>0. /\ Len(file') = Len(file) + 1 /\ file'[Len(file) + 1] = line
        /\ \A i \in 1 .. Len(file) : file'[i] = file[i]
    BY <1>1, <1>6
  <2>1. \A r \in Results!Rows : \A i \in Results!Records(r)' :
            \/ i \in Results!Records(r) /\ file'[i] = file[i]
            \/ i = Len(file) + 1 /\ file'[i] = line /\ line # Results!Torn /\ line[1] = r
    BY <1>2, <1>4, <2>0 DEF Results!Records
  <2>2. Results!Readable' => Results!Readable
    BY <1>2, <1>4, <2>0 DEF Results!Readable
  <2>3. \A r \in Results!Rows :
            /\ Results!Records(r) \subseteq Results!Records(r)'
            /\ line # Results!Torn /\ line[1] = r => Len(file) + 1 \in Results!Records(r)'
    BY <1>2, <1>4, <2>0 DEF Results!Records
  <2>. QED  BY <1>1, <1>3, <2>1, <2>2, <2>3
<1>. QED  BY <1>5, <1>6

-----------------------------------------------------------------------------
(* Their actions                                                           *)

LEMMA ResultInit == Results!Init => ResultInv
<1> SUFFICES ASSUME Results!Init PROVE ResultInv
  OBVIOUS
<1> USE UtilAssumption DEF UtilAssumption, Results!Init
<1>1. ResultTypes
  <2>1. file \in Seq(Lines) /\ 1 \in 1 .. NRows + 1
    <3>1. file = <<>> /\ NRows \in Nat
      OBVIOUS
    <3>. HIDE DEF Results!Init, UtilAssumption
    <3>. QED  BY <3>1, EmptySeq
  <2>2. DOMAIN pending = {}
    OBVIOUS
  <2>. QED  BY <2>1, <2>2 DEF ResultTypes, FileTypes, PlaceTypes
<1>2. \A r : Results!Records(r) = {}
  BY DEF Results!Records
<1>. QED  BY <1>1, <1>2 DEF ResultInv, LatestIsOk, LivesOn, Results!Ended, Results!EndsWhole

\* Nothing is said of an action that touches no line but what it owes to the
\* rows of this life.
LEMMA SameFile ==
    ASSUME ResultInv, UNCHANGED <<tool, file, parquet>>, pc' # "done" \/ pc' = pc
    PROVE  /\ LatestIsOk' /\ Results!EndsWhole'
           /\ \A r : Results!Records(r)' = Results!Records(r)
           /\ \A i : Results!OkAt(i)' <=> Results!OkAt(i)
           /\ Results!Readable' <=> Results!Readable
<1>1. /\ \A r : Results!Records(r)' = Results!Records(r)
      /\ \A i : Results!OkAt(i)' <=> Results!OkAt(i)
      /\ Results!Readable' <=> Results!Readable
  BY DEF Results!Records, Results!OkAt, Results!Readable, Results!Torn
<1>2. \A r : Results!Exported(r)' = Results!Exported(r)
  BY <1>1 DEF Results!Exported
<1>3. LatestIsOk'
  BY <1>1 DEF ResultInv, LatestIsOk, Results!Rows
<1>4. Results!EndsWhole'
  BY <1>1, <1>2 DEF ResultInv, Results!EndsWhole, Results!Rows
<1>. QED  BY <1>1, <1>3, <1>4

LEMMA Typed ==
    ASSUME ResultInv
    PROVE  /\ tool \in {"label", "eval"} /\ file \in Seq(Lines)
           /\ completed \subseteq Results!Rows /\ next \in 1 .. NRows + 1 /\ next \in Nat
           /\ DOMAIN pending \subseteq Results!Rows /\ batch \subseteq DOMAIN pending
           /\ NRows \in Nat \ {0} /\ Results!Rows \in SUBSET Nat
           /\ FileTypes /\ PlaceTypes
<1>1. PlaceTypes /\ FileTypes
  BY DEF ResultInv, ResultTypes
<1>2. NRows \in Nat \ {0}
  BY UtilAssumption DEF UtilAssumption
<1>. QED  BY <1>1, <1>2 DEF PlaceTypes, Results!Rows

LEMMA StayTyped ==
    ASSUME tool' \in {"label", "eval"}, file' \in Seq(Lines), completed' \subseteq Results!Rows,
           next' \in 1 .. NRows + 1, DOMAIN pending' \subseteq Results!Rows,
           batch' \subseteq DOMAIN pending', FileTypes'
    PROVE  ResultTypes'
<1>1. Lines' = Lines /\ Results!Rows' = Results!Rows
  BY DEF Lines, Results!Rows, Results!Torn
<1>2. PlaceTypes'
  BY <1>1 DEF PlaceTypes
<1>. QED  BY <1>2 DEF ResultTypes

LEMMA StartKeeps ==
    ASSUME ResultInv, NEW resume \in BOOLEAN, Results!Start(resume) PROVE ResultInv'
<1>0. /\ tool \in {"label", "eval"} /\ file \in Seq(Lines) /\ 1 \in 1 .. NRows + 1
      /\ FileTypes
  BY Typed
<1>1. /\ pc' \in {"submit", "raised"} /\ pc' # "done" /\ next' = 1 /\ pending' = <<>>
      /\ batch' = {} /\ DOMAIN pending' = {} /\ tool' = tool /\ parquet' = parquet
  BY DEF Results!Start
<1>2. CASE ~resume
  <2>1. file' = <<>> /\ ~open' /\ open' = FALSE /\ completed' = {}
    BY <1>2 DEF Results!Start
  <2>2. ResultTypes'
    <3>1. FileTypes'
      BY <2>1 DEF FileTypes
    <3>2. file' \in Seq(Lines) /\ completed' \subseteq Results!Rows
      BY <2>1, EmptySeq
    <3>. QED  BY <1>0, <1>1, <3>1, <3>2, StayTyped
  <2>3. \A r : Results!Records(r)' = {}
    BY <2>1 DEF Results!Records
  <2>4. \A r \in Results!Rows' : Remaining(r)'
    BY <1>1, <2>1 DEF Remaining, Results!Rows
  <2>. QED  BY <1>1, <2>2, <2>3, <2>4 DEF ResultInv, LatestIsOk, LivesOn, Results!EndsWhole
<1>3. CASE resume
  <2>1. /\ file' = file /\ open' = open
        /\ tool = "label" => completed' = Results!Recorded
        /\ tool = "eval" => completed' = Results!LatestOk
    BY <1>3 DEF Results!Start
  <2>2. /\ LatestIsOk' /\ Results!EndsWhole'
        /\ \A r : Results!Records(r)' = Results!Records(r)
        /\ \A i : Results!OkAt(i)' <=> Results!OkAt(i)
    BY <1>1, <2>1, SameFile
  <2>3. ResultTypes'
    <3>1. FileTypes'
      BY <1>0, <2>1 DEF FileTypes
    <3>2. completed' \subseteq Results!Rows
      BY <1>0, <2>1 DEF Results!Recorded, Results!LatestOk
    <3>. QED  BY <1>0, <1>1, <2>1, <3>1, <3>2, StayTyped
  <2>4. ASSUME NEW r \in Results!Rows
        PROVE  /\ Remaining(r)' =>
                    \A i \in Results!Records(r) : tool = "eval" /\ ~Results!OkAt(i)
               /\ ~Remaining(r)' => Results!Records(r) # {}
    <3>1. Remaining(r)' <=> r \notin completed'
      BY <1>1 DEF Remaining, Results!Rows
    <3>2. CASE tool = "label"
      BY <2>1, <3>1, <3>2 DEF Results!Recorded
    <3>3. CASE tool = "eval"
      <4>1. ASSUME NEW i \in Results!Records(r), Results!OkAt(i)
            PROVE  r \in Results!LatestOk
        <5>1. \A j \in Results!Records(r) : j <= i
          BY <3>3, <4>1 DEF ResultInv, LatestIsOk
        <5>2. Results!Max(Results!Records(r)) = i
          BY <4>1, <5>1, MaxIs, RecordsIn DEF ResultInv
        <5>. QED  BY <4>1, <5>2 DEF Results!LatestOk
      <4>2. r \in Results!LatestOk => Results!Records(r) # {}
        BY DEF Results!LatestOk
      <4>. QED  BY <2>1, <3>1, <3>3, <4>1, <4>2
    <3>. QED  BY <1>0, <3>2, <3>3
  <2>5. LivesOn'
    BY <1>1, <2>2, <2>4 DEF LivesOn, Results!Rows
  <2>. QED  BY <2>2, <2>3, <2>5 DEF ResultInv
<1>. QED  BY <1>2, <1>3

LEMMA SubmitKeeps == ASSUME ResultInv, Results!Submit PROVE ResultInv'
<1> DEFINE r == Results!Min(Results!Left)
<1>0. /\ tool \in {"label", "eval"} /\ file \in Seq(Lines) /\ completed \subseteq Results!Rows
      /\ next \in Nat /\ NRows \in Nat /\ DOMAIN pending \subseteq Results!Rows
      /\ batch \subseteq DOMAIN pending /\ FileTypes
  BY Typed
<1>1. r \in Results!Left /\ \A q \in Results!Left : r <= q
  <2>1. Results!Left \in SUBSET Nat /\ Results!Left # {}
    BY <1>0 DEF Results!Submit, Results!Left
  <2>. QED  BY <2>1, MinIs
<1>2. /\ next' = r + 1 /\ DOMAIN pending' = DOMAIN pending \cup {r}
      /\ pc = "submit" /\ pc' \in {"submit", "drain"}
      /\ UNCHANGED <<tool, life, file, open, parquet, completed, batch, unread>>
  BY DEF Results!Submit, Results!fileVars
<1> HIDE DEF r
<1>3. r \in Results!Rows /\ r >= next /\ r \notin completed /\ r \in Nat
      /\ r + 1 \in 1 .. NRows + 1
  BY <1>0, <1>1, Typed DEF Results!Left, Results!Rows
<1>4. /\ LatestIsOk' /\ Results!EndsWhole'
      /\ \A q : Results!Records(q)' = Results!Records(q)
      /\ \A i : Results!OkAt(i)' <=> Results!OkAt(i)
      /\ Results!Readable' <=> Results!Readable
  BY <1>2, SameFile
<1>5. ResultTypes'
  <2>1. FileTypes'
    BY <1>0, <1>2 DEF FileTypes
  <2>. QED  BY <1>0, <1>2, <1>3, <2>1, StayTyped
<1>6. \A q \in Results!Rows : Remaining(q)' <=> Remaining(q)
  <2> TAKE q \in Results!Rows
  <2>1. CASE q \in completed
    BY <1>2, <2>1 DEF Remaining
  <2>2. CASE q \notin completed /\ q >= next /\ q < r
    BY <1>0, <1>1, <1>3, <2>2 DEF Results!Left, Results!Rows
  <2>3. CASE q \notin completed /\ ~(q >= next /\ q < r)
    BY <1>0, <1>2, <1>3, <2>3 DEF Remaining, Results!Rows
  <2>. QED  BY <2>1, <2>2, <2>3
<1>7. LivesOn'
  <2>1. \A q \in DOMAIN pending' : q < next' /\ q \notin completed'
    <3>1. \A q \in DOMAIN pending : q < next /\ q \notin completed /\ q \in Nat
      BY <1>0, <1>2, Typed DEF ResultInv, LivesOn, Results!Ended
    <3>. QED  BY <1>0, <1>2, <1>3, <3>1
  <2>. QED  BY <1>2, <1>4, <1>6, <2>1 DEF ResultInv, LivesOn, Results!Ended, Results!Rows
<1>. QED  BY <1>4, <1>5, <1>7 DEF ResultInv

\* An action that answers, waits or stops leaves the file and the rows to do.
LEMMA SameRows ==
    ASSUME ResultInv, UNCHANGED <<tool, file, open, parquet, completed, next>>,
           DOMAIN pending' = DOMAIN pending, batch' \subseteq DOMAIN pending,
           pc' # "done" \/ pc' = pc, pc' \in Results!Ended \/ pc \notin Results!Ended
    PROVE  ResultInv'
<1>1. ResultTypes'
  <2>1. FileTypes'
    BY Typed DEF FileTypes
  <2>. QED  BY <2>1, Typed, StayTyped
<1>2. /\ LatestIsOk' /\ Results!EndsWhole'
      /\ \A q : Results!Records(q)' = Results!Records(q)
      /\ \A i : Results!OkAt(i)' <=> Results!OkAt(i)
      /\ Results!Readable' <=> Results!Readable
  BY SameFile
<1>3. \A q : Remaining(q)' <=> Remaining(q)
  BY DEF Remaining
<1>4. Results!Rows' = Results!Rows /\ Results!Ended' = Results!Ended
  BY DEF Results!Rows, Results!Ended
<1>5. LivesOn'
  <2> SUFFICES ASSUME pc' \notin Results!Ended PROVE LivesOn'
    BY <1>4 DEF LivesOn
  <2>1. /\ \A r \in DOMAIN pending : r < next /\ r \notin completed
        /\ \A r \in Results!Rows : Remaining(r) =>
                \A i \in Results!Records(r) : tool = "eval" /\ ~Results!OkAt(i)
        /\ Results!Readable =>
                \A r \in Results!Rows : ~Remaining(r) => Results!Records(r) # {}
    BY DEF ResultInv, LivesOn
  <2>. QED  BY <1>2, <1>3, <1>4, <2>1 DEF LivesOn
<1>. QED  BY <1>1, <1>2, <1>5 DEF ResultInv

LEMMA AnswerKeeps ==
    ASSUME ResultInv, NEW r, NEW outcome, Results!Answer(r, outcome) PROVE ResultInv'
<1>1. /\ DOMAIN pending' = DOMAIN pending /\ batch \subseteq DOMAIN pending
      /\ UNCHANGED <<tool, pc, file, open, parquet, completed, next, batch>>
  BY Typed DEF Results!Answer, Results!fileVars
<1>2. pc' = pc /\ Results!Ended = {"off", "done", "raised", "killed"}
  BY <1>1 DEF Results!Ended
<1>3. CASE pc \notin Results!Ended
  BY <1>1, <1>2, <1>3, SameRows
<1>4. CASE pc \in Results!Ended
  BY <1>1, <1>2, <1>4, SameRows
<1>. QED  BY <1>3, <1>4

LEMMA DrainKeeps == ASSUME ResultInv, Results!Drain PROVE ResultInv'
<1>1. /\ pc \notin Results!Ended /\ pc' = "write"
      /\ UNCHANGED <<tool, file, open, parquet, completed, next, pending>>
  BY DEF Results!Drain, Results!TailDrained, Results!fileVars, Results!Ended
<1>2. batch' \subseteq DOMAIN pending
  BY DEF Results!Drain
<1>. QED  BY <1>1, <1>2, SameRows

LEMMA SummarizeKeeps == ASSUME ResultInv, Results!Summarize PROVE ResultInv'
<1>1. /\ pc \notin Results!Ended /\ pc' # "done" /\ batch' \subseteq DOMAIN pending
      /\ UNCHANGED <<tool, file, open, parquet, completed, next, pending, batch>>
  BY Typed DEF Results!Summarize, Results!fileVars, Results!Ended
<1>. QED  BY <1>1, SameRows

LEMMA ResultKillKeeps == ASSUME ResultInv, Results!Kill PROVE ResultInv'
<1>1. /\ pc' # "done" /\ pc' \in Results!Ended /\ batch' \subseteq DOMAIN pending
      /\ UNCHANGED <<tool, file, open, parquet, completed, next, pending, batch>>
  BY Typed DEF Results!Kill, Results!fileVars, Results!lifeVars, Results!Ended
<1>. QED  BY <1>1, SameRows

\* The line of a row that is still to do repeats none, whether its end is
\* written or not.
LEMMA LineAdded ==
    ASSUME ResultInv, NEW r \in batch, pc = "write", NEW line,
           line = Results!Torn \/ line = <<r, pending[r] = "ok">>,
           file' = Results!Appended(line), tool' = tool
    PROVE  /\ r \in Results!Rows /\ line \in Lines /\ LatestIsOk'
           /\ \A i \in Results!Records(r) : tool = "eval" /\ ~Results!OkAt(i)
<1>1. r \in DOMAIN pending /\ r \in Results!Rows
  BY Typed
<1>2. line \in Lines
  <2>1. <<r, pending[r] = "ok">> \in Results!Rows \X BOOLEAN
    BY <1>1
  <2>. QED  BY <2>1 DEF Lines
<1>3. \A i \in Results!Records(r) : tool = "eval" /\ ~Results!OkAt(i)
  <2>1. Remaining(r)
    BY <1>1 DEF Remaining, ResultInv, LivesOn, Results!Ended
  <2>. QED  BY <1>1, <2>1 DEF ResultInv, LivesOn, Results!Ended
<1>4. \A q \in Results!Rows : \A i \in Results!Records(q)' :
          \/ i \in Results!Records(q) /\ file'[i] = file[i]
          \/ i = Len(file) + 1 /\ file'[i] = line /\ line # Results!Torn /\ line[1] = q
  BY <1>2, Added DEF ResultInv
<1>5. Len(file) \in Nat /\ \A q : Results!Records(q) \subseteq 1 .. Len(file)
  BY RecordsIn DEF ResultInv
<1>6. ASSUME NEW q \in Results!Rows, NEW i \in Results!Records(q)', NEW j \in Results!Records(q)'
      PROVE  /\ tool = "label" => i = j
             /\ tool = "eval" /\ Results!OkAt(i)' => j <= i
  <2>1. CASE i \in Results!Records(q) /\ file'[i] = file[i] /\ j \in Results!Records(q)
    <3>1. Results!OkAt(i)' <=> Results!OkAt(i)
      BY <2>1 DEF Results!OkAt
    <3>. QED  BY <2>1, <3>1 DEF ResultInv, LatestIsOk
  <2>2. CASE i = Len(file) + 1
    <3>1. j <= i
      <4>1. j \in 1 .. Len(file) \/ j = Len(file) + 1
        BY <1>4, <1>5, <1>6
      <4>. QED  BY <1>5, <2>2, <4>1
    <3>2. tool = "label" => i = j
      <4>1. q = r
        BY <1>4, <1>5, <1>6, <2>2
      <4>. QED  BY <1>3, <1>4, <1>6, <2>2, <4>1
    <3>. QED  BY <3>1, <3>2
  <2>3. CASE i \in Results!Records(q) /\ file'[i] = file[i] /\ j = Len(file) + 1
    <3>1. q = r
      BY <1>4, <1>5, <1>6, <2>3
    <3>2. Results!OkAt(i)' <=> Results!OkAt(i)
      BY <2>3 DEF Results!OkAt
    <3>. QED  BY <1>3, <2>3, <3>1, <3>2
  <2>. QED  BY <1>4, <1>6, <2>1, <2>2, <2>3
<1>7. LatestIsOk'
  <2>1. Results!Rows' = Results!Rows
    BY DEF Results!Rows
  <2>. QED  BY <1>6, <2>1 DEF LatestIsOk
<1>. QED  BY <1>1, <1>2, <1>3, <1>7

LEMMA WriteKeeps == ASSUME ResultInv, NEW r, Results!Write(r) PROVE ResultInv'
<1> DEFINE line == <<r, pending[r] = "ok">>
<1>1. /\ pc = "write" /\ r \in batch /\ file' = Results!Appended(line) /\ open' = FALSE
      /\ batch' = batch \ {r} /\ DOMAIN pending' = DOMAIN pending \ {r}
      /\ pc' \in {"summary", "write"} /\ UNCHANGED <<tool, life, parquet, completed, next>>
  BY DEF Results!Write, Results!Without
<1>2. line # Results!Torn /\ line[1] = r
  BY DEF Results!Torn
<1> HIDE DEF line
<1>3. /\ r \in Results!Rows /\ line \in Lines /\ LatestIsOk'
      /\ \A i \in Results!Records(r) : tool = "eval" /\ ~Results!OkAt(i)
  <2>1. line = <<r, pending[r] = "ok">>
    BY DEF line
  <2>. QED  BY <1>1, <2>1, LineAdded
<1>4. /\ file' \in Seq(Lines) /\ file' # <<>>
      /\ \A q \in Results!Rows : \A i \in Results!Records(q)' :
            \/ i \in Results!Records(q) /\ file'[i] = file[i]
            \/ i = Len(file) + 1 /\ file'[i] = line /\ line # Results!Torn /\ line[1] = q
      /\ Results!Readable' =>
            /\ Results!Readable
            /\ \A q \in Results!Rows : Results!Records(q) \subseteq Results!Records(q)'
            /\ \A q \in Results!Rows : line # Results!Torn /\ line[1] = q =>
                    Len(file) + 1 \in Results!Records(q)'
  BY <1>1, <1>3, Added DEF ResultInv
<1>5. ResultTypes'
  <2>1. FileTypes'
    BY <1>1 DEF FileTypes
  <2>2. batch' \subseteq DOMAIN pending' /\ DOMAIN pending' \subseteq Results!Rows
    BY <1>1, Typed
  <2>. QED  BY <1>1, <1>4, <2>1, <2>2, Typed, StayTyped
<1>6. /\ Results!Rows' = Results!Rows /\ pc' \notin Results!Ended /\ pc \notin Results!Ended
      /\ pc' # "done" /\ Results!Ended' = Results!Ended
  BY <1>1 DEF Results!Rows, Results!Ended
<1>7. /\ \A q \in DOMAIN pending : q < next /\ q \notin completed
      /\ \A q \in Results!Rows : Remaining(q) =>
              \A i \in Results!Records(q) : tool = "eval" /\ ~Results!OkAt(i)
      /\ Results!Readable =>
              \A q \in Results!Rows : ~Remaining(q) => Results!Records(q) # {}
  BY <1>6 DEF ResultInv, LivesOn
<1>8. \A q : Remaining(q)' <=> Remaining(q) /\ q # r
  <2>1. r \in DOMAIN pending /\ ~(r >= next)
    BY <1>1, <1>3, <1>7, Typed
  <2>. QED  BY <1>1, <2>1 DEF Remaining
<1>9. LivesOn'
  <2>1. \A q \in DOMAIN pending' : q < next' /\ q \notin completed'
    BY <1>1, <1>7
  <2>2. ASSUME NEW q \in Results!Rows, Remaining(q)', NEW i \in Results!Records(q)'
        PROVE  tool' = "eval" /\ ~Results!OkAt(i)'
    <3>1. Remaining(q) /\ q # r
      BY <1>8, <2>2
    <3>2. i \in Results!Records(q) /\ file'[i] = file[i]
      BY <1>2, <1>4, <2>2, <3>1
    <3>3. Results!OkAt(i)' <=> Results!OkAt(i)
      BY <3>2 DEF Results!OkAt
    <3>. QED  BY <1>1, <1>7, <3>1, <3>2, <3>3
  <2>3. ASSUME Results!Readable', NEW q \in Results!Rows, ~Remaining(q)'
        PROVE  Results!Records(q)' # {}
    <3>1. CASE q = r
      BY <1>2, <1>4, <2>3, <3>1
    <3>2. CASE q # r
      BY <1>4, <1>7, <1>8, <2>3, <3>2
    <3>. QED  BY <3>1, <3>2
  <2>. QED  BY <1>6, <2>1, <2>2, <2>3 DEF LivesOn
<1>10. Results!EndsWhole'
  BY <1>6 DEF Results!EndsWhole
<1>. QED  BY <1>3, <1>5, <1>9, <1>10 DEF ResultInv

LEMMA KillWritingKeeps ==
    ASSUME ResultInv, NEW r, NEW whole \in BOOLEAN, Results!KillWriting(r, whole)
    PROVE  ResultInv'
<1> DEFINE line == IF whole THEN <<r, pending[r] = "ok">> ELSE Results!Torn
<1>1. /\ pc = "write" /\ r \in batch /\ file' = Results!Appended(line) /\ open' = TRUE
      /\ pc' = "killed"
      /\ UNCHANGED <<tool, life, parquet, completed, next, pending, batch, unread>>
  BY DEF Results!KillWriting, Results!lifeVars
<1>2. line = Results!Torn \/ line = <<r, pending[r] = "ok">>
  OBVIOUS
<1> HIDE DEF line
<1>3. line \in Lines /\ LatestIsOk'
  BY <1>1, <1>2, LineAdded
<1>4. file' \in Seq(Lines) /\ file' # <<>>
  BY <1>1, <1>3, Added DEF ResultInv
<1>5. ResultTypes'
  <2>1. FileTypes'
    BY <1>1, <1>4 DEF FileTypes
  <2>. QED  BY <1>1, <1>4, <2>1, Typed, StayTyped
<1>6. LivesOn' /\ Results!EndsWhole'
  BY <1>1 DEF LivesOn, Results!Ended, Results!EndsWhole
<1>. QED  BY <1>3, <1>5, <1>6 DEF ResultInv

LEMMA FinishKeeps == ASSUME ResultInv, Results!Finish PROVE ResultInv'
<1>1. /\ pc = "submit" /\ Results!Left = {} /\ pending = <<>> /\ DOMAIN pending = {}
      /\ UNCHANGED <<tool, life, file, open, completed, next, pending, batch, unread>>
      /\ pc' \in {"done", "raised"} /\ (pc' = "done" => Results!Readable)
      /\ pc' = "done" /\ tool = "label" =>
            parquet' = [r \in Results!Rows |-> Results!Exported(r)]
  BY DEF Results!Finish, Results!lifeVars
<1>2. /\ \A r : Results!Records(r)' = Results!Records(r)
      /\ \A i : Results!OkAt(i)' <=> Results!OkAt(i)
      /\ Results!Readable' <=> Results!Readable
  BY <1>1 DEF Results!Records, Results!OkAt, Results!Readable, Results!Torn
<1>3. \A r : Results!Exported(r)' = Results!Exported(r)
  BY <1>2 DEF Results!Exported
<1>4. Results!Rows' = Results!Rows
  BY DEF Results!Rows
<1>5. ResultTypes'
  <2>1. FileTypes'
    BY <1>1, Typed DEF FileTypes
  <2>. QED  BY <1>1, <2>1, Typed, StayTyped
<1>6. LatestIsOk'
  BY <1>1, <1>2, <1>4 DEF ResultInv, LatestIsOk
<1>7. LivesOn'
  BY <1>1 DEF LivesOn, Results!Ended
<1>8. Results!EndsWhole'
  <2> SUFFICES ASSUME pc' = "done", NEW r \in Results!Rows
               PROVE  /\ Results!Records(r) # {}
                      /\ tool = "label" => Results!Cardinality(Results!Records(r)) = 1
                      /\ tool = "label" => parquet'[r] = Results!Exported(r)
                      /\ tool = "eval" => \A i \in Results!Records(r) :
                            Results!OkAt(i) => i = Results!Max(Results!Records(r))
    BY <1>1, <1>2, <1>3, <1>4 DEF Results!EndsWhole
  <2>1. Results!Records(r) # {}
    <3>1. ~Remaining(r)
      <4>1. r \in Nat /\ r <= NRows
        BY Typed DEF Results!Rows
      <4>2. r \in next .. NRows => r \in completed
        BY <1>1 DEF Results!Left
      <4>. QED  BY <1>1, <4>1, <4>2, Typed DEF Remaining, Results!Rows
    <3>. QED  BY <1>1, <3>1 DEF ResultInv, LivesOn, Results!Ended
  <2>2. tool = "label" => Results!Cardinality(Results!Records(r)) = 1
    <3> SUFFICES ASSUME tool = "label" PROVE Results!Cardinality(Results!Records(r)) = 1
      OBVIOUS
    <3>1. PICK i : Results!Records(r) = {i}
      BY <2>1 DEF ResultInv, LatestIsOk
    <3>2. Cardinality({i}) = 1
      BY FS_Singleton
    <3>. QED  BY <3>1, <3>2 DEF Results!Cardinality, Cardinality
  <2>3. tool = "label" => parquet'[r] = Results!Exported(r)
    BY <1>1
  <2>4. ASSUME tool = "eval", NEW i \in Results!Records(r), Results!OkAt(i)
        PROVE  i = Results!Max(Results!Records(r))
    <3>1. \A j \in Results!Records(r) : j <= i
      BY <2>4 DEF ResultInv, LatestIsOk
    <3>. QED  BY <2>4, <3>1, MaxIs, RecordsIn DEF ResultInv
  <2>. QED  BY <2>1, <2>2, <2>3, <2>4
<1>. QED  BY <1>5, <1>6, <1>7, <1>8 DEF ResultInv

LEMMA ResultStutters == ASSUME ResultInv, UNCHANGED resultVars PROVE ResultInv'
<1>1. /\ UNCHANGED <<tool, file, open, parquet, completed, next, pending, batch, pc>>
      /\ batch \subseteq DOMAIN pending
  BY Typed DEF resultVars
<1>2. Results!Ended' = Results!Ended
  BY DEF Results!Ended
<1>3. CASE pc \notin Results!Ended
  BY <1>1, <1>2, <1>3, SameRows
<1>4. CASE pc \in Results!Ended
  BY <1>1, <1>2, <1>4, SameRows
<1>. QED  BY <1>3, <1>4

\* A step of Utilities is one of this part, or leaves it alone.
LEMMA ResultKeeps == ASSUME ResultInv, [UtilNext]_all PROVE ResultInv'
<1>1. CASE Results!Next
  <2>1. CASE Results!Work
    BY <2>1, SubmitKeeps, DrainKeeps, SummarizeKeeps, FinishKeeps, WriteKeeps, AnswerKeeps
    DEF Results!Work
  <2>. QED  BY <1>1, <2>1, StartKeeps, ResultKillKeeps, KillWritingKeeps DEF Results!Next
<1>2. CASE UNCHANGED resultVars
  BY <1>2, ResultStutters
<1>3. [UtilNext]_all => Results!Next \/ UNCHANGED resultVars
  <2>1. InResults /\ Results!Next => Results!Next
    OBVIOUS
  <2>2. InWeights \/ InOneStep \/ InRewards \/ InBalance \/ InTools \/ InValid \/ Stop
            \/ UNCHANGED all => UNCHANGED resultVars
    BY DEF InWeights, InOneStep, InRewards, InBalance, InTools, InValid, Stop, all, firstVars
  <2>. QED  BY <2>1, <2>2 DEF UtilNext
<1>. QED  BY <1>1, <1>2, <1>3

\* For any dataset, pool and batch size and any number of lives, each killed
\* anywhere, inside a write too: the life that ends without an error leaves a
\* file that can be read to its end and has the record of every row, exactly one
\* for the annotator, at most one that is ok, the last, for the evaluation.
THEOREM ResultsEndWhole == FairSpec => []EndsWhole
<1>1. UtilInit => ResultInv
  BY ResultInit DEF UtilInit
<1>2. ResultInv => EndsWhole
  BY DEF ResultInv, EndsWhole
<1>. QED  BY <1>1, <1>2, ResultKeeps, PTL DEF FairSpec

-----------------------------------------------------------------------------
(* The rate of rewards                                                     *)

Asleep == {"oversized", "queue", "computing", "done"}
Paid == {"queue", "computing", "done"}

Taken == {c \in Callers : demand[c] > MaxTokens /\ where[c] \in Asleep}
Woken == {c \in Callers : demand[c] > MaxTokens /\ where[c] \in Paid}
NotBegun == \A c \in Callers : where[c] = "new"

RateInv ==
    /\ Limiter!TypeOK
    /\ \A c \in Callers : where[c] = "oversized" => demand[c] > MaxTokens
    /\ NotBegun => age = Limiter!Never /\ \A c \in Callers : sleep[c] = 0
    /\ tokens >= -SumOf(demand, Taken)
    /\ level <= MaxTokens + SumOf(demand, Woken)
    /\ Limiter!Refilled + level <= MaxTokens + SumOf(demand, Woken)

Places == {"new", "acquire", "sleep", "oversized", "queue", "computing", "done"}

LEMMA TotalIs == Limiter!Total = SumOf(demand, Callers)
BY DEF Limiter!Total, Limiter!MapThenSumSet, Limiter!MapThenFoldSet, SumOf, Partial, Pick

LEMMA RateBoundIs ==
    Limiter!RateBound <=> level <= MaxTokens + SumOf(demand, Limiter!Oversized)
BY DEF Limiter!RateBound, Limiter!MapThenSumSet, Limiter!MapThenFoldSet, SumOf, Partial, Pick

LEMMA RateConstants ==
    /\ IsFiniteSet(Callers) /\ Demands \subseteq Nat \ {0}
    /\ Rate \in Nat \ {0} /\ MaxTokens \in Nat \ {0} /\ MaxConcurrent \in Nat \ {0}
BY UtilAssumption DEF UtilAssumption

LEMMA MinOf2 ==
    ASSUME NEW a \in Int, NEW b \in Int
    PROVE  Limiter!Min({a, b}) = IF a <= b THEN a ELSE b
<1>1. \E x \in {a, b} : \A y \in {a, b} : x <= y
  OBVIOUS
<1>. QED  BY <1>1 DEF Limiter!Min

LEMMA LowerIs ==
    ASSUME NEW n \in Nat, NEW by \in Nat
    PROVE  Limiter!Lower(n, by) = IF by <= n THEN n - by ELSE 0
<1>1. \E x \in {0, n - by} : \A y \in {0, n - by} : x >= y
  OBVIOUS
<1>. QED  BY <1>1 DEF Limiter!Max, Limiter!Lower

LEMMA CeilGrows ==
    ASSUME NEW n \in Nat, NEW m \in Nat, n <= m
    PROVE  /\ Limiter!Ceil(n, Rate) \in Nat /\ Limiter!Ceil(m, Rate) \in Nat
           /\ Limiter!Ceil(n, Rate) <= Limiter!Ceil(m, Rate)
<1>. DEFINE a == n + Rate - 1
            b == m + Rate - 1
            q == a \div Rate
            r == b \div Rate
<1>1. a \in Nat /\ b \in Nat /\ a <= b /\ Rate \in Nat \ {0}
  BY RateConstants
<1>. HIDE DEF a, b
<1>2. q \in Nat /\ a % Rate \in Nat /\ a = q * Rate + (a % Rate)
  BY <1>1, SMTT(30)
<1>3. r \in Nat /\ b % Rate \in 0 .. Rate - 1 /\ b = r * Rate + (b % Rate)
  BY <1>1, SMTT(30)
<1>. HIDE DEF q, r
<1>4. q <= r
  <2>1. SUFFICES ASSUME q >= r + 1 PROVE FALSE
    BY <1>2, <1>3
  <2>2. q * Rate \in Nat /\ r * Rate \in Nat /\ q * Rate >= r * Rate + Rate
    <3>1. PICK e \in Nat : q = r + 1 + e
      <4>1. q - r - 1 \in Nat /\ q = r + 1 + (q - r - 1)
        BY <2>1, <1>2, <1>3
      <4>. QED  BY <4>1
    <3>2. q * Rate = r * Rate + Rate + e * Rate /\ e * Rate \in Nat /\ r * Rate \in Nat
      BY <3>1, <1>1, <1>2, <1>3, SMTT(30)
    <3>. QED  BY <3>2, <1>1
  <2>. QED  BY <2>2, <1>1, <1>2, <1>3
<1>. QED  BY <1>2, <1>3, <1>4 DEF Limiter!Ceil, a, b, q, r

\* Types as numbers
LEMMA RateTypes ==
    ASSUME Limiter!TypeOK
    PROVE  /\ demand \in [Callers -> Nat] /\ where \in [Callers -> Places]
           /\ sleep \in [Callers -> Nat]
           /\ tokens \in Int /\ tokens <= MaxTokens /\ level \in Nat
           /\ age \in Nat \cup {-1}
           /\ \A s \in SUBSET Callers : /\ IsFiniteSet(s) /\ SumOf(demand, s) \in Nat
                                        /\ SumOf(demand, s) <= SumOf(demand, Callers)
<1>1. demand \in [Callers -> Nat]
  <2>1. demand \in [Callers -> Demands \cup {0}] /\ Demands \cup {0} \subseteq Nat
    BY RateConstants DEF Limiter!TypeOK
  <2>. QED  BY <2>1
<1>2. \A s \in SUBSET Callers : IsFiniteSet(s) /\ \A c \in s : demand[c] \in Nat
  BY <1>1, FS_Subset, RateConstants
<1>3. \A s \in SUBSET Callers : SumOf(demand, s) \in Nat
  BY <1>2, SumType
<1>4. \A s \in SUBSET Callers : SumOf(demand, s) <= SumOf(demand, Callers)
  BY <1>2, SumGrows
<1>5. SumOf(demand, Callers) \in Nat /\ MaxTokens + SumOf(demand, Callers) \in Nat
  BY <1>3, RateConstants
<1>6. /\ Limiter!Ceil(SumOf(demand, Callers), Rate) \in Nat
      /\ Limiter!Ceil(MaxTokens + SumOf(demand, Callers), Rate) \in Nat
  BY <1>5, CeilGrows
<1>7. /\ sleep \in [Callers -> Nat] /\ tokens \in Int /\ tokens <= MaxTokens /\ level \in Nat
      /\ age \in Nat \cup {-1} /\ where \in [Callers -> Places]
  BY <1>5, <1>6, TotalIs, RateConstants DEF Limiter!TypeOK, Limiter!Never, Places
<1>. QED  BY <1>1, <1>2, <1>3, <1>4, <1>7

LEMMA RefilledIs ==
    ASSUME Limiter!TypeOK
    PROVE  /\ Limiter!Elapsed \in Nat /\ Limiter!Elapsed * Rate \in Nat
           /\ Limiter!Refilled \in Int /\ Limiter!Refilled <= MaxTokens
           /\ tokens <= Limiter!Refilled
           /\ Limiter!Refilled <= tokens + Limiter!Elapsed * Rate
<1>1. Limiter!Elapsed \in Nat
  BY RateTypes DEF Limiter!Elapsed, Limiter!Never
<1>2. Limiter!Elapsed * Rate \in Nat
  BY <1>1, RateConstants
<1>3. tokens + Limiter!Elapsed * Rate \in Int /\ MaxTokens \in Int
  BY <1>2, RateTypes, RateConstants
<1>4. Limiter!Refilled = IF MaxTokens <= tokens + Limiter!Elapsed * Rate
                           THEN MaxTokens ELSE tokens + Limiter!Elapsed * Rate
  BY <1>3, MinOf2 DEF Limiter!Refilled
<1>. QED  BY <1>1, <1>2, <1>3, <1>4, RateTypes, RateConstants

\* After an acquire that leaves no more than the bucket holds
LEMMA JustUpdated ==
    ASSUME tokens' \in Int, tokens' <= MaxTokens, age' = 0
    PROVE  Limiter!Refilled' = tokens'
<1>1. Limiter!Elapsed' = 0
  BY DEF Limiter!Elapsed, Limiter!Never
<1>2. 0 * Rate = 0 /\ MaxTokens \in Int
  BY RateConstants
<1>3. tokens' + Limiter!Elapsed' * Rate = tokens'
  BY <1>1, <1>2
<1>4. Limiter!Min({MaxTokens, tokens'}) = tokens'
  BY <1>2, MinOf2
<1>. QED  BY <1>3, <1>4 DEF Limiter!Refilled

LEMMA SameTotal == ASSUME demand' = demand PROVE Limiter!Total' = Limiter!Total
BY DEF Limiter!Total, Limiter!MapThenSumSet, Limiter!MapThenFoldSet

LEMMA SameRefilled ==
    ASSUME tokens' = tokens, age' = age PROVE Limiter!Refilled' = Limiter!Refilled
BY DEF Limiter!Refilled, Limiter!Elapsed

LEMMA RateInit == Limiter!Init => RateInv
<1>. SUFFICES ASSUME Limiter!Init PROVE RateInv
  OBVIOUS
<1>. USE DEF Limiter!Init
<1>1. demand \in [Callers -> Nat] /\ MaxTokens \in Nat /\ IsFiniteSet(Callers)
  BY RateConstants
<1>2. SumOf(demand, Callers) \in Nat
  BY <1>1, SumType
<1>3. Limiter!TypeOK
  <2>1. MaxTokens + SumOf(demand, Callers) \in Nat
    BY <1>1, <1>2
  <2>2. /\ Limiter!Ceil(SumOf(demand, Callers), Rate) \in Nat
        /\ Limiter!Ceil(MaxTokens + SumOf(demand, Callers), Rate) \in Nat
    BY <1>2, <2>1, CeilGrows
  <2>. QED  BY <1>1, <1>2, <2>1, <2>2, TotalIs DEF Limiter!TypeOK, Limiter!Never
<1>4. Taken = {} /\ Woken = {}
  BY DEF Taken, Woken, Asleep, Paid
<1>5. SumOf(demand, {}) = 0
  BY FS_EmptySet, SumPicks
<1>6. Limiter!Refilled <= MaxTokens /\ Limiter!Refilled \in Int
  BY <1>3, RefilledIs
<1>. QED  BY <1>1, <1>3, <1>4, <1>5, <1>6 DEF RateInv

\* A step of one request, or of the clock, that leaves the demands alone
LEMMA RateTypesKeep ==
    ASSUME RateInv, demand' = demand, where' \in [Callers -> Places],
           sleep' \in [Callers -> 0 .. Limiter!Ceil(SumOf(demand, Callers), Rate)],
           tokens' \in Int, tokens' >= -SumOf(demand, Callers), tokens' <= MaxTokens,
           \/ age' \in {-1, 0, age}
           \/ age' \in 0 .. Limiter!Ceil(MaxTokens + SumOf(demand, Callers), Rate) + 1,
           level' \in Nat, level' <= MaxTokens + SumOf(demand, Callers)
    PROVE  Limiter!TypeOK'
<1>1. Limiter!TypeOK /\ Limiter!Total' = SumOf(demand, Callers) /\ SumOf(demand, Callers) \in Nat
  BY SameTotal, TotalIs, RateTypes DEF RateInv
<1>2. MaxTokens \in Nat /\ MaxTokens + SumOf(demand, Callers) \in Nat
  BY <1>1, RateConstants
<1>3. /\ Limiter!Ceil(SumOf(demand, Callers), Rate) \in Nat
      /\ Limiter!Ceil(MaxTokens + SumOf(demand, Callers), Rate) \in Nat
  BY <1>1, <1>2, CeilGrows
<1>4. age' \in -1 .. Limiter!Ceil(MaxTokens + SumOf(demand, Callers), Rate) + 1
  BY <1>1, <1>3, TotalIs DEF Limiter!TypeOK, Limiter!Never
<1>5. demand' \in [Callers -> Demands \cup {0}]
  BY <1>1 DEF Limiter!TypeOK
<1>6. sleep' \in [Callers -> 0 .. Limiter!Ceil(Limiter!Total', Rate)]
  BY <1>1
<1>7. /\ tokens' \in -Limiter!Total' .. MaxTokens /\ level' \in 0 .. MaxTokens + Limiter!Total'
      /\ age' \in -1 .. Limiter!Ceil(MaxTokens + Limiter!Total', Rate) + 1
  BY <1>1, <1>2, <1>4
<1>8. where' \in [Callers -> {"new", "acquire", "sleep", "oversized", "queue", "computing", "done"}]
  BY DEF Places
<1>. HIDE DEF Limiter!Ceil
<1>. QED  BY <1>5, <1>6, <1>7, <1>8 DEF Limiter!TypeOK, Limiter!Never, Limiter!Ceil

LEMMA BeginKeepsRate == ASSUME RateInv, Limiter!Begin PROVE RateInv'
<1>. USE DEF Limiter!Begin
<1>0. Limiter!TypeOK
  BY DEF RateInv
<1>1. demand' \in [Callers -> Nat] /\ MaxTokens \in Nat /\ IsFiniteSet(Callers)
  <2>1. demand' \in [Callers -> Demands] /\ Demands \subseteq Nat
    BY RateConstants
  <2>. QED  BY <2>1, RateConstants
<1>2. SumOf(demand', Callers) \in Nat
  BY <1>1, SumType
<1>3. Taken = {} /\ Woken = {} /\ Taken' = {} /\ Woken' = {} /\ NotBegun
  BY DEF Taken, Woken, NotBegun, Asleep, Paid
<1>4. SumOf(demand, {}) = 0 /\ SumOf(demand', {}) = 0
  BY FS_EmptySet, SumPicks
<1>5. tokens >= 0 /\ level <= MaxTokens /\ Limiter!Refilled + level <= MaxTokens
  BY <1>1, <1>3, <1>4, <1>0, RateTypes, RefilledIs DEF RateInv
<1>6. age = -1 /\ \A c \in Callers : sleep[c] = 0
  BY <1>3 DEF RateInv, Limiter!Never
<1>7. Limiter!Total' = SumOf(demand', Callers)
  BY DEF Limiter!Total, Limiter!MapThenSumSet, Limiter!MapThenFoldSet, SumOf, Partial, Pick
<1>8. Limiter!TypeOK'
  <2>1. MaxTokens + SumOf(demand', Callers) \in Nat
    BY <1>1, <1>2
  <2>2. /\ Limiter!Ceil(SumOf(demand', Callers), Rate) \in Nat
        /\ Limiter!Ceil(MaxTokens + SumOf(demand', Callers), Rate) \in Nat
    BY <1>2, <2>1, CeilGrows
  <2>3. sleep' \in [Callers -> 0 .. Limiter!Ceil(SumOf(demand', Callers), Rate)]
    BY <1>0, <1>6, <2>2, RateTypes
  <2>4. age' \in -1 .. Limiter!Ceil(MaxTokens + SumOf(demand', Callers), Rate) + 1
    BY <1>6, <2>2
  <2>5. /\ tokens' \in -SumOf(demand', Callers) .. MaxTokens
        /\ level' \in 0 .. MaxTokens + SumOf(demand', Callers)
    BY <1>0, <1>1, <1>2, <1>5, RateTypes
  <2>6. demand' \in [Callers -> Demands \cup {0}]
    OBVIOUS
  <2>7. where' \in [Callers -> {"new", "acquire", "sleep", "oversized", "queue", "computing", "done"}]
    OBVIOUS
  <2>. QED  BY <1>7, <2>3, <2>4, <2>5, <2>6, <2>7 DEF Limiter!TypeOK, Limiter!Never
<1>9. Limiter!Refilled' = Limiter!Refilled
  BY SameRefilled
<1>10. (SumOf(demand, Taken))' = 0 /\ (SumOf(demand, Woken))' = 0
  BY <1>3, <1>4
<1>11. NotBegun' => age' = Limiter!Never /\ \A c \in Callers : sleep'[c] = 0
  BY <1>6 DEF Limiter!Never
<1>12. \A c \in Callers : where'[c] = "acquire"
  OBVIOUS
<1>. QED  BY <1>0, <1>1, <1>5, <1>8, <1>9, <1>10, <1>11, <1>12, RateTypes DEF RateInv

\* The numbers of RateInv
LEMMA RateNumbers ==
    ASSUME RateInv
    PROVE  /\ SumOf(demand, Callers) \in Nat
           /\ SumOf(demand, Taken) \in Nat /\ SumOf(demand, Woken) \in Nat
           /\ SumOf(demand, Taken) <= SumOf(demand, Callers)
           /\ SumOf(demand, Woken) <= SumOf(demand, Callers)
           /\ tokens \in Int /\ tokens <= MaxTokens /\ level \in Nat
           /\ MaxTokens \in Nat \ {0} /\ Rate \in Nat \ {0}
           /\ Limiter!Refilled \in Int /\ Limiter!Refilled <= MaxTokens
           /\ tokens <= Limiter!Refilled
           /\ tokens >= -SumOf(demand, Taken)
           /\ level <= MaxTokens + SumOf(demand, Woken)
           /\ Limiter!Refilled + level <= MaxTokens + SumOf(demand, Woken)
           /\ demand \in [Callers -> Nat] /\ where \in [Callers -> Places]
           /\ sleep \in [Callers -> 0 .. Limiter!Ceil(SumOf(demand, Callers), Rate)]
           /\ age \in Nat \cup {-1}
<1>1. Taken \in SUBSET Callers /\ Woken \in SUBSET Callers /\ Callers \in SUBSET Callers
  BY DEF Taken, Woken
<1>2. sleep \in [Callers -> 0 .. Limiter!Ceil(SumOf(demand, Callers), Rate)]
  BY TotalIs DEF RateInv, Limiter!TypeOK
<1>. QED  BY <1>1, <1>2, RateTypes, RefilledIs, RateConstants DEF RateInv

LEMMA OneUnitMore ==
    ASSUME NEW e \in Nat, NEW n \in Nat, n <= e + 1
    PROVE  e * Rate \in Nat /\ n * Rate \in Nat /\ n * Rate <= e * Rate + Rate
<1>1. Rate \in Nat
  BY RateConstants
<1>. DEFINE d == e + 1 - n
<1>2. d \in Nat /\ e + 1 = n + d
  OBVIOUS
<1>. HIDE DEF d
<1>3. /\ e * Rate \in Nat /\ n * Rate \in Nat /\ d * Rate \in Nat
  BY <1>1, <1>2
<1>4. (e + 1) * Rate = e * Rate + Rate /\ (n + d) * Rate = n * Rate + d * Rate
  BY <1>1, <1>2
<1>5. e * Rate + Rate = n * Rate + d * Rate
  BY <1>2, <1>4
<1>. QED  BY <1>1, <1>3, <1>5

LEMMA TickKeepsRate == ASSUME RateInv, Limiter!Tick PROVE RateInv'
<1>. USE DEF Limiter!Tick
<1>1. \A c \in Callers : sleep'[c] = Limiter!Lower(sleep[c], 1)
  BY RateNumbers
<1>2. level' \in Nat /\ level' <= level /\ (level' = 0 \/ level' + Rate <= level)
  BY RateNumbers, LowerIs
<1>3. sleep' \in [Callers -> 0 .. Limiter!Ceil(SumOf(demand, Callers), Rate)]
  <2>1. Limiter!Ceil(SumOf(demand, Callers), Rate) \in Nat
    BY RateNumbers, CeilGrows
  <2>2. ASSUME NEW c \in Callers
        PROVE  Limiter!Lower(sleep[c], 1) \in 0 .. Limiter!Ceil(SumOf(demand, Callers), Rate)
    <3>1. sleep[c] \in Nat /\ sleep[c] <= Limiter!Ceil(SumOf(demand, Callers), Rate)
      BY RateNumbers, <2>1
    <3>2. Limiter!Lower(sleep[c], 1) = IF 1 <= sleep[c] THEN sleep[c] - 1 ELSE 0
      BY <3>1, LowerIs
    <3>. QED  BY <2>1, <3>1, <3>2
  <2>3. sleep' = [c \in Callers |-> Limiter!Lower(sleep[c], 1)]
    OBVIOUS
  <2>. QED  BY <2>2, <2>3
<1>4. /\ Limiter!Ceil(MaxTokens - tokens, Rate) \in Nat
      /\ Limiter!Ceil(MaxTokens + SumOf(demand, Callers), Rate) \in Nat
      /\ Limiter!Ceil(MaxTokens - tokens, Rate) <= Limiter!Ceil(MaxTokens + SumOf(demand, Callers), Rate)
  <2>1. /\ MaxTokens - tokens \in Nat /\ MaxTokens + SumOf(demand, Callers) \in Nat
        /\ MaxTokens - tokens <= MaxTokens + SumOf(demand, Callers)
    BY RateNumbers
  <2>. QED  BY <2>1, CeilGrows
<1>5. /\ age = -1 => age' = -1
      /\ age # -1 => /\ age' \in 0 .. Limiter!Ceil(MaxTokens + SumOf(demand, Callers), Rate) + 1
                      /\ age' <= age + 1
  <2>1. CASE age = -1
    BY <2>1 DEF Limiter!Never
  <2>2. CASE age # -1
    <3>1. age \in Nat /\ age' = Limiter!Min({age + 1, Limiter!Ceil(MaxTokens - tokens, Rate) + 1})
      BY <2>2, RateNumbers DEF Limiter!Never, Limiter!AgeCap
    <3>2. age + 1 \in Int /\ Limiter!Ceil(MaxTokens - tokens, Rate) + 1 \in Int
      BY <3>1, <1>4
    <3>3. age' = IF age + 1 <= Limiter!Ceil(MaxTokens - tokens, Rate) + 1 THEN age + 1
                 ELSE Limiter!Ceil(MaxTokens - tokens, Rate) + 1
      BY <3>1, <3>2, MinOf2
    <3>. HIDE DEF Limiter!Tick
    <3>. QED  BY <2>2, <3>1, <3>3, <1>4
  <2>. QED  BY <2>1, <2>2
<1>6. Limiter!TypeOK'
  <2>1. \/ age' \in {-1, 0, age}
        \/ age' \in 0 .. Limiter!Ceil(MaxTokens + SumOf(demand, Callers), Rate) + 1
    BY <1>5
  <2>2. /\ tokens' \in Int /\ tokens' >= -SumOf(demand, Callers) /\ tokens' <= MaxTokens
        /\ where' \in [Callers -> Places] /\ level' <= MaxTokens + SumOf(demand, Callers)
        /\ demand' = demand
    BY <1>2, RateNumbers
  <2>. HIDE DEF Limiter!Tick
  <2>. QED  BY <1>2, <1>3, <2>1, <2>2, RateTypesKeep
<1>7. Taken' = Taken /\ Woken' = Woken /\ ~NotBegun'
  BY DEF Taken, Woken, NotBegun
<1>8. /\ Limiter!Refilled' \in Int /\ Limiter!Refilled' <= MaxTokens
      /\ Limiter!Refilled' <= Limiter!Refilled + Rate
  <2>1. /\ Limiter!Refilled = Limiter!Min({MaxTokens, tokens + Limiter!Elapsed * Rate})
        /\ Limiter!Refilled' = Limiter!Min({MaxTokens, tokens + Limiter!Elapsed' * Rate})
    BY DEF Limiter!Refilled
  <2>2. Limiter!Elapsed \in Nat /\ Limiter!Elapsed' \in Nat /\ Limiter!Elapsed' <= Limiter!Elapsed + 1
    BY <1>5, RateNumbers DEF Limiter!Elapsed, Limiter!Never
  <2>. HIDE DEF Limiter!Tick
  <2>3. /\ Limiter!Elapsed * Rate \in Nat /\ Limiter!Elapsed' * Rate \in Nat
        /\ Limiter!Elapsed' * Rate <= Limiter!Elapsed * Rate + Rate
    BY <2>2, OneUnitMore
  <2>4. /\ tokens + Limiter!Elapsed * Rate \in Int /\ tokens + Limiter!Elapsed' * Rate \in Int
        /\ MaxTokens \in Int
    BY <2>3, RateNumbers
  <2>5. /\ Limiter!Refilled = IF MaxTokens <= tokens + Limiter!Elapsed * Rate
                                 THEN MaxTokens ELSE tokens + Limiter!Elapsed * Rate
        /\ Limiter!Refilled' = IF MaxTokens <= tokens + Limiter!Elapsed' * Rate
                                 THEN MaxTokens ELSE tokens + Limiter!Elapsed' * Rate
    BY <2>1, <2>4, MinOf2
  <2>. QED  BY <2>3, <2>4, <2>5, RateNumbers
<1>9. /\ level' <= MaxTokens + SumOf(demand, Woken)
      /\ Limiter!Refilled' + level' <= MaxTokens + SumOf(demand, Woken)
  <2>. HIDE DEF Limiter!Tick
  <2>. QED  BY <1>2, <1>8, RateNumbers
<1>10. /\ SumOf(demand, Taken)' = SumOf(demand, Taken) /\ SumOf(demand, Woken)' = SumOf(demand, Woken)
  BY <1>7
<1>11. tokens' >= -SumOf(demand, Taken)
  BY RateNumbers
<1>12. \A c \in Callers : where'[c] = "oversized" => demand'[c] > MaxTokens
  BY DEF RateInv
<1>. HIDE DEF Limiter!Tick
<1>. QED  BY <1>6, <1>7, <1>9, <1>10, <1>11, <1>12 DEF RateInv

\* How a request that moves changes the two sums
LEMMA TakenGrows ==
    ASSUME RateInv, NEW c \in Callers, demand' = demand,
           where' = [where EXCEPT ![c] = "oversized"],
           where[c] = "acquire", demand[c] > MaxTokens
    PROVE  /\ SumOf(demand, Taken)' = SumOf(demand, Taken) + demand[c]
           /\ SumOf(demand, Woken)' = SumOf(demand, Woken)
           /\ SumOf(demand, Taken) + demand[c] <= SumOf(demand, Callers)
<1>1. where \in [Callers -> Places] /\ demand \in [Callers -> Nat]
  BY RateNumbers
<1>2. Woken' = Woken
  BY <1>1 DEF Woken, Paid
<1>3. c \in Taken' /\ Taken' \ {c} = Taken /\ Taken' \in SUBSET Callers
  BY <1>1 DEF Taken, Asleep
<1>. DEFINE both == Taken'
<1>4. IsFiniteSet(both) /\ \A x \in both : demand[x] \in Nat
  BY <1>1, <1>3, RateConstants, FS_Subset
<1>5. SumOf(demand, both) = demand[c] + SumOf(demand, both \ {c})
  <2>. HIDE DEF both
  <2>1. c \in both
    BY <1>3 DEF both
  <2>. QED  BY <1>4, <2>1, SumTakes
<1>6. SumOf(demand, both) <= SumOf(demand, Callers)
  <2>1. \A x \in Callers : demand[x] \in Nat
    BY <1>1
  <2>2. both \in SUBSET Callers
    BY <1>3
  <2>. HIDE DEF both
  <2>. QED  BY <2>1, <2>2, RateConstants, SumGrows
<1>7. SumOf(demand, Taken)' = SumOf(demand, both) /\ SumOf(demand, Woken)' = SumOf(demand, Woken)
  BY <1>2
<1>. HIDE DEF both
<1>8. SumOf(demand, both \ {c}) = SumOf(demand, Taken)
  BY <1>3 DEF both
<1>9. SumOf(demand, Taken) \in Nat /\ demand[c] \in Nat
  BY RateNumbers
<1>. QED  BY <1>5, <1>6, <1>7, <1>8, <1>9

LEMMA WokenGrows ==
    ASSUME RateInv, NEW c \in Callers, demand' = demand,
           where' = [where EXCEPT ![c] = "queue"], where[c] = "oversized"
    PROVE  /\ SumOf(demand, Woken)' = SumOf(demand, Woken) + demand[c]
           /\ SumOf(demand, Taken)' = SumOf(demand, Taken)
           /\ SumOf(demand, Woken) + demand[c] <= SumOf(demand, Callers)
<1>1. where \in [Callers -> Places] /\ demand \in [Callers -> Nat] /\ demand[c] > MaxTokens
  BY RateNumbers DEF RateInv
<1>2. Taken' = Taken
  BY <1>1 DEF Taken, Asleep
<1>3. c \in Woken' /\ Woken' \ {c} = Woken /\ Woken' \in SUBSET Callers
  BY <1>1 DEF Woken, Paid
<1>. DEFINE both == Woken'
<1>4. IsFiniteSet(both) /\ \A x \in both : demand[x] \in Nat
  BY <1>1, <1>3, RateConstants, FS_Subset
<1>5. SumOf(demand, both) = demand[c] + SumOf(demand, both \ {c})
  <2>. HIDE DEF both
  <2>1. c \in both
    BY <1>3 DEF both
  <2>. QED  BY <1>4, <2>1, SumTakes
<1>6. SumOf(demand, both) <= SumOf(demand, Callers)
  <2>1. \A x \in Callers : demand[x] \in Nat
    BY <1>1
  <2>2. both \in SUBSET Callers
    BY <1>3
  <2>. HIDE DEF both
  <2>. QED  BY <2>1, <2>2, RateConstants, SumGrows
<1>7. SumOf(demand, Woken)' = SumOf(demand, both) /\ SumOf(demand, Taken)' = SumOf(demand, Taken)
  BY <1>2
<1>. HIDE DEF both
<1>8. SumOf(demand, both \ {c}) = SumOf(demand, Woken)
  BY <1>3 DEF both
<1>9. SumOf(demand, Woken) \in Nat /\ demand[c] \in Nat
  BY RateNumbers
<1>. QED  BY <1>5, <1>6, <1>7, <1>8, <1>9

LEMMA SleepFits ==
    ASSUME RateInv, NEW c \in Callers, Limiter!SleepFor(c),
           Limiter!Refilled < demand[c], demand[c] - Limiter!Refilled <= SumOf(demand, Callers)
    PROVE  sleep' \in [Callers -> 0 .. Limiter!Ceil(SumOf(demand, Callers), Rate)]
<1>1. demand[c] \in Nat
  BY RateNumbers
<1>2. demand[c] - Limiter!Refilled \in Nat
  BY <1>1, RateNumbers
<1>3. Limiter!Ceil(demand[c] - Limiter!Refilled, Rate) \in 0 .. Limiter!Ceil(SumOf(demand, Callers), Rate)
  BY <1>2, RateNumbers, CeilGrows
<1>4. sleep \in [Callers -> 0 .. Limiter!Ceil(SumOf(demand, Callers), Rate)]
  BY RateNumbers
<1>. HIDE DEF Limiter!Ceil
<1>5. sleep' = [sleep EXCEPT ![c] = Limiter!Ceil(demand[c] - Limiter!Refilled, Rate)]
  BY DEF Limiter!SleepFor
<1>. QED  BY <1>3, <1>4, <1>5

LEMMA OversizedKeepsRate ==
    ASSUME RateInv, NEW c \in Callers, Limiter!AcquireOversized(c) PROVE RateInv'
<1>. USE DEF Limiter!AcquireOversized
<1>1. /\ where' = [where EXCEPT ![c] = "oversized"] /\ demand' = demand /\ age' = 0
      /\ level' = level /\ tokens' = Limiter!Refilled - demand[c]
      /\ where[c] = "acquire" /\ demand[c] > MaxTokens
  BY DEF Limiter!Goto
<1>2. /\ SumOf(demand, Taken)' = SumOf(demand, Taken) + demand[c]
      /\ SumOf(demand, Woken)' = SumOf(demand, Woken)
      /\ SumOf(demand, Taken) + demand[c] <= SumOf(demand, Callers)
  BY <1>1, TakenGrows
<1>3. demand[c] \in Nat
  BY RateNumbers
<1>4. /\ tokens' \in Int /\ tokens' <= MaxTokens /\ tokens' >= -(SumOf(demand, Taken) + demand[c])
      /\ tokens' >= -SumOf(demand, Callers) /\ tokens' <= Limiter!Refilled
  BY <1>1, <1>2, <1>3, RateNumbers
<1>5. sleep' \in [Callers -> 0 .. Limiter!Ceil(SumOf(demand, Callers), Rate)]
  <2>1. /\ Limiter!Refilled < demand[c] /\ Limiter!SleepFor(c)
        /\ demand[c] - Limiter!Refilled <= SumOf(demand, Callers)
    BY <1>1, <1>2, <1>3, RateNumbers
  <2>. QED  BY <2>1, SleepFits
<1>6. where' \in [Callers -> Places] /\ where'[c] = "oversized"
      /\ \A d \in Callers : d # c => where'[d] = where[d]
  BY <1>1, RateNumbers DEF Places
<1>. HIDE DEF Limiter!AcquireOversized
<1>7. Limiter!TypeOK'
  BY <1>1, <1>4, <1>5, <1>6, RateNumbers, RateTypesKeep
<1>8. Limiter!Refilled' = tokens'
  BY <1>1, <1>4, JustUpdated
<1>9. ~NotBegun'
  BY <1>6 DEF NotBegun
<1>10. \A d \in Callers : where'[d] = "oversized" => demand'[d] > MaxTokens
  BY <1>1, <1>6 DEF RateInv
<1>11. /\ level' <= MaxTokens + SumOf(demand, Woken)
       /\ tokens' + level' <= MaxTokens + SumOf(demand, Woken)
  BY <1>1, <1>4, RateNumbers
<1>. QED  BY <1>2, <1>4, <1>7, <1>8, <1>9, <1>10, <1>11 DEF RateInv

LEMMA WakeKeepsRate ==
    ASSUME RateInv, NEW c \in Callers, Limiter!OversizedWakes(c) PROVE RateInv'
<1>. USE DEF Limiter!OversizedWakes
<1>1. /\ where' = [where EXCEPT ![c] = "queue"] /\ demand' = demand /\ age' = age
      /\ level' = level + demand[c] /\ tokens' = tokens /\ sleep' = sleep
      /\ where[c] = "oversized"
  BY DEF Limiter!Goto, Limiter!Granted
<1>2. /\ SumOf(demand, Woken)' = SumOf(demand, Woken) + demand[c]
      /\ SumOf(demand, Taken)' = SumOf(demand, Taken)
      /\ SumOf(demand, Woken) + demand[c] <= SumOf(demand, Callers)
  BY <1>1, WokenGrows
<1>3. demand[c] \in Nat
  BY RateNumbers
<1>4. where' \in [Callers -> Places] /\ where'[c] = "queue"
      /\ \A d \in Callers : d # c => where'[d] = where[d]
  BY <1>1, RateNumbers DEF Places
<1>. HIDE DEF Limiter!OversizedWakes
<1>5. /\ level' \in Nat /\ level' <= MaxTokens + SumOf(demand, Callers)
      /\ level' <= MaxTokens + (SumOf(demand, Woken) + demand[c])
      /\ Limiter!Refilled + level' <= MaxTokens + (SumOf(demand, Woken) + demand[c])
      /\ tokens' >= -SumOf(demand, Callers) /\ tokens' >= -SumOf(demand, Taken)
  BY <1>1, <1>2, <1>3, RateNumbers
<1>6. Limiter!TypeOK'
  BY <1>1, <1>4, <1>5, RateNumbers, RateTypesKeep
<1>7. Limiter!Refilled' = Limiter!Refilled
  BY <1>1, SameRefilled
<1>8. ~NotBegun'
  BY <1>4 DEF NotBegun
<1>9. \A d \in Callers : where'[d] = "oversized" => demand'[d] > MaxTokens
  BY <1>1, <1>4 DEF RateInv
<1>. QED  BY <1>2, <1>5, <1>6, <1>7, <1>8, <1>9 DEF RateInv

\* A request that neither takes an oversized demand nor wakes from one
LEMMA SameSleepers ==
    ASSUME RateInv, NEW c \in Callers, demand' = demand, NEW place \in Places,
           where' = [where EXCEPT ![c] = place], place \notin {"new", "oversized"},
           \/ demand[c] <= MaxTokens
           \/ place \notin Asleep /\ where[c] \notin Asleep
           \/ place \in Paid /\ where[c] \in Paid
    PROVE  /\ SumOf(demand, Taken)' = SumOf(demand, Taken)
           /\ SumOf(demand, Woken)' = SumOf(demand, Woken)
           /\ where' \in [Callers -> Places] /\ ~NotBegun'
           /\ \A d \in Callers : where'[d] = "oversized" => demand'[d] > MaxTokens
<1>1. where \in [Callers -> Places] /\ demand \in [Callers -> Nat] /\ MaxTokens \in Nat
  BY RateNumbers
<1>2. /\ where'[c] = place /\ where' \in [Callers -> Places]
      /\ \A d \in Callers : d # c => where'[d] = where[d]
  BY <1>1
<1>3. Taken' = Taken
  <2>1. \A d \in Callers : d \in Taken' <=> d \in Taken
    BY <1>1, <1>2 DEF Taken, Asleep, Paid
  <2>. QED  BY <2>1 DEF Taken
<1>4. Woken' = Woken
  <2>1. \A d \in Callers : d \in Woken' <=> d \in Woken
    BY <1>1, <1>2 DEF Woken, Asleep, Paid
  <2>. QED  BY <2>1 DEF Woken
<1>5. ~NotBegun'
  BY <1>2 DEF NotBegun
<1>6. \A d \in Callers : where'[d] = "oversized" => demand'[d] > MaxTokens
  BY <1>2 DEF RateInv
<1>. QED  BY <1>2, <1>3, <1>4, <1>5, <1>6

LEMMA AcquireKeepsRate ==
    ASSUME RateInv, NEW c \in Callers, Limiter!Acquire(c) PROVE RateInv'
<1>. USE DEF Limiter!Acquire
<1>1. demand[c] \in Nat /\ demand' = demand /\ age' = 0
      /\ where[c] = "acquire" /\ demand[c] <= MaxTokens
  BY RateNumbers
<1>2. CASE Limiter!Refilled >= demand[c]
  <2>1. /\ where' = [where EXCEPT ![c] = "queue"] /\ sleep' = sleep
        /\ tokens' = Limiter!Refilled - demand[c] /\ level' = level + demand[c]
    BY <1>2 DEF Limiter!Goto, Limiter!Granted
  <2>. HIDE DEF Limiter!Acquire
  <2>2. /\ SumOf(demand, Taken)' = SumOf(demand, Taken)
        /\ SumOf(demand, Woken)' = SumOf(demand, Woken)
        /\ where' \in [Callers -> Places] /\ ~NotBegun'
        /\ \A d \in Callers : where'[d] = "oversized" => demand'[d] > MaxTokens
    BY <1>1, <2>1, SameSleepers DEF Places
  <2>3. /\ tokens' \in Int /\ tokens' <= MaxTokens /\ tokens' >= 0 /\ level' \in Nat
        /\ level' <= MaxTokens + SumOf(demand, Woken)
        /\ tokens' + level' <= MaxTokens + SumOf(demand, Woken)
    BY <1>1, <1>2, <2>1, RateNumbers
  <2>4. /\ tokens' >= -SumOf(demand, Callers) /\ tokens' >= -SumOf(demand, Taken)
        /\ level' <= MaxTokens + SumOf(demand, Callers)
    BY <2>3, RateNumbers
  <2>5. Limiter!TypeOK'
    BY <1>1, <2>1, <2>2, <2>3, <2>4, RateNumbers, RateTypesKeep
  <2>6. Limiter!Refilled' = tokens'
    BY <1>1, <2>3, JustUpdated
  <2>. QED  BY <2>2, <2>3, <2>4, <2>5, <2>6 DEF RateInv
<1>3. CASE ~(Limiter!Refilled >= demand[c])
  <2>1. /\ where' = [where EXCEPT ![c] = "sleep"] /\ Limiter!SleepFor(c)
        /\ tokens' = Limiter!Refilled /\ level' = level
    BY <1>3 DEF Limiter!Goto
  <2>. HIDE DEF Limiter!Acquire
  <2>2. /\ SumOf(demand, Taken)' = SumOf(demand, Taken)
        /\ SumOf(demand, Woken)' = SumOf(demand, Woken)
        /\ where' \in [Callers -> Places] /\ ~NotBegun'
        /\ \A d \in Callers : where'[d] = "oversized" => demand'[d] > MaxTokens
    BY <1>1, <2>1, SameSleepers DEF Places
  <2>3. Taken \cup {c} \in SUBSET Callers /\ c \notin Taken
    BY <1>1 DEF Taken, Asleep
  <2>4. demand[c] + SumOf(demand, Taken) <= SumOf(demand, Callers)
    <3>. DEFINE both == Taken \cup {c}
    <3>1. IsFiniteSet(both) /\ \A x \in both : demand[x] \in Nat
      BY <2>3, RateNumbers, RateConstants, FS_Subset
    <3>2. both \ {c} = Taken /\ c \in both /\ both \in SUBSET Callers
      BY <2>3
    <3>3. \A x \in Callers : demand[x] \in Nat
      BY RateNumbers
    <3>. HIDE DEF both
    <3>4. SumOf(demand, both) = demand[c] + SumOf(demand, both \ {c})
      BY <3>1, <3>2, SumTakes
    <3>5. SumOf(demand, both) <= SumOf(demand, Callers)
      BY <3>2, <3>3, RateConstants, SumGrows
    <3>. QED  BY <3>2, <3>4, <3>5
  <2>5. sleep' \in [Callers -> 0 .. Limiter!Ceil(SumOf(demand, Callers), Rate)]
    <3>1. Limiter!Refilled < demand[c] /\ demand[c] - Limiter!Refilled <= SumOf(demand, Callers)
      BY <1>1, <1>3, <2>4, RateNumbers
    <3>. QED  BY <2>1, <3>1, SleepFits
  <2>6. /\ tokens' \in Int /\ tokens' <= MaxTokens /\ tokens' >= -SumOf(demand, Taken)
        /\ tokens' >= -SumOf(demand, Callers) /\ level' \in Nat
        /\ level' <= MaxTokens + SumOf(demand, Woken)
        /\ level' <= MaxTokens + SumOf(demand, Callers)
        /\ tokens' + level' <= MaxTokens + SumOf(demand, Woken)
    BY <2>1, RateNumbers
  <2>7. Limiter!TypeOK'
    BY <1>1, <2>1, <2>2, <2>5, <2>6, RateNumbers, RateTypesKeep
  <2>8. Limiter!Refilled' = tokens'
    BY <1>1, <2>6, JustUpdated
  <2>. QED  BY <2>2, <2>6, <2>7, <2>8 DEF RateInv
<1>. QED  BY <1>2, <1>3

\* The steps that move no tokens
LEMMA MoveKeepsRate ==
    ASSUME RateInv, NEW c \in Callers,
           Limiter!Wakes(c) \/ Limiter!Compute(c) \/ Limiter!Rewarded(c)
    PROVE  RateInv'
<1>1. UNCHANGED <<demand, sleep, tokens, age, level>>
  BY DEF Limiter!Wakes, Limiter!Compute, Limiter!Rewarded
<1>2. PICK place \in {"acquire", "computing", "done"} :
        /\ where' = [where EXCEPT ![c] = place]
        /\ \/ place = "acquire" /\ where[c] = "sleep"
           \/ place \in Paid /\ where[c] \in Paid
  BY DEF Limiter!Wakes, Limiter!SleepOver, Limiter!Compute, Limiter!Rewarded, Limiter!Goto, Paid
<1>3. /\ SumOf(demand, Taken)' = SumOf(demand, Taken)
      /\ SumOf(demand, Woken)' = SumOf(demand, Woken)
      /\ where' \in [Callers -> Places] /\ ~NotBegun'
      /\ \A d \in Callers : where'[d] = "oversized" => demand'[d] > MaxTokens
  <2>1. /\ place \in Places /\ place \notin {"new", "oversized"} /\ demand' = demand
        /\ \/ place \notin Asleep /\ where[c] \notin Asleep
           \/ place \in Paid /\ where[c] \in Paid
    BY <1>1, <1>2 DEF Places, Asleep
  <2>. QED  BY <1>2, <2>1, SameSleepers
<1>4. tokens' >= -SumOf(demand, Callers) /\ level' <= MaxTokens + SumOf(demand, Callers)
  BY <1>1, RateNumbers
<1>5. Limiter!TypeOK'
  BY <1>1, <1>3, <1>4, RateNumbers, RateTypesKeep
<1>6. Limiter!Refilled' = Limiter!Refilled
  BY <1>1, SameRefilled
<1>. QED  BY <1>1, <1>3, <1>5, <1>6, RateNumbers DEF RateInv

LEMMA RateStutters == ASSUME RateInv, UNCHANGED limiterVars PROVE RateInv'
<1>1. /\ demand' = demand /\ where' = where /\ sleep' = sleep /\ tokens' = tokens
      /\ age' = age /\ level' = level
  BY DEF limiterVars
<1>2. tokens' >= -SumOf(demand, Callers) /\ level' <= MaxTokens + SumOf(demand, Callers)
  BY <1>1, RateNumbers
<1>3. Limiter!TypeOK'
  BY <1>1, <1>2, RateNumbers, RateTypesKeep
<1>4. Limiter!Refilled' = Limiter!Refilled
  BY <1>1, SameRefilled
<1>5. Taken' = Taken /\ Woken' = Woken /\ NotBegun' = NotBegun
  BY <1>1 DEF Taken, Woken, NotBegun
<1>6. SumOf(demand, Taken)' = SumOf(demand, Taken) /\ SumOf(demand, Woken)' = SumOf(demand, Woken)
  BY <1>1, <1>5
<1>7. \A c \in Callers : where'[c] = "oversized" => demand'[c] > MaxTokens
  BY <1>1 DEF RateInv
<1>. QED  BY <1>1, <1>3, <1>4, <1>5, <1>6, <1>7 DEF RateInv

LEMMA RateKeeps == ASSUME RateInv, [UtilNext]_all PROVE RateInv'
<1>1. CASE InRewards /\ Limiter!Next
  BY <1>1, BeginKeepsRate, TickKeepsRate, OversizedKeepsRate, WakeKeepsRate, AcquireKeepsRate,
     MoveKeepsRate DEF Limiter!Next, Limiter!Request
<1>2. CASE UNCHANGED limiterVars
  BY <1>2, RateStutters
<1>3. UNCHANGED limiterVars \/ (InRewards /\ Limiter!Next)
  BY DEF UtilNext, InWeights, InResults, InBalance, InTools, InValid, InOneStep, Stop, all,
         firstVars
<1>. QED  BY <1>1, <1>2, <1>3

\* For any number of callers, demands, rate and size of the bucket, and however
\* callers sleep, wake late and try again: over no stretch of time are more
\* tokens granted than flow in it and the bucket holds, but for the requests
\* larger than the bucket, once each.
THEOREM RewardsAtRate == FairSpec => []RateBound
<1>1. UtilInit => RateInv
  BY RateInit DEF UtilInit
<1>2. RateInv /\ [UtilNext]_all => RateInv'
  BY RateKeeps
<1>3. RateInv => RateBound
  <2>. SUFFICES ASSUME RateInv PROVE RateBound
    OBVIOUS
  <2>1. Woken \in SUBSET Limiter!Oversized /\ Limiter!Oversized \in SUBSET Callers
    BY DEF Woken, Limiter!Oversized
  <2>2. IsFiniteSet(Limiter!Oversized) /\ \A c \in Limiter!Oversized : demand[c] \in Nat
    BY <2>1, RateConstants, FS_Subset, RateNumbers
  <2>3. SumOf(demand, Woken) <= SumOf(demand, Limiter!Oversized)
    BY <2>1, <2>2, SumGrows
  <2>4. SumOf(demand, Limiter!Oversized) \in Nat
    BY <2>2, SumType
  <2>. QED  BY <2>3, <2>4, RateNumbers, RateBoundIs DEF RateBound
<1>. QED  BY <1>1, <1>2, <1>3, PTL DEF FairSpec
=============================================================================
