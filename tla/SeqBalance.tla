----------------------------- MODULE SeqBalance -----------------------------
(***************************************************************************)
(* seqlen_balancing.py: the largest-differencing method that divides the   *)
(* samples of a batch among data-parallel ranks (with equal sizes, called  *)
(* by _balance_batch) or into micro-batches (rearrange_micro_batches),     *)
(* and the way the results of the micro-batches are put back in order.     *)
(* A partition is a set of indices; of entries that compare equal by sum   *)
(* and size any may come first.                                            *)
(***************************************************************************)
EXTENDS Integers, FiniteSets, Sequences, FiniteSetsExt, SequencesExt

CONSTANTS
    Batch,      \* samples of a batch
    Lengths,    \* lengths a sequence may have
    Limits,     \* max_token_len, or the capacity it is given
    Worlds      \* data-parallel sizes

Samples == 0 .. Batch - 1

VARIABLES
    lens,       \* per sample: its length
    mode,       \* "dp" (equal_size) or "micro"
    k,          \* k_partitions
    heap,       \* states: sequences of k sets of samples, heaviest first
    phase,      \* "off", "choose", "merge", "merged", "arranged" or "done"
    parts,      \* the partitions, or micro-batches, in their order
    restored    \* what restore_dynamic_batch puts at each place

vars == <<lens, mode, k, heap, phase, parts, restored>>

Init ==
    /\ lens = [i \in Samples |-> 0] /\ mode = "dp" /\ k = 1 /\ heap = {}
    /\ phase = "off" /\ parts = <<>> /\ restored = <<>>

\* calculate_workload
Workload == [i \in Samples |-> 24576 * lens[i] + lens[i] * lens[i]]
Load(A)  == MapThenSumSet(LAMBDA i : Workload[i], A)
Heavier(A, B) == Load(A) > Load(B) \/ (Load(A) = Load(B) /\ Cardinality(A) > Cardinality(B))

Descending(s) == \A i, j \in DOMAIN s : i < j => ~Heavier(s[j], s[i])

\* sorted(..., reverse=True)
Orders(s) ==
    {t \in {[i \in DOMAIN s |-> s[p[i]]] : p \in Bijection(DOMAIN s, DOMAIN s)} :
        Descending(t)}

-----------------------------------------------------------------------------
\* karmarkar_karp

\* sorted([(seqlen, i) for i, seqlen in enumerate(seqlen_list)])
BySize(order) ==
    \A i, j \in DOMAIN order : i < j =>
        \/ Workload[order[i]] < Workload[order[j]]
        \/ Workload[order[i]] = Workload[order[j]] /\ order[i] < order[j]

Chunk(order, c, n) == [i \in 1 .. n |-> {order[(c + 1) * n + 1 - i]}]
Alone(i, n) == [j \in 1 .. n |-> IF j = 1 THEN {i} ELSE {}]

CeilDiv(a, b) == (a + b - 1) \div b
MicroBatches(limit) == Min({Batch, CeilDiv(MapThenSumSet(LAMBDA i : lens[i], Samples), limit)})

Begin ==
    /\ phase = "off"
    /\ lens' \in [Samples -> Lengths] /\ mode' \in {"dp", "micro"}
    /\ phase' = "choose"
    /\ UNCHANGED <<k, heap, parts, restored>>

Ranks ==
    /\ phase = "choose" /\ mode = "dp"
    /\ k' \in {n \in Worlds : Batch % n = 0}
    /\ \E order \in SetToSeqs(Samples) :
         /\ BySize(order)
         /\ heap' = {Chunk(order, c, k') : c \in 0 .. (Batch \div k') - 1}
    /\ phase' = "merge"
    /\ UNCHANGED <<lens, mode, parts, restored>>

Micro ==
    /\ phase = "choose" /\ mode = "micro"
    /\ \E limit \in Limits :
         /\ \A i \in Samples : limit >= lens[i]
         /\ k' = MicroBatches(limit)
    /\ heap' = {Alone(i, k') : i \in Samples}
    /\ phase' = "merge"
    /\ UNCHANGED <<lens, mode, parts, restored>>

Spread(s) == Load(s[1]) - Load(s[Len(s)])

\* heappop: the largest spread, and of those the largest first set.
Foremost(states) ==
    {s \in states : \A t \in states :
        \/ Spread(s) > Spread(t)
        \/ (Spread(s) = Spread(t) /\ ~Heavier(t[1], s[1]))}

MutSameOrder(s, t) == [i \in DOMAIN s |-> s[i] \cup t[i]]
Joined(s, t)       == [i \in DOMAIN s |-> s[i] \cup t[Len(s) + 1 - i]]

Merge ==
    /\ phase = "merge" /\ Cardinality(heap) > 1
    /\ \E s \in Foremost(heap) : \E t \in Foremost(heap \ {s}) :
         \E merged \in Orders(Joined(s, t)) :
           heap' = (heap \ {s, t}) \cup {merged}
    /\ UNCHANGED <<lens, mode, k, phase, parts, restored>>

Merged ==
    /\ phase = "merge" /\ Cardinality(heap) = 1
    /\ parts' = CHOOSE s \in heap : TRUE
    /\ phase' = IF mode = "dp" THEN "done" ELSE "merged"
    /\ UNCHANGED <<lens, mode, k, heap, restored>>

-----------------------------------------------------------------------------
\* rearrange_micro_batches and restore_dynamic_batch

Odds(s)  == [i \in 1 .. (Len(s) + 1) \div 2 |-> s[2 * i - 1]]
Evens(s) == [i \in 1 .. Len(s) \div 2 |-> s[2 * i]]

\* Heaviest first (they are already, and ties go by the first index), then the
\* light ones to both ends: [::2][::-1] + [1::2].
Arrange ==
    /\ phase = "merged"
    /\ \E s \in Orders(parts) : parts' = Reverse(Odds(s)) \o Evens(s)
    /\ phase' = "arranged"
    /\ UNCHANGED <<lens, mode, k, heap, restored>>

\* _check_and_sort_partitions: sorted(partition)
Sorted(A) == CHOOSE s \in SetToSeqs(A) : \A i, j \in DOMAIN s : i < j => s[i] < s[j]

Indices == FlattenSeq([i \in DOMAIN parts |-> Sorted(parts[i])])
ReverseIdx(indices) ==
    [j \in 1 .. Len(indices) |-> (CHOOSE p \in DOMAIN indices : indices[p] = j - 1) - 1]

\* Row p of the result belongs to sample Indices[p].
Restore ==
    /\ phase = "arranged"
    /\ LET back == ReverseIdx(Indices) IN
         restored' = [j \in 1 .. Batch |-> Indices[back[j] + 1]]
    /\ phase' = "done"
    /\ UNCHANGED <<lens, mode, k, heap, parts>>

Next == Begin \/ Ranks \/ Micro \/ Merge \/ Merged \/ Arrange \/ Restore

-----------------------------------------------------------------------------
TypeOK ==
    /\ lens \in [Samples -> Lengths \cup {0}] /\ mode \in {"dp", "micro"}
    /\ k \in 1 .. Batch
    /\ \A s \in heap : Len(s) = k /\ \A i \in 1 .. k : s[i] \subseteq Samples
    /\ phase \in {"off", "choose", "merge", "merged", "arranged", "done"}
    /\ parts # <<>> => Len(parts) = k /\ \A i \in 1 .. k : parts[i] \subseteq Samples

Divides(s) ==
    /\ \A i \in Samples : \E j \in DOMAIN s : i \in s[j]
    /\ \A i, j \in DOMAIN s : i # j => s[i] \cap s[j] = {}

\* Every sample ends in exactly one partition and none is empty; ranks get
\* equally many samples, and no rank or micro-batch is heavier than another by
\* more than a single sample weighs; results of micro-batches come back to the
\* sample they belong to.
Partition ==
    phase = "done" =>
        /\ Divides(parts) /\ \A i \in 1 .. k : parts[i] # {}
        /\ mode = "dp" => \A i \in 1 .. k : Cardinality(parts[i]) * k = Batch
        /\ \A i, j \in 1 .. k :
             Load(parts[i]) - Load(parts[j]) <= Max({Workload[m] : m \in Samples})
        /\ mode = "micro" => restored = [j \in 1 .. Batch |-> j - 1]
=============================================================================
