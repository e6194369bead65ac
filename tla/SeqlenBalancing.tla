--------------------------- MODULE SeqlenBalancing ---------------------------
(***************************************************************************)
(* verl/utils/seqlen_balancing.py: the differencing method that splits a   *)
(* batch between data parallel ranks and micro batches, and the index      *)
(* lists by which results find their way back.                             *)
(*                                                                         *)
(* lens gives the length of every item; an item is its index, counted from *)
(* one.  A State of the heap is a sequence of k Sets, largest first.       *)
(***************************************************************************)
EXTENDS Sorting

\* Set: its items, and the sum of their lengths.
EmptySet == [sum |-> 0, items |-> <<>>]
SetOf(lens, i) == [sum |-> lens[i], items |-> <<i>>]
SetMerged(a, b) == [sum |-> a.sum + b.sum, items |-> a.items \o b.items]

\* Set.__lt__, with the larger one first: sum, then number of items, then items,
\* which differ in the first one already.
Larger(a, b) ==
    \/ a.sum > b.sum
    \/ /\ a.sum = b.sum
       /\ \/ Len(a.items) > Len(b.items)
          \/ (Len(a.items) = Len(b.items) /\ a.items # <<>> /\ a.items[1] > b.items[1])

\* Bug: an empty set counts as large as one of items without tokens.
Bug_Decreasing(sets) == Sort(sets, LAMBDA a, b : a.sum > b.sum)

Decreasing(sets) == Sort(sets, Larger)

NewState(lens, items, k) ==
    Decreasing([i \in 1..k |-> IF i <= Len(items) THEN SetOf(lens, items[i]) ELSE EmptySet])

Spread(state) == state[1].sum - Last(state).sum

\* State.__lt__: the state popped first.
Popped(a, b) ==
    \/ Spread(a) > Spread(b)
    \/ Spread(a) = Spread(b) /\ Larger(a[1], b[1])

\* Bug: the largest set is merged with the largest.
Bug_Merged(a, b) == Decreasing([i \in DOMAIN a |-> SetMerged(a[i], b[i])])

\* The largest set of one state is merged with the smallest of the other.
Merged(a, b) == Decreasing([i \in DOMAIN a |-> SetMerged(a[i], b[Len(b) + 1 - i])])

\* The items by length, shortest first.
Ascending(lens) ==
    Sort([i \in DOMAIN lens |-> i],
            LAMBDA i, j : lens[i] < lens[j] \/ (lens[i] = lens[j] /\ i < j))

\* With equal_size every state starts with one item in each set.
FirstStates(lens, k, equal) ==
    IF equal
    THEN {NewState(lens, SubSeq(Ascending(lens), g * k + 1, g * k + k), k) :
             g \in 0..(Len(lens) \div k - 1)}
    ELSE {NewState(lens, <<i>>, k) : i \in DOMAIN lens}

First(states) == CHOOSE s \in states : \A t \in states \ {s} : Popped(s, t)

Without(states, a, b) == (states \ {a, b}) \cup {Merged(a, b)}
MergeTwo(states) ==
    LET a == First(states) IN Without(states, a, First(states \ {a}))

\* karmarkar_karp: merge until one state is left.
MergeAll(start) ==
    LET heap[n \in 0..Cardinality(start)] == IF n = 0 THEN start ELSE MergeTwo(heap[n - 1])
    IN  First(heap[Cardinality(start) - 1])

\* get_seqlen_balanced_partitions, whose assertions are the properties below: the
\* sets of that state, each in the order of the items.
InOrder(state) == [p \in DOMAIN state |-> Sort(state[p].items, <)]
BalancedPartitions(lens, k, equal) == InOrder(MergeAll(FirstStates(lens, k, equal)))
-----------------------------------------------------------------------------
(* rearrange_micro_batches. *)

CeilDiv(a, b) == (a + b - 1) \div b
Total(lens) == Sum(lens)

\* Bug: the last, not full batch is forgotten.
Bug_NumMicroBatches(lens, max) == Max({1, Total(lens) \div max})

NumMicroBatches(lens, max) == Min({Len(lens), CeilDiv(Total(lens), max)})

\* Heavy micro batches first: by the sum of squares, then by the first index.
Work(lens, part) == Sum([i \in DOMAIN part |-> lens[part[i]] * lens[part[i]]])
Heavier(a, b) == a.work > b.work \/ (a.work = b.work /\ a.part[1] > b.part[1])
HeavyFirst(lens, parts) ==
    LET byWork == Sort([p \in DOMAIN parts |->
                              [work |-> Work(lens, parts[p]), part |-> parts[p]]], Heavier)
    IN  [p \in DOMAIN parts |-> byWork[p].part]

\* The index lists of num micro batches, the number every rank agreed on.
MicroBatches(lens, num) == HeavyFirst(lens, BalancedPartitions(lens, num, FALSE))

\* get_reverse_idx and restore_dynamic_batch: results, in the order of the
\* micro batches, back in the order of the batch.
ReverseIdx(idx) == [j \in DOMAIN idx |-> CHOOSE i \in DOMAIN idx : idx[i] = j]

Restore(results, parts) ==
    LET back == ReverseIdx(FlattenSeq(parts))
    IN  [j \in DOMAIN back |-> results[back[j]]]
=============================================================================
