------------------------------ MODULE Sorting ------------------------------
(***************************************************************************)
(* What Python's list.sort and sum do for the algorithms: elements are put *)
(* in ascending order and equal ones stay in the order they had.  Written  *)
(* as recursive functions, and with an order that is a set of pairs, since *)
(* the provers know nothing of what TLC's SortSeq or a fold return.        *)
(***************************************************************************)
EXTENDS Integers, Sequences, SequencesExt, FiniteSetsExt

\* The first place in a sorted list with a larger element than x.
PlaceFor(sorted, x, less) ==
    Min({i \in 1..Len(sorted) : <<x, sorted[i]>> \in less} \cup {Len(sorted) + 1})

Insert(sorted, x, less) == InsertAt(sorted, PlaceFor(sorted, x, less), x)

\* less holds the pairs of which the first is the smaller one.
SortedBy(list, less) ==
    LET sort[n \in 0..Len(list)] ==
            IF n = 0 THEN <<>> ELSE Insert(sort[n - 1], list[n], less)
    IN  sort[Len(list)]

Sort(list, Less(_, _)) ==
    SortedBy(list, {xy \in ToSet(list) \X ToSet(list) : Less(xy[1], xy[2])})

Sum(numbers) ==
    LET sum[n \in 0..Len(numbers)] == IF n = 0 THEN 0 ELSE sum[n - 1] + numbers[n]
    IN  sum[Len(numbers)]
=============================================================================
