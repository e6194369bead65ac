-------------------------- MODULE AlgorithmsProofs --------------------------
(***************************************************************************)
(* Theorems about the pure algorithms: the invariants of Algorithms for    *)
(* inputs of any size.                                                     *)
(*                                                                         *)
(* Each is proved for every input first (the lemmas called ...Any): every  *)
(* batch of rows with whatever lengths, every batch of rollouts, every     *)
(* round of trajectories of one depth, every conversation and every dataset*)
(* of turns that are not empty.  The invariant of the specification,       *)
(* Inputs, only says that the inputs made so far are such inputs.          *)
(*                                                                         *)
(* Balancing: every state of the heap keeps its sets within Most of each   *)
(* other, and merging two states, largest with smallest, preserves that.   *)
(* Rows: a batch is a permutation of its rows at every stage.  Ranks: the  *)
(* number of micro batches is one for all, the rows of a rank are split,   *)
(* reordered and joined without loss.  Rewards: every part of the sum moves*)
(* one way.  Selection: the sort key orders a round's candidates strictly. *)
(* Fine tuning: RowOf and RowLaid say what each place of a row holds, and  *)
(* what is asked of a row is read off there.                               *)
(***************************************************************************)
EXTENDS Algorithms, SftDataProofs

(* The differencing method. *)

\* The tokens of some items.
Weight(ls, items) == Sum(Mapped(ls, items))

\* A set of the method: items, each once, and the sum of their lengths.
Sets(ls) ==
    {x \in [sum : Nat, items : Seq(1..Len(ls))] :
        Distinct(x.items) /\ x.sum = Weight(ls, x.items)}

\* No item is in two of the sets.
SetsApart(s) == \A p, q \in 1..Len(s) : p # q => ToSet(s[p].items) \cap ToSet(s[q].items) = {}
\* The items of a state.
ItemsOf(s) == UNION {ToSet(s[p].items) : p \in 1..Len(s)}
\* The sets of a state are sorted.
LargestFirst(s) == \A p, q \in 1..Len(s) : p < q => ~Larger(s[q], s[p])

\* No set is ahead of another by more than this.
Within(s, most) == \A p, q \in 1..Len(s) : s[p].sum - s[q].sum <= most

\* With equal sizes all sets have as many items; without, while some set has none,
\* none has two.
Even(s, equal) ==
    IF equal THEN \A p, q \in 1..Len(s) : Len(s[p].items) = Len(s[q].items)
    ELSE (\E p \in 1..Len(s) : s[p].items = <<>>) => \A p \in 1..Len(s) : Len(s[p].items) <= 1

\* The items of a state in its k sets: none in two, close, and even.
Divided(ls, s, k, most, equal) ==
    s \in Seq(Sets(ls)) /\ Len(s) = k /\ SetsApart(s) /\ Within(s, most) /\ Even(s, equal)

\* What a set of the method is.
LEMMA SetsTyped ==
    ASSUME NEW ls \in Seq(Nat), NEW x \in Sets(ls)
    PROVE  /\ x.sum \in Nat /\ x.items \in Seq(1..Len(ls)) /\ Len(x.items) \in Nat
           /\ Distinct(x.items) /\ x.sum = Weight(ls, x.items)
           /\ x = [sum |-> x.sum, items |-> x.items]
           /\ (x.items # <<>> => Len(x.items) > 0 /\ x.items[1] \in 1..Len(ls)
                                 /\ x.items[1] \in ToSet(x.items))
<1>1. /\ x.sum \in Nat /\ x.items \in Seq(1..Len(ls)) /\ Distinct(x.items)
      /\ x.sum = Weight(ls, x.items) /\ x = [sum |-> x.sum, items |-> x.items]
  BY DEF Sets
<1>2. Len(x.items) \in Nat /\ (x.items # <<>> => Len(x.items) > 0)
  BY <1>1, LenProperties, EmptySeq
<1>3. ASSUME x.items # <<>> PROVE x.items[1] \in 1..Len(ls) /\ x.items[1] \in ToSet(x.items)
  <2>1. 1 \in 1..Len(x.items)
    BY <1>2, <1>3
  <2>. QED
    BY <1>1, <2>1, ElementsType, ElementOfSeq
<1>. QED
  BY <1>1, <1>2, <1>3

\* The order in which the sets of a state are sorted.
LEMMA LargerIsWeak ==
    ASSUME NEW ls \in Seq(Nat), NEW x \in Sets(ls), NEW y \in Sets(ls), NEW z \in Sets(ls)
    PROVE  /\ ~(Larger(x, y) /\ Larger(y, x))
           /\ Larger(x, z) => Larger(x, y) \/ Larger(y, z)
           /\ Larger(x, y) /\ Larger(y, z) => Larger(x, z)
<1>. DEFINE F(v) == IF v.items = <<>> THEN 0 ELSE v.items[1]
            Big(v, w) == \/ v.sum > w.sum
                         \/ v.sum = w.sum /\ Len(v.items) > Len(w.items)
                         \/ v.sum = w.sum /\ Len(v.items) = Len(w.items) /\ F(v) > F(w)
<1>1. ASSUME NEW v \in Sets(ls)
      PROVE  /\ v.sum \in Nat /\ Len(v.items) \in Nat /\ F(v) \in Nat
             /\ v.items = <<>> <=> Len(v.items) = 0
             /\ v.items # <<>> => F(v) = v.items[1] /\ F(v) > 0
             /\ v.items = <<>> => F(v) = 0
  BY SetsTyped, EmptySeq, LenProperties
<1>2. ASSUME NEW v \in Sets(ls), NEW w \in Sets(ls) PROVE Larger(v, w) <=> Big(v, w)
  <2>1. CASE v.items = <<>>
    BY <1>1, <2>1 DEF Larger
  <2>2. CASE v.items # <<>>
    BY <1>1, <2>2 DEF Larger
  <2>. QED
    BY <2>1, <2>2
<1>3. /\ x.sum \in Nat /\ Len(x.items) \in Nat /\ F(x) \in Nat
      /\ y.sum \in Nat /\ Len(y.items) \in Nat /\ F(y) \in Nat
      /\ z.sum \in Nat /\ Len(z.items) \in Nat /\ F(z) \in Nat
  BY <1>1
<1>. HIDE DEF F
<1>4. /\ ~(Big(x, y) /\ Big(y, x))
      /\ Big(x, z) => Big(x, y) \/ Big(y, z)
      /\ Big(x, y) /\ Big(y, z) => Big(x, z)
  BY <1>3
<1>. QED
  BY <1>2, <1>4

\* Sorting the sets of a state changes nothing but their order.
LEMMA DecreasingState ==
    ASSUME NEW ls \in Seq(Nat), NEW k \in Nat, NEW most \in Int, NEW equal \in BOOLEAN,
           NEW u, Divided(ls, u, k, most, equal)
    PROVE  /\ Divided(ls, Decreasing(u), k, most, equal)
           /\ LargestFirst(Decreasing(u)) /\ ItemsOf(Decreasing(u)) = ItemsOf(u)
<1>. DEFINE T == ToSet(u)
            less == {xy \in T \X T : Larger(xy[1], xy[2])}
            v == SortedBy(u, less)
<1>1. Decreasing(u) = v
  BY DEF Decreasing, Sort
<1>2. u \in Seq(Sets(ls)) /\ Len(u) = k /\ T \subseteq Sets(ls) /\ u \in Seq(T)
  BY ElementsType DEF Divided
<1>3. Rearranged(u, v) /\ v \in Seq(Sets(ls)) /\ v \in Seq(T)
  BY <1>2, SortedRearranges, SortedType
<1>4. WeakOrder(less, T)
  <2>1. \A x, y \in T : <<x, y>> \in less <=> Larger(x, y)
    OBVIOUS
  <2>. HIDE DEF less, T
  <2>2. \A x, y, z \in T : /\ ~(Larger(x, y) /\ Larger(y, x))
                           /\ Larger(x, z) => Larger(x, y) \/ Larger(y, z)
    BY <1>2, LargerIsWeak
  <2>. QED
    BY <2>1, <2>2 DEF WeakOrder
<1>5. Ascends(v, less)
  BY <1>2, <1>4, SortedAscends
<1>6. Len(v) = k /\ ToSet(v) = T
  BY <1>2, <1>3 DEF Rearranged
<1>7. PICK pi : Places(u, v, pi)
  BY <1>3 DEF Rearranged
<1>8. /\ \A i \in 1..k : pi[i] \in 1..k /\ v[i] = u[pi[i]]
      /\ \A i, j \in 1..k : pi[i] = pi[j] => i = j
  BY <1>2, <1>7 DEF Places
<1>9. \A i \in 1..k : v[i] \in T
  BY <1>3, <1>6, ElementOfSeq
<1>. HIDE DEF v
<1>10. LargestFirst(v)
  <2>1. SUFFICES ASSUME NEW p \in 1..k, NEW q \in 1..k, p < q PROVE ~Larger(v[q], v[p])
    BY <1>6 DEF LargestFirst
  <2>2. <<v[q], v[p]>> \notin less
    BY <1>5, <1>6, <2>1 DEF Ascends
  <2>. QED
    BY <1>9, <2>2
<1>. HIDE DEF less
<1>11. SetsApart(v)
  <2>1. SUFFICES ASSUME NEW p \in 1..k, NEW q \in 1..k, p # q
                 PROVE  ToSet(v[p].items) \cap ToSet(v[q].items) = {}
    BY <1>6 DEF SetsApart
  <2>2. pi[p] \in 1..Len(u) /\ pi[q] \in 1..Len(u) /\ pi[p] # pi[q]
    BY <1>2, <1>8, <2>1
  <2>3. ToSet(u[pi[p]].items) \cap ToSet(u[pi[q]].items) = {}
    BY <2>2 DEF Divided, SetsApart
  <2>. QED
    BY <1>8, <2>3
<1>12. Within(v, most)
  BY <1>2, <1>6, <1>8 DEF Within, Divided
<1>13. Even(v, equal)
  <2>1. CASE equal
    BY <1>2, <1>6, <1>8, <2>1 DEF Even, Divided
  <2>2. CASE ~equal
    <3>1. SUFFICES ASSUME NEW p \in 1..k, v[p].items = <<>>, NEW q \in 1..k
                   PROVE  Len(v[q].items) <= 1
      BY <1>6, <2>2 DEF Even
    <3>2. pi[p] \in 1..Len(u) /\ pi[q] \in 1..Len(u) /\ u[pi[p]].items = <<>>
      BY <1>2, <1>8, <3>1
    <3>3. Len(u[pi[q]].items) <= 1
      BY <2>2, <3>2 DEF Divided, Even
    <3>. QED
      BY <1>8, <3>3
  <2>. QED
    BY <2>1, <2>2
<1>14. ItemsOf(v) = UNION {ToSet(x.items) : x \in ToSet(v)}
  BY <1>3, <1>6, LenProperties DEF ItemsOf, ToSet
<1>15. ItemsOf(u) = UNION {ToSet(x.items) : x \in ToSet(u)}
  BY <1>2, LenProperties DEF ItemsOf, ToSet
<1>16. ItemsOf(v) = ItemsOf(u)
  BY <1>6, <1>14, <1>15
<1>17. Divided(ls, v, k, most, equal)
  BY <1>3, <1>6, <1>11, <1>12, <1>13 DEF Divided
<1>. QED
  BY <1>1, <1>10, <1>16, <1>17

\* A state of the heap.
IsState(ls, s, k, most, equal) ==
    Divided(ls, s, k, most, equal) /\ LargestFirst(s) /\ ItemsOf(s) # {}

\* No items have no tokens.
LEMMA ZeroWeight == \A ls : Weight(ls, <<>>) = 0
BY MappedEmpty, SumEmpty DEF Weight

\* One item has its tokens.
LEMMA OneWeight ==
    ASSUME NEW ls \in Seq(Nat), NEW i \in 1..Len(ls)
    PROVE  Weight(ls, <<i>>) = ls[i]
<1>1. Append(<<>>, ls[i]) = <<ls[i]>> /\ <<>> \in Seq(Int) /\ ls[i] \in Int
  BY ElementOfSeq, EmptySeq, AppendIsConcat, ConcatEmptySeq
<1>2. Mapped(ls, <<i>>) = <<ls[i]>>
  BY DEF Mapped
<1>3. Sum(Append(<<>>, ls[i])) = Sum(<<>>) + ls[i]
  BY <1>1, SumAppend
<1>. QED
  BY <1>1, <1>2, <1>3, SumEmpty DEF Weight

\* The sets a state begins with.
LEMMA FirstSets ==
    ASSUME NEW ls \in Seq(Nat)
    PROVE  EmptySet \in Sets(ls) /\ \A i \in 1..Len(ls) : SetOf(ls, i) \in Sets(ls)
<1>1. EmptySet \in Sets(ls)
  <2>1. <<>> \in Seq(1..Len(ls)) /\ Distinct(<<>>)
    BY EmptySeq DEF Distinct
  <2>. QED
    BY <2>1, ZeroWeight DEF EmptySet, Sets
<1>2. ASSUME NEW i \in 1..Len(ls) PROVE SetOf(ls, i) \in Sets(ls)
  <2>1. <<i>> \in Seq(1..Len(ls)) /\ Distinct(<<i>>) /\ ls[i] \in Nat
    BY ElementOfSeq DEF Distinct
  <2>. QED
    BY <2>1, OneWeight DEF SetOf, Sets
<1>. QED
  BY <1>1, <1>2

\* The tokens of two lists of items together.
LEMMA WeightJoined ==
    ASSUME NEW ls \in Seq(Nat), NEW a \in Seq(1..Len(ls)), NEW b \in Seq(1..Len(ls))
    PROVE  Weight(ls, a \o b) = Weight(ls, a) + Weight(ls, b)
<1>1. Mapped(ls, a \o b) = Mapped(ls, a) \o Mapped(ls, b)
  BY MappedJoined
<1>2. ls \in [1..Len(ls) -> Int]
  BY LenProperties
<1>3. Mapped(ls, a) \in Seq(Int) /\ Mapped(ls, b) \in Seq(Int)
  BY <1>2, MappedType
<1>. QED
  BY <1>1, <1>3, SumJoined DEF Weight

\* Different items with their tokens are a set of the method.
LEMMA IsASet ==
    ASSUME NEW ls, NEW items \in Seq(1..Len(ls)), Distinct(items), NEW w \in Nat,
           w = Weight(ls, items)
    PROVE  [sum |-> w, items |-> items] \in Sets(ls)
BY DEF Sets

\* The merged set holds what both held.
HoldsBoth(z, x, y) ==
    /\ z.sum = x.sum + y.sum
    /\ ToSet(z.items) = ToSet(x.items) \cup ToSet(y.items)
    /\ Len(z.items) = Len(x.items) + Len(y.items)

\* Merging two sets without a common item.
LEMMA MergedSets ==
    ASSUME NEW ls \in Seq(Nat), NEW x \in Sets(ls), NEW y \in Sets(ls),
           ToSet(x.items) \cap ToSet(y.items) = {}
    PROVE  SetMerged(x, y) \in Sets(ls) /\ HoldsBoth(SetMerged(x, y), x, y)
<1>. DEFINE I == 1..Len(ls)
            a == x.items
            b == y.items
<1>1. /\ a \in Seq(I) /\ b \in Seq(I) /\ Distinct(a) /\ Distinct(b)
      /\ x.sum \in Nat /\ y.sum \in Nat /\ x.sum = Weight(ls, a) /\ y.sum = Weight(ls, b)
  BY SetsTyped
<1>2. /\ SetMerged(x, y) = [sum |-> x.sum + y.sum, items |-> a \o b]
      /\ SetMerged(x, y).sum = x.sum + y.sum /\ SetMerged(x, y).items = a \o b
  BY DEF SetMerged
<1>. HIDE DEF I, a, b
<1>3. a \o b \in Seq(I) /\ Len(a \o b) = Len(a) + Len(b)
  BY <1>1, ConcatProperties
<1>4. ToSet(a \o b) = ToSet(a) \cup ToSet(b)
  BY <1>1, ElementsJoined
<1>5. Distinct(a \o b)
  <2>1. ToSet(a) \cap ToSet(b) = {}
    BY DEF a, b
  <2>. QED
    BY <1>1, <2>1, DistinctJoined
<1>6. Weight(ls, a \o b) = x.sum + y.sum
  BY <1>1, WeightJoined DEF I
<1>7. SetMerged(x, y) \in Sets(ls)
  <2>. DEFINE c == a \o b
  <2>1. c \in Seq(1..Len(ls)) /\ Distinct(c) /\ x.sum + y.sum \in Nat
        /\ x.sum + y.sum = Weight(ls, c)
    BY <1>1, <1>3, <1>5, <1>6 DEF I
  <2>. HIDE DEF c
  <2>2. [sum |-> x.sum + y.sum, items |-> c] \in Sets(ls)
    BY <2>1, IsASet
  <2>. QED
    BY <1>2, <2>2 DEF c
<1>. QED
  BY <1>2, <1>3, <1>4, <1>7 DEF a, b, HoldsBoth

\* A sequence of one element.
LEMMA OneElement == \A x : ToSet(<<x>>) = {x} /\ Len(<<x>>) = 1
BY DEF ToSet

\* How many items a first state has, and by how much its sets may differ.
Sized(items, k, equal) == IF equal THEN Len(items) = k ELSE Len(items) = 1
\* No two rows differ by more than most; without equal sizes none has more.
FitsMost(ls, most, equal) ==
    /\ \A i, j \in 1..Len(ls) : ls[i] - ls[j] <= most
    /\ equal \/ \A i \in 1..Len(ls) : ls[i] <= most

\* The first states: an item in each of the first sets.
LEMMA NewStateDivided ==
    ASSUME NEW ls \in Seq(Nat), NEW k \in Nat, NEW most \in Int, NEW equal \in BOOLEAN,
           NEW items \in Seq(1..Len(ls)), Distinct(items), items # <<>>,
           Len(items) <= k, Sized(items, k, equal), FitsMost(ls, most, equal)
    PROVE  /\ IsState(ls, NewState(ls, items, k), k, most, equal)
           /\ ItemsOf(NewState(ls, items, k)) = ToSet(items)
<1>. DEFINE n == Len(ls)
            m == Len(items)
            u == [i \in 1..k |-> IF i <= m THEN SetOf(ls, items[i]) ELSE EmptySet]
<1>0. /\ IF equal THEN m = k ELSE m = 1
      /\ \A i, j \in 1..n : ls[i] - ls[j] <= most
      /\ equal \/ \A i \in 1..n : ls[i] <= most
  BY DEF Sized, FitsMost
<1>1. NewState(ls, items, k) = Decreasing(u)
  BY DEF NewState
<1>2. n \in Nat /\ m \in 1..k /\ \A i \in 1..m : items[i] \in 1..n
  BY LenProperties, EmptySeq, ElementOfSeq
<1>3. \A i \in 1..n : ls[i] \in Nat
  BY ElementOfSeq
<1>4. \A i \in 1..m : u[i] = SetOf(ls, items[i])
  BY <1>2
<1>5. \A i \in 1..k : i > m => u[i] = EmptySet
  BY <1>2
<1>6. \A i \in 1..k : i \in 1..m \/ i > m
  BY <1>2
<1>7. /\ \A i \in 1..m : u[i].items = <<items[i]>> /\ u[i].sum = ls[items[i]]
      /\ \A i \in 1..k : i > m => u[i].items = <<>> /\ u[i].sum = 0
  BY <1>4, <1>5 DEF SetOf, EmptySet
<1>8. u \in Seq(Sets(ls)) /\ Len(u) = k
  <2>1. \A i \in 1..k : u[i] \in Sets(ls)
    BY <1>2, <1>4, <1>5, <1>6, FirstSets
  <2>. QED
    BY <2>1
<1>. HIDE DEF u, m, n
<1>9. \A i \in 1..m : ToSet(u[i].items) = {items[i]} /\ Len(u[i].items) = 1
  BY <1>7, OneElement
<1>10. \A i \in 1..k : i > m => ToSet(u[i].items) = {} /\ Len(u[i].items) = 0
  BY <1>7, ElementsEmpty, EmptySeq
<1>11. SetsApart(u)
  <2>1. SUFFICES ASSUME NEW p \in 1..k, NEW q \in 1..k, p # q
                 PROVE  ToSet(u[p].items) \cap ToSet(u[q].items) = {}
    BY <1>8 DEF SetsApart
  <2>2. CASE p \in 1..m /\ q \in 1..m
    <3>1. items[p] # items[q]
      BY <2>1, <2>2 DEF Distinct, m
    <3>. QED
      BY <1>9, <2>2, <3>1
  <2>3. CASE p > m \/ q > m
    BY <1>10, <2>3
  <2>. QED
    BY <1>6, <2>2, <2>3
<1>12. Within(u, most)
  <2>1. SUFFICES ASSUME NEW p \in 1..k, NEW q \in 1..k
                 PROVE  u[p].sum - u[q].sum <= most
    BY <1>8 DEF Within
  <2>2. 0 <= most
    <3>1. items[1] \in 1..n /\ 1 \in 1..m
      BY <1>2
    <3>2. ls[items[1]] - ls[items[1]] <= most /\ ls[items[1]] \in Nat
      BY <1>0, <1>3, <3>1
    <3>. QED
      BY <3>2
  <2>3. CASE p \in 1..m /\ q \in 1..m
    BY <1>0, <1>2, <1>7, <2>3
  <2>4. CASE p \in 1..m /\ q > m
    <3>1. m # k
      BY <1>2, <2>4
    <3>2. ~equal
      BY <1>0, <3>1
    <3>3. ls[items[p]] <= most /\ ls[items[p]] \in Nat
      BY <1>0, <1>2, <1>3, <2>4, <3>2
    <3>. QED
      BY <1>7, <2>4, <3>3
  <2>5. CASE p > m /\ q \in 1..m
    <3>1. ls[items[q]] \in Nat
      BY <1>2, <1>3, <2>5
    <3>2. u[p].sum = 0 /\ u[q].sum = ls[items[q]]
      BY <1>7, <2>5
    <3>. QED
      BY <2>2, <3>1, <3>2
  <2>6. CASE p > m /\ q > m
    BY <1>7, <2>2, <2>6
  <2>. QED
    BY <1>6, <2>3, <2>4, <2>5, <2>6
<1>13. Even(u, equal)
  <2>1. CASE equal
    <3>1. m = k
      BY <1>0, <2>1
    <3>. QED
      BY <1>8, <1>9, <2>1, <3>1 DEF Even
  <2>2. CASE ~equal
    <3>1. ASSUME NEW p \in 1..k PROVE Len(u[p].items) <= 1
      <4>1. CASE p \in 1..m
        <5>1. Len(u[p].items) = 1
          BY ONLY <1>9, <4>1
        <5>. QED
          BY <5>1
      <4>2. CASE p > m
        BY <1>10, <4>2
      <4>. QED
        BY <1>6, <4>1, <4>2
    <3>. QED
      BY <1>8, <2>2, <3>1 DEF Even
  <2>. QED
    BY <2>1, <2>2
<1>14. ItemsOf(u) = ToSet(items)
  <2>1. ToSet(items) = {items[i] : i \in 1..m}
    BY LenProperties DEF ToSet, m
  <2>2. ItemsOf(u) = UNION {ToSet(u[p].items) : p \in 1..k}
    BY <1>8 DEF ItemsOf
  <2>3. ASSUME NEW x \in ItemsOf(u) PROVE x \in ToSet(items)
    <3>1. PICK p \in 1..k : x \in ToSet(u[p].items)
      BY <2>2
    <3>. QED
      BY <1>6, <1>9, <1>10, <2>1, <3>1
  <2>4. ASSUME NEW x \in ToSet(items) PROVE x \in ItemsOf(u)
    <3>1. PICK i \in 1..m : x = items[i]
      BY <2>1
    <3>2. i \in 1..k
      BY <1>2
    <3>3. x \in ToSet(u[i].items)
      BY <1>9, <3>1
    <3>. QED
      BY <2>2, <3>2, <3>3
  <2>. QED
    BY <2>3, <2>4
<1>15. Divided(ls, u, k, most, equal)
  BY <1>8, <1>11, <1>12, <1>13 DEF Divided
<1>16. /\ Divided(ls, Decreasing(u), k, most, equal)
       /\ LargestFirst(Decreasing(u)) /\ ItemsOf(Decreasing(u)) = ItemsOf(u)
  BY <1>15, DecreasingState
<1>17. ToSet(items) # {}
  <2>1. 1 \in 1..m
    BY <1>2
  <2>. QED
    BY <2>1, ElementsType DEF m
<1>. QED
  BY <1>1, <1>14, <1>16, <1>17 DEF IsState
-----------------------------------------------------------------------------
\* A set that comes later is not larger; after one without items none has any.
LEMMA LaterSets ==
    ASSUME NEW ls \in Seq(Nat), NEW k, NEW most, NEW equal, NEW s,
           IsState(ls, s, k, most, equal),
           NEW p \in 1..k, NEW q \in 1..k, p < q
    PROVE  s[q].sum <= s[p].sum /\ (s[p].items = <<>> => s[q].items = <<>>)
<1>1. ~Larger(s[q], s[p])
  BY DEF IsState, LargestFirst, Divided
<1>2. s[p] \in Sets(ls) /\ s[q] \in Sets(ls)
  BY ElementOfSeq DEF IsState, Divided
<1>3. /\ s[p].sum \in Nat /\ s[q].sum \in Nat /\ Len(s[q].items) \in Nat
      /\ (s[q].items # <<>> => Len(s[q].items) > 0) /\ s[p].sum = Weight(ls, s[p].items)
  BY <1>2, SetsTyped
<1>4. s[q].sum <= s[p].sum
  BY <1>1, <1>3 DEF Larger
<1>5. ASSUME s[p].items = <<>> PROVE s[q].items = <<>>
  <2>1. s[p].sum = 0 /\ Len(s[p].items) = 0
    BY <1>3, <1>5, ZeroWeight, EmptySeq
  <2>. QED
    BY <1>1, <1>3, <2>1 DEF Larger
<1>. QED
  BY <1>4, <1>5

\* Two numbers that add up to zero.
LEMMA BothZero == \A x, y \in Nat : x + y = 0 => x = 0 /\ y = 0
OBVIOUS

\* Merging the largest with the smallest keeps the sets as close, and as even.
LEMMA MergedState ==
    ASSUME NEW ls \in Seq(Nat), NEW k \in Nat \ {0}, NEW most \in Int, NEW equal \in BOOLEAN,
           NEW a, IsState(ls, a, k, most, equal), NEW b, IsState(ls, b, k, most, equal),
           ItemsOf(a) \cap ItemsOf(b) = {}
    PROVE  /\ IsState(ls, Merged(a, b), k, most, equal)
           /\ ItemsOf(Merged(a, b)) = ItemsOf(a) \cup ItemsOf(b)
<1>. DEFINE u == [i \in DOMAIN a |-> SetMerged(a[i], b[Len(b) + 1 - i])]
<1>1. Merged(a, b) = Decreasing(u)
  BY DEF Merged
<1>2. /\ a \in Seq(Sets(ls)) /\ Len(a) = k /\ b \in Seq(Sets(ls)) /\ Len(b) = k
      /\ DOMAIN a = 1..k /\ ItemsOf(a) # {}
      /\ \A i \in 1..k : a[i] \in Sets(ls) /\ b[i] \in Sets(ls)
  BY LenProperties, ElementOfSeq DEF IsState, Divided
<1>3. \A i \in 1..k : k + 1 - i \in 1..k
  OBVIOUS
<1>4. /\ \A i \in 1..k : ToSet(a[i].items) \subseteq ItemsOf(a)
      /\ \A i \in 1..k : ToSet(b[i].items) \subseteq ItemsOf(b)
  BY <1>2 DEF ItemsOf
<1>5. /\ DOMAIN u = 1..k
      /\ \A i \in 1..k : u[i] = SetMerged(a[i], b[k + 1 - i])
  BY <1>2
<1>. HIDE DEF u
<1>6. ASSUME NEW i \in 1..k
      PROVE  /\ u[i] \in Sets(ls) /\ u[i].sum = a[i].sum + b[k + 1 - i].sum
             /\ ToSet(u[i].items) = ToSet(a[i].items) \cup ToSet(b[k + 1 - i].items)
             /\ Len(u[i].items) = Len(a[i].items) + Len(b[k + 1 - i].items)
  <2>. DEFINE x == a[i]
              y == b[k + 1 - i]
  <2>1. x \in Sets(ls) /\ y \in Sets(ls) /\ ToSet(x.items) \cap ToSet(y.items) = {}
    BY <1>2, <1>3, <1>4
  <2>2. u[i] = SetMerged(x, y)
    BY <1>5
  <2>. HIDE DEF x, y
  <2>3. SetMerged(x, y) \in Sets(ls) /\ HoldsBoth(SetMerged(x, y), x, y)
    BY <2>1, MergedSets
  <2>4. /\ u[i] \in Sets(ls) /\ u[i].sum = x.sum + y.sum
        /\ ToSet(u[i].items) = ToSet(x.items) \cup ToSet(y.items)
        /\ Len(u[i].items) = Len(x.items) + Len(y.items)
    BY <2>2, <2>3 DEF HoldsBoth
  <2>. QED
    BY <2>4 DEF x, y
<1>7. u \in Seq(Sets(ls)) /\ Len(u) = k
  <2>1. u = [i \in 1..k |-> u[i]]
    BY <1>5 DEF u
  <2>2. u \in [1..k -> Sets(ls)]
    BY <1>6, <2>1
  <2>. QED
    BY <2>2, SeqDef, LenProperties, <1>5
<1>8. SetsApart(u)
  <2>1. SUFFICES ASSUME NEW p \in 1..k, NEW q \in 1..k, p # q
                 PROVE  ToSet(u[p].items) \cap ToSet(u[q].items) = {}
    BY <1>7 DEF SetsApart
  <2>2. ToSet(a[p].items) \cap ToSet(a[q].items) = {}
    BY <1>2, <2>1 DEF IsState, Divided, SetsApart
  <2>3. k + 1 - p \in 1..Len(b) /\ k + 1 - q \in 1..Len(b) /\ k + 1 - p # k + 1 - q
    BY <1>2, <2>1
  <2>4. ToSet(b[k + 1 - p].items) \cap ToSet(b[k + 1 - q].items) = {}
    BY <2>3 DEF IsState, Divided, SetsApart
  <2>5. /\ ToSet(a[p].items) \cap ToSet(b[k + 1 - q].items) = {}
        /\ ToSet(a[q].items) \cap ToSet(b[k + 1 - p].items) = {}
    BY <1>3, <1>4
  <2>6. /\ ToSet(u[p].items) = ToSet(a[p].items) \cup ToSet(b[k + 1 - p].items)
        /\ ToSet(u[q].items) = ToSet(a[q].items) \cup ToSet(b[k + 1 - q].items)
    BY <1>6
  <2>. QED
    BY <2>2, <2>4, <2>5, <2>6
<1>9. \A i \in 1..k : a[i].sum \in Nat /\ b[i].sum \in Nat /\ Len(a[i].items) \in Nat /\ Len(b[i].items) \in Nat
  BY <1>2, SetsTyped
<1>10. /\ \A p, q \in 1..k : a[p].sum - a[q].sum <= most
       /\ \A p, q \in 1..k : b[p].sum - b[q].sum <= most
  BY <1>2 DEF IsState, Divided, Within
<1>11. Within(u, most)
  <2>1. SUFFICES ASSUME NEW p \in 1..k, NEW q \in 1..k
                 PROVE  u[p].sum - u[q].sum <= most
    BY <1>7 DEF Within
  <2>. DEFINE v == k + 1 - p
              w == k + 1 - q
  <2>2. v \in 1..k /\ w \in 1..k /\ (p < q => w < v) /\ (q < p => v < w) /\ (p = q => v = w)
    OBVIOUS
  <2>3. u[p].sum = a[p].sum + b[v].sum /\ u[q].sum = a[q].sum + b[w].sum
    BY <1>6
  <2>. HIDE DEF v, w
  <2>4. CASE p < q
    <3>1. b[v].sum <= b[w].sum
      BY <2>2, <2>4, LaterSets
    <3>. QED
      BY <1>9, <1>10, <2>2, <2>3, <3>1
  <2>5. CASE q < p
    <3>1. a[p].sum <= a[q].sum
      BY <2>5, LaterSets
    <3>. QED
      BY <1>9, <1>10, <2>2, <2>3, <3>1
  <2>6. CASE p = q
    BY <1>9, <1>10, <2>2, <2>3, <2>6
  <2>. QED
    BY <2>4, <2>5, <2>6
<1>12. Even(u, equal)
  <2>1. CASE equal
    <3>1. SUFFICES ASSUME NEW p \in 1..k, NEW q \in 1..k
                   PROVE  Len(u[p].items) = Len(u[q].items)
      BY <1>7, <2>1 DEF Even
    <3>2. /\ Len(a[p].items) = Len(a[q].items)
          /\ Len(b[k + 1 - p].items) = Len(b[k + 1 - q].items)
      BY <1>2, <1>3, <2>1 DEF IsState, Divided, Even
    <3>. QED
      BY <1>6, <3>2
  <2>2. CASE ~equal
    <3>1. SUFFICES ASSUME NEW p \in 1..k, u[p].items = <<>>, NEW q \in 1..k
                   PROVE  Len(u[q].items) <= 1
      BY <1>7, <2>2 DEF Even
    <3>. DEFINE v == k + 1 - p
                w == k + 1 - q
    <3>2. v \in 1..k /\ w \in 1..k /\ (p < q => w < v) /\ (q < p => v < w) /\ (p = q => v = w)
      OBVIOUS
    <3>3. Len(u[p].items) = Len(a[p].items) + Len(b[v].items)
      BY <1>6
    <3>4. Len(u[q].items) = Len(a[q].items) + Len(b[w].items)
      BY <1>6
    <3>. HIDE DEF v, w
    <3>5. Len(u[p].items) = 0
      BY <3>1, EmptySeq
    <3>6. Len(a[p].items) = 0 /\ Len(b[v].items) = 0
      <4>1. Len(a[p].items) \in Nat /\ Len(b[v].items) \in Nat
        BY <1>9, <3>2
      <4>2. Len(a[p].items) + Len(b[v].items) = 0
        BY ONLY <3>3, <3>5
      <4>. QED
        BY <4>1, <4>2, BothZero
    <3>7. a[p].items = <<>> /\ b[v].items = <<>>
      BY <1>2, <3>2, <3>6, SetsTyped
    <3>8. /\ \A i \in 1..k : Len(a[i].items) <= 1
          /\ \A i \in 1..k : Len(b[i].items) <= 1
      BY <1>2, <2>2, <3>2, <3>7 DEF IsState, Divided, Even
    <3>9. CASE p <= q
      <4>1. a[q].items = <<>>
        <5>1. CASE p = q
          BY <3>7, <5>1
        <5>2. CASE p < q
          BY <3>7, <5>2, LaterSets
        <5>. QED
          BY <3>9, <5>1, <5>2
      <4>2. Len(a[q].items) = 0
        BY <4>1, EmptySeq
      <4>. QED
        BY <1>9, <3>2, <3>4, <3>8, <4>2
    <3>10. CASE q < p
      <4>1. b[w].items = <<>>
        BY <3>2, <3>7, <3>10, LaterSets
      <4>2. Len(b[w].items) = 0
        BY <4>1, EmptySeq
      <4>. QED
        BY <1>9, <3>2, <3>4, <3>8, <4>2
    <3>. QED
      BY <3>9, <3>10
  <2>. QED
    BY <2>1, <2>2
<1>13. ItemsOf(u) = ItemsOf(a) \cup ItemsOf(b)
  <2>1. /\ ItemsOf(u) = UNION {ToSet(u[p].items) : p \in 1..k}
        /\ ItemsOf(a) = UNION {ToSet(a[p].items) : p \in 1..k}
        /\ ItemsOf(b) = UNION {ToSet(b[p].items) : p \in 1..k}
    BY <1>2, <1>7 DEF ItemsOf
  <2>2. \A p \in 1..k : ToSet(u[p].items) = ToSet(a[p].items) \cup ToSet(b[k + 1 - p].items)
    BY <1>6
  <2>3. \A p \in 1..k : k + 1 - (k + 1 - p) = p
    OBVIOUS
  <2>4. ASSUME NEW x \in ItemsOf(u) PROVE x \in ItemsOf(a) \cup ItemsOf(b)
    BY <1>3, <2>1, <2>2
  <2>5. ASSUME NEW x \in ItemsOf(a) PROVE x \in ItemsOf(u)
    BY <2>1, <2>2
  <2>6. ASSUME NEW x \in ItemsOf(b) PROVE x \in ItemsOf(u)
    <3>1. PICK p \in 1..k : x \in ToSet(b[p].items)
      BY <2>1
    <3>2. k + 1 - p \in 1..k /\ k + 1 - (k + 1 - p) = p
      BY <1>3, <2>3
    <3>3. x \in ToSet(u[k + 1 - p].items)
      BY <2>2, <3>1, <3>2
    <3>. QED
      BY <2>1, <3>2, <3>3
  <2>. QED
    BY <2>4, <2>5, <2>6
<1>14. Divided(ls, u, k, most, equal)
  BY <1>7, <1>8, <1>11, <1>12 DEF Divided
<1>15. /\ Divided(ls, Decreasing(u), k, most, equal)
       /\ LargestFirst(Decreasing(u)) /\ ItemsOf(Decreasing(u)) = ItemsOf(u)
  BY <1>14, DecreasingState
<1>. QED
  BY <1>1, <1>2, <1>13, <1>15 DEF IsState

\* The heap: states of different items.
States(ls, k, most, equal, H) ==
    /\ IsFiniteSet(H)
    /\ \A s \in H : IsState(ls, s, k, most, equal)
    /\ \A s, t \in H : s # t => ItemsOf(s) \cap ItemsOf(t) = {}
\* A heap that holds every item.
Heap(ls, k, most, equal, H) ==
    States(ls, k, most, equal, H) /\ H # {} /\ UNION {ItemsOf(s) : s \in H} = 1..Len(ls)

\* The largest set of a state has an item, and its first item tells it apart.
LEMMA LargestHasItems ==
    ASSUME NEW ls \in Seq(Nat), NEW k \in Nat \ {0}, NEW most, NEW equal,
           NEW s, IsState(ls, s, k, most, equal)
    PROVE  /\ s[1] \in Sets(ls) /\ s[1].items # <<>> /\ s[1].items[1] \in ItemsOf(s)
           /\ Spread(s) \in Int
<1>1. s \in Seq(Sets(ls)) /\ Len(s) = k /\ ItemsOf(s) # {}
  BY DEF IsState, Divided
<1>2. 1 \in 1..k /\ k \in 1..k
  OBVIOUS
<1>3. s[1] \in Sets(ls) /\ s[k] \in Sets(ls)
  BY <1>1, <1>2, ElementOfSeq
<1>4. ItemsOf(s) = UNION {ToSet(s[p].items) : p \in 1..k}
  BY <1>1 DEF ItemsOf
<1>5. s[1].items # <<>>
  <2>1. SUFFICES ASSUME s[1].items = <<>> PROVE FALSE
    OBVIOUS
  <2>2. ASSUME NEW p \in 1..k PROVE ToSet(s[p].items) = {}
    <3>1. s[p].items = <<>>
      <4>1. CASE p = 1
        BY <2>1, <4>1
      <4>2. CASE 1 < p
        BY <1>2, <2>1, <4>2, LaterSets
      <4>. QED
        BY <4>1, <4>2
    <3>. QED
      BY <3>1, ElementsEmpty
  <2>3. PICK x \in ItemsOf(s) : TRUE
    BY <1>1
  <2>4. PICK p \in 1..k : x \in ToSet(s[p].items)
    BY <1>4, <2>3
  <2>. QED
    BY <2>2, <2>4
<1>6. s[1].items[1] \in ToSet(s[1].items)
  BY <1>3, <1>5, SetsTyped
<1>7. Spread(s) \in Int
  <2>1. s[1].sum \in Nat /\ s[k].sum \in Nat
    BY <1>3, SetsTyped
  <2>. QED
    BY <1>1, <2>1 DEF Spread, Last
<1>. QED
  BY <1>2, <1>3, <1>4, <1>5, <1>6, <1>7

\* heapq finds a first state: any two differ in what they are compared by.
LEMMA PoppedInOrder ==
    ASSUME NEW ls \in Seq(Nat), NEW k \in Nat \ {0}, NEW most, NEW equal, NEW H,
           States(ls, k, most, equal, H)
    PROVE  StrictOrder({xy \in H \X H : Popped(xy[1], xy[2])}, H)
<1>. DEFINE less == {xy \in H \X H : Popped(xy[1], xy[2])}
<1>1. \A x, y \in H : <<x, y>> \in less <=> Popped(x, y)
  OBVIOUS
<1>. HIDE DEF less
<1>2. ASSUME NEW s \in H
      PROVE  /\ s[1] \in Sets(ls) /\ s[1].items # <<>> /\ s[1].items[1] \in ItemsOf(s)
             /\ Spread(s) \in Int
  <2>1. IsState(ls, s, k, most, equal)
    BY DEF States
  <2>. QED
    BY <2>1, LargestHasItems
<1>3. ASSUME NEW x \in H, NEW y \in H, NEW z \in H, Popped(x, y), Popped(y, z)
      PROVE  Popped(x, z)
  <2>1. Larger(x[1], y[1]) /\ Larger(y[1], z[1]) => Larger(x[1], z[1])
    BY <1>2, LargerIsWeak
  <2>2. Spread(x) \in Int /\ Spread(y) \in Int /\ Spread(z) \in Int
    BY <1>2
  <2>. QED
    BY <1>3, <2>1, <2>2 DEF Popped
<1>4. ASSUME NEW x \in H, NEW y \in H, x # y PROVE Popped(x, y) \/ Popped(y, x)
  <2>1. ItemsOf(x) \cap ItemsOf(y) = {}
    BY <1>4 DEF States
  <2>. DEFINE a == x[1]
              b == y[1]
  <2>2. /\ a \in Sets(ls) /\ b \in Sets(ls) /\ a.items # <<>> /\ b.items # <<>>
        /\ a.items[1] # b.items[1]
    BY <1>2, <2>1
  <2>. HIDE DEF a, b
  <2>3. /\ a.sum \in Nat /\ b.sum \in Nat /\ Len(a.items) \in Nat /\ Len(b.items) \in Nat
        /\ a.items[1] \in 1..Len(ls) /\ b.items[1] \in 1..Len(ls)
    BY <2>2, SetsTyped
  <2>4. Len(ls) \in Nat
    BY LenProperties
  <2>5. Larger(a, b) \/ Larger(b, a)
    BY <2>2, <2>3, <2>4 DEF Larger
  <2>6. Spread(x) \in Int /\ Spread(y) \in Int
    BY <1>2
  <2>. QED
    BY <2>5, <2>6 DEF Popped, a, b
<1>5. StrictOrder(less, H)
  BY <1>1, <1>3, <1>4 DEF StrictOrder
<1>. QED
  BY <1>5 DEF less

\* The first state is one of the heap.
LEMMA FirstState ==
    ASSUME NEW ls \in Seq(Nat), NEW k \in Nat \ {0}, NEW most, NEW equal, NEW H,
           States(ls, k, most, equal, H), H # {}
    PROVE  First(H) \in H
<1>. DEFINE less == {xy \in H \X H : Popped(xy[1], xy[2])}
<1>1. StrictOrder(less, H) /\ IsFiniteSet(H)
  BY PoppedInOrder DEF States
<1>2. \A x, y \in H : <<x, y>> \in less <=> Popped(x, y)
  OBVIOUS
<1>. HIDE DEF less
<1>3. PICK x \in H : \A y \in H \ {x} : <<x, y>> \in less
  BY <1>1, FirstOf
<1>4. \A y \in H \ {x} : Popped(x, y)
  BY <1>2, <1>3
<1>. QED
  BY <1>4 DEF First

\* Two states of the heap are replaced by one.
LEMMA MergedTwo ==
    ASSUME NEW ls \in Seq(Nat), NEW k \in Nat \ {0}, NEW most \in Int, NEW equal \in BOOLEAN,
           NEW H, Heap(ls, k, most, equal, H), Cardinality(H) > 1
    PROVE  /\ Heap(ls, k, most, equal, MergeTwo(H))
           /\ Cardinality(MergeTwo(H)) = Cardinality(H) - 1
<1>. DEFINE a == First(H)
            b == First(H \ {a})
            m == Merged(a, b)
            R == (H \ {a}) \ {b}
<1>1. States(ls, k, most, equal, H) /\ IsFiniteSet(H) /\ Cardinality(H) \in Nat
  BY FS_CardinalityType DEF Heap, States
<1>2. a \in H
  BY <1>1, FirstState DEF Heap
<1>3. /\ IsFiniteSet(H \ {a}) /\ Cardinality(H \ {a}) = Cardinality(H) - 1
  BY <1>1, <1>2, FS_RemoveElement
<1>4. H \ {a} # {}
  BY <1>1, <1>3, FS_EmptySet
<1>5. States(ls, k, most, equal, H \ {a})
  BY <1>1, <1>3 DEF States
<1>6. b \in H \ {a}
  BY <1>4, <1>5, FirstState
<1>7. IsFiniteSet(R) /\ Cardinality(R) = Cardinality(H) - 2 /\ Cardinality(H) \in Nat
  <2>. DEFINE V == H \ {a}
  <2>. HIDE DEF V
  <2>0. IsFiniteSet(V) /\ b \in V
    BY <1>3, <1>6 DEF V
  <2>1. IsFiniteSet(V \ {b}) /\ Cardinality(V \ {b}) = Cardinality(V) - 1
    BY <2>0, FS_RemoveElement
  <2>2. R = V \ {b}
    BY DEF V
  <2>. QED
    BY <1>1, <1>3, <2>1, <2>2 DEF V
<1>8. MergeTwo(H) = R \cup {m}
  <2>1. H \ {a, b} = R
    OBVIOUS
  <2>. QED
    BY <2>1 DEF MergeTwo, Without
<1>. HIDE DEF a, b
<1>9. IsState(ls, m, k, most, equal) /\ ItemsOf(m) = ItemsOf(a) \cup ItemsOf(b)
  <2>1. /\ IsState(ls, a, k, most, equal) /\ IsState(ls, b, k, most, equal)
        /\ ItemsOf(a) \cap ItemsOf(b) = {}
    BY <1>1, <1>2, <1>6 DEF States
  <2>. QED
    BY <2>1, MergedState
<1>. HIDE DEF m
<1>10. \A s \in R : ItemsOf(s) \cap ItemsOf(m) = {}
  <2>1. \A s \in R : ItemsOf(s) \cap ItemsOf(a) = {} /\ ItemsOf(s) \cap ItemsOf(b) = {}
    BY <1>1, <1>2, <1>6 DEF States
  <2>. QED
    BY <1>9, <2>1
<1>11. m \notin R
  BY <1>9, <1>10 DEF IsState
<1>12. \A s \in R : IsState(ls, s, k, most, equal)
  BY <1>1 DEF States
<1>13. \A s, t \in R : s # t => ItemsOf(s) \cap ItemsOf(t) = {}
  BY <1>1 DEF States
<1>14. UNION {ItemsOf(s) : s \in R \cup {m}} = UNION {ItemsOf(s) : s \in H}
  <2>1. ASSUME NEW x, x \in UNION {ItemsOf(s) : s \in R \cup {m}}
        PROVE  x \in UNION {ItemsOf(s) : s \in H}
    <3>1. PICK s \in R \cup {m} : x \in ItemsOf(s)
      BY <2>1
    <3>2. CASE s = m
      BY <1>2, <1>6, <1>9, <3>1, <3>2
    <3>. QED
      BY <3>1, <3>2
  <2>2. ASSUME NEW x, x \in UNION {ItemsOf(s) : s \in H}
        PROVE  x \in UNION {ItemsOf(s) : s \in R \cup {m}}
    <3>1. PICK s \in H : x \in ItemsOf(s)
      BY <2>2
    <3>2. s \in R \/ x \in ItemsOf(m)
      BY <1>9, <3>1
    <3>. QED
      BY <3>1, <3>2
  <2>. QED
    BY <2>1, <2>2
<1>. HIDE DEF R
<1>15. IsFiniteSet(R \cup {m}) /\ Cardinality(R \cup {m}) = Cardinality(R) + 1
  BY <1>7, <1>11, FS_AddElement
<1>16. States(ls, k, most, equal, R \cup {m})
  <2>1. \A s \in R \cup {m} : IsState(ls, s, k, most, equal)
    BY <1>9, <1>12
  <2>2. \A s, t \in R \cup {m} : s # t => ItemsOf(s) \cap ItemsOf(t) = {}
    BY <1>10, <1>13
  <2>. QED
    BY <1>15, <2>1, <2>2 DEF States
<1>17. Cardinality(R \cup {m}) = Cardinality(H) - 1
  BY <1>7, <1>15
<1>. QED
  BY <1>8, <1>14, <1>16, <1>17 DEF Heap
-----------------------------------------------------------------------------
\* f holds the heap after n merges.
HeapStep(start, m, f) == f = [n \in 0..m |-> IF n = 0 THEN start ELSE MergeTwo(f[n - 1])]

\* There are such heaps.
LEMMA HeapExists ==
    ASSUME NEW start, NEW m \in Nat
    PROVE  \E f : HeapStep(start, m, f)
<1>. DEFINE G == {k \in Nat : \E f : HeapStep(start, k, f)}
<1>1. 0 \in G
  <2>1. HeapStep(start, 0, [n \in 0..0 |-> start])
    BY DEF HeapStep
  <2>. QED
    BY <2>1
<1>2. ASSUME NEW k \in Nat, k \in G PROVE k + 1 \in G
  <2>1. PICK f : HeapStep(start, k, f)
    BY <1>2
  <2>. DEFINE g == [n \in 0..(k + 1) |-> IF n < k + 1 THEN f[n] ELSE MergeTwo(f[k])]
  <2>2. HeapStep(start, k + 1, g)
    BY <2>1 DEF HeapStep
  <2>. QED
    BY <2>2
<1>3. \A k \in Nat : k \in G
  <2>. HIDE DEF G
  <2>. QED
    BY <1>1, <1>2, Counting
<1>. QED
  BY <1>3

\* What is left of the heap in the end: one state, with all the items.
LEMMA MergedAll ==
    ASSUME NEW ls \in Seq(Nat), NEW k \in Nat \ {0}, NEW most \in Int, NEW equal \in BOOLEAN,
           NEW H, Heap(ls, k, most, equal, H)
    PROVE  /\ IsState(ls, MergeAll(H), k, most, equal)
           /\ ItemsOf(MergeAll(H)) = 1..Len(ls)
<1>. DEFINE c == Cardinality(H)
<1>1. c \in Nat /\ c # 0
  BY FS_CardinalityType, FS_EmptySet DEF Heap, States
<1>2. PICK f : HeapStep(H, c, f)
  BY <1>1, HeapExists
<1>3. HeapStep(H, c, CHOOSE g : HeapStep(H, c, g))
  BY <1>2
<1>. DEFINE h == CHOOSE g : HeapStep(H, c, g)
<1>4. MergeAll(H) = First(h[c - 1])
  BY DEF MergeAll, HeapStep
<1>5. /\ h[0] = H
      /\ \A n \in 0..c : n > 0 => h[n] = MergeTwo(h[n - 1])
  <2>. HIDE DEF h, c
  <2>1. h = [n \in 0..c |-> IF n = 0 THEN H ELSE MergeTwo(h[n - 1])]
    BY <1>3 DEF HeapStep, h
  <2>. QED
    BY <1>1, <2>1
<1>. HIDE DEF h
<1>. DEFINE G == {n \in Nat : n < c => Heap(ls, k, most, equal, h[n])
                                       /\ Cardinality(h[n]) = c - n}
<1>6. 0 \in G
  BY <1>1, <1>5
<1>7. ASSUME NEW n \in Nat, n \in G PROVE n + 1 \in G
  <2>1. SUFFICES ASSUME n + 1 < c
                 PROVE  Heap(ls, k, most, equal, h[n + 1]) /\ Cardinality(h[n + 1]) = c - (n + 1)
    OBVIOUS
  <2>2. Heap(ls, k, most, equal, h[n]) /\ Cardinality(h[n]) = c - n /\ c \in Nat
    BY <1>1, <1>7, <2>1
  <2>3. h[n + 1] = MergeTwo(h[n])
    <3>1. n + 1 \in 0..c /\ n + 1 > 0 /\ n + 1 - 1 = n
      BY <1>1, <2>1
    <3>. QED
      BY <1>5, <3>1
  <2>4. Cardinality(h[n]) > 1
    BY <2>1, <2>2
  <2>5. /\ Heap(ls, k, most, equal, MergeTwo(h[n]))
        /\ Cardinality(MergeTwo(h[n])) = Cardinality(h[n]) - 1
    BY <2>2, <2>4, MergedTwo
  <2>. HIDE DEF c
  <2>. QED
    BY <2>2, <2>3, <2>5
<1>8. \A n \in Nat : n \in G
  <2>. HIDE DEF G
  <2>. QED
    BY <1>6, <1>7, Counting
<1>9. c - 1 \in Nat /\ c - 1 < c /\ c - (c - 1) = 1
  BY <1>1
<1>. DEFINE L == h[c - 1]
<1>10. Heap(ls, k, most, equal, L) /\ Cardinality(L) = 1
  BY <1>8, <1>9
<1>. HIDE DEF L, c
<1>11. PICK s : L = {s}
  BY <1>10, FS_Singleton DEF Heap, States
<1>12. First(L) = s
  BY <1>10, <1>11, FirstState DEF Heap
<1>13. IsState(ls, s, k, most, equal) /\ ItemsOf(s) = 1..Len(ls)
  BY <1>10, <1>11 DEF Heap, States
<1>. QED
  BY <1>4, <1>12, <1>13 DEF L

\* Blocks of k items do not overlap.
LEMMA BlocksApart ==
    ASSUME NEW g \in Nat, NEW h \in Nat, NEW k \in Nat, g < h
    PROVE  g * k + k <= h * k
OBVIOUS

\* The most by which two sets of tokens may differ.
Most(ls, equal) == Max(ToSet(ls)) - (IF equal THEN Min(ToSet(ls)) ELSE 0)

\* No two rows differ by more.
LEMMA MostIsMost ==
    ASSUME NEW ls \in Seq(Nat), ls # <<>>, NEW equal \in BOOLEAN
    PROVE  Most(ls, equal) \in Int /\ FitsMost(ls, Most(ls, equal), equal)
<1>. DEFINE T == ToSet(ls)
<1>1. ls \in Seq(Int) /\ T \subseteq Nat /\ \A i \in 1..Len(ls) : ls[i] \in T
  BY ElementsType
<1>2. Max(T) \in T /\ (\A y \in T : Max(T) >= y) /\ Min(T) \in T /\ (\A y \in T : Min(T) <= y)
  BY <1>1, Greatest
<1>. DEFINE top == Max(T)
            low == Min(T)
<1>3. /\ top \in Nat /\ low \in Nat
      /\ \A i \in 1..Len(ls) : ls[i] \in Nat /\ ls[i] <= top /\ low <= ls[i]
  BY <1>1, <1>2
<1>4. Most(ls, equal) = top - (IF equal THEN low ELSE 0)
  BY DEF Most
<1>. HIDE DEF T, top, low
<1>5. CASE equal
  BY <1>3, <1>4, <1>5 DEF FitsMost
<1>6. CASE ~equal
  BY <1>3, <1>4, <1>6 DEF FitsMost
<1>. QED
  BY <1>5, <1>6

\* The states the heap starts with, named by f, of the items I names.
Named(f, m) == {f[g] : g \in 1..m}
\* They are states of different items, and all items are in them.
Names(ls, k, most, equal, m, f, I) ==
    /\ \A g \in 1..m : IsState(ls, f[g], k, most, equal) /\ ItemsOf(f[g]) = I[g]
    /\ \A g, h \in 1..m : g # h => I[g] \cap I[h] = {}
    /\ \A i \in 1..Len(ls) : \E g \in 1..m : i \in I[g]
    /\ \A g \in 1..m : I[g] \subseteq 1..Len(ls)

\* Such states are a heap.
LEMMA FirstHeap ==
    ASSUME NEW ls \in Seq(Nat), NEW k, NEW most, NEW equal, NEW m \in Nat \ {0}, NEW f, NEW I,
           Names(ls, k, most, equal, m, f, I)
    PROVE  Heap(ls, k, most, equal, Named(f, m))
<1>. DEFINE H == {f[g] : g \in 1..m}
            F == [g \in 1..m |-> f[g]]
<1>. USE DEF Names
<1>1. IsFiniteSet(H)
  <2>1. 1 \in Int /\ m \in Int
    OBVIOUS
  <2>2. IsFiniteSet(1..m)
    BY <2>1, FS_Interval
  <2>3. F \in Surjection(1..m, H)
    BY DEF Surjection
  <2>. HIDE DEF F, H
  <2>. QED
    BY <2>2, <2>3, FS_Surjection
<1>2. \A s \in H : IsState(ls, s, k, most, equal)
  OBVIOUS
<1>3. \A s, t \in H : s # t => ItemsOf(s) \cap ItemsOf(t) = {}
  <2>1. SUFFICES ASSUME NEW g \in 1..m, NEW h \in 1..m, f[g] # f[h]
                 PROVE  ItemsOf(f[g]) \cap ItemsOf(f[h]) = {}
    OBVIOUS
  <2>. QED
    BY <2>1
<1>4. UNION {ItemsOf(s) : s \in H} = 1..Len(ls)
  <2>1. ASSUME NEW i \in 1..Len(ls) PROVE i \in UNION {ItemsOf(s) : s \in H}
    <3>1. PICK g \in 1..m : i \in I[g]
      BY <2>1
    <3>2. f[g] \in H /\ i \in ItemsOf(f[g])
      BY <3>1
    <3>. QED
      BY <3>2
  <2>2. ASSUME NEW i, i \in UNION {ItemsOf(s) : s \in H} PROVE i \in 1..Len(ls)
    <3>1. PICK s \in H : i \in ItemsOf(s)
      BY <2>2
    <3>2. PICK g \in 1..m : s = f[g]
      BY <3>1
    <3>3. ItemsOf(s) = I[g] /\ I[g] \subseteq 1..Len(ls)
      BY <3>2
    <3>. QED
      BY <3>1, <3>3
  <2>. QED
    BY <2>1, <2>2
<1>5. H # {}
  <2>1. f[1] \in H
    OBVIOUS
  <2>. QED
    BY <2>1
<1>. QED
  BY <1>1, <1>2, <1>3, <1>4, <1>5 DEF Heap, States, Named

\* Without equal sizes: a state for every item.
LEMMA SinglesHeap ==
    ASSUME NEW ls \in Seq(Nat), ls # <<>>, NEW k \in Nat \ {0}
    PROVE  Heap(ls, k, Most(ls, FALSE), FALSE, FirstStates(ls, k, FALSE))
<1>. DEFINE n == Len(ls)
            f == [i \in 1..n |-> NewState(ls, <<i>>, k)]
            I == [i \in 1..n |-> {i}]
            most == Most(ls, FALSE)
<1>1. n \in Nat \ {0} /\ DOMAIN ls = 1..n
  BY LenProperties, EmptySeq
<1>2. FirstStates(ls, k, FALSE) = {f[i] : i \in 1..n}
  BY <1>1 DEF FirstStates
<1>3. ASSUME NEW i \in 1..n
      PROVE  IsState(ls, f[i], k, most, FALSE) /\ ItemsOf(f[i]) = I[i]
  <2>. DEFINE items == <<i>>
  <2>1. /\ items \in Seq(1..n) /\ Distinct(items) /\ items # <<>> /\ Len(items) = 1
        /\ ToSet(items) = {i}
    BY OneElement DEF Distinct
  <2>2. most \in Int /\ FALSE \in BOOLEAN /\ FitsMost(ls, most, FALSE)
    BY MostIsMost
  <2>3. k \in Nat /\ Len(items) <= k /\ Sized(items, k, FALSE)
    BY <2>1 DEF Sized
  <2>. HIDE DEF items, most
  <2>4. /\ IsState(ls, NewState(ls, items, k), k, most, FALSE)
        /\ ItemsOf(NewState(ls, items, k)) = ToSet(items)
    BY <2>1, <2>2, <2>3, NewStateDivided
  <2>. QED
    BY <2>1, <2>4 DEF items
<1>4. /\ \A g, h \in 1..n : g # h => I[g] \cap I[h] = {}
      /\ \A i \in 1..n : \E g \in 1..n : i \in I[g]
      /\ \A g \in 1..n : I[g] \subseteq 1..n
  OBVIOUS
<1>. HIDE DEF f, I, most
<1>5. Names(ls, k, most, FALSE, n, f, I)
  BY <1>3, <1>4 DEF Names
<1>6. Heap(ls, k, most, FALSE, Named(f, n))
  BY <1>1, <1>5, FirstHeap
<1>. QED
  BY <1>2, <1>6 DEF most, Named

\* The items by length are all items, each once.
LEMMA AscendingItems ==
    ASSUME NEW ls \in Seq(Nat)
    PROVE  /\ Ascending(ls) \in Seq(1..Len(ls)) /\ Len(Ascending(ls)) = Len(ls)
           /\ Distinct(Ascending(ls)) /\ ToSet(Ascending(ls)) = 1..Len(ls)
<1>. DEFINE n == Len(ls)
            s == [i \in DOMAIN ls |-> i]
            T == ToSet(s)
            less == {xy \in T \X T : ls[xy[1]] < ls[xy[2]]
                                     \/ (ls[xy[1]] = ls[xy[2]] /\ xy[1] < xy[2])}
<1>1. Ascending(ls) = SortedBy(s, less)
  BY DEF Ascending, Sort
<1>2. n \in Nat /\ DOMAIN ls = 1..n
  BY LenProperties
<1>3. s \in Seq(1..n) /\ Len(s) = n /\ Distinct(s) /\ T = 1..n
  BY <1>2 DEF Distinct, ToSet
<1>. HIDE DEF less, s, T
<1>4. SortedBy(s, less) \in Seq(1..n) /\ Rearranged(s, SortedBy(s, less))
  BY <1>3, SortedType, SortedRearranges
<1>5. Distinct(SortedBy(s, less))
  BY <1>3, <1>4, RearrangedDistinct
<1>. QED
  BY <1>1, <1>3, <1>4, <1>5 DEF Rearranged, T

\* What a piece of a sequence holds.
IsPiece(t, s, lo, k) ==
    Len(t) = k /\ Distinct(t) /\ ToSet(t) = {s[j] : j \in (lo + 1)..(lo + k)}

\* A piece cut from a sequence is one.
LEMMA PieceOf ==
    ASSUME NEW S, NEW s \in Seq(S), NEW lo \in Nat, NEW k \in Nat, lo + k <= Len(s), Distinct(s)
    PROVE  /\ SubSeq(s, lo + 1, lo + k) \in Seq(S)
           /\ IsPiece(SubSeq(s, lo + 1, lo + k), s, lo, k)
<1>. DEFINE t == SubSeq(s, lo + 1, lo + k)
<1>1. Len(s) \in Nat /\ \A j \in 1..Len(s) : s[j] \in S
  BY LenProperties, ElementOfSeq
<1>2. t = [i \in 1..k |-> s[lo + i]]
  BY <1>1
<1>3. \A i \in 1..k : lo + i \in 1..Len(s)
  BY <1>1
<1>4. t \in Seq(S) /\ Len(t) = k /\ DOMAIN t = 1..k
  BY <1>1, <1>2, <1>3
<1>5. \A i \in 1..k : t[i] = s[lo + i]
  BY <1>2
<1>. HIDE DEF t
<1>6. Distinct(t)
  BY <1>3, <1>4, <1>5 DEF Distinct
<1>7. ToSet(t) = {s[j] : j \in (lo + 1)..(lo + k)}
  <2>1. ToSet(t) = {t[i] : i \in 1..k}
    BY <1>4 DEF ToSet
  <2>2. ASSUME NEW j \in (lo + 1)..(lo + k) PROVE s[j] \in ToSet(t)
    <3>. DEFINE i == j - lo
    <3>1. i \in 1..k /\ lo + i = j
      OBVIOUS
    <3>. HIDE DEF i
    <3>2. t[i] = s[j]
      BY <1>5, <3>1
    <3>. QED
      BY <2>1, <3>1, <3>2
  <2>3. ASSUME NEW i \in 1..k PROVE t[i] \in {s[j] : j \in (lo + 1)..(lo + k)}
    <3>1. t[i] = s[lo + i]
      BY <1>5
    <3>. DEFINE j == lo + i
    <3>2. j \in (lo + 1)..(lo + k)
      OBVIOUS
    <3>. HIDE DEF j
    <3>3. s[j] \in {s[h] : h \in (lo + 1)..(lo + k)}
      BY <3>2
    <3>. QED
      BY <3>1, <3>3 DEF j
  <2>. QED
    BY <2>1, <2>2, <2>3
<1>. QED
  BY <1>4, <1>6, <1>7 DEF t, IsPiece

\* With equal sizes: a state for every k items, by length.
LEMMA BlocksHeap ==
    ASSUME NEW ls \in Seq(Nat), ls # <<>>, NEW k \in Nat \ {0}, Len(ls) % k = 0
    PROVE  Heap(ls, k, Most(ls, TRUE), TRUE, FirstStates(ls, k, TRUE))
<1>. DEFINE n == Len(ls)
            m == n \div k
            A == Ascending(ls)
            B == [g \in 1..m |-> SubSeq(A, (g - 1) * k + 1, (g - 1) * k + k)]
            f == [g \in 1..m |-> NewState(ls, B[g], k)]
            I == [g \in 1..m |-> {A[j] : j \in ((g - 1) * k + 1)..((g - 1) * k + k)}]
            most == Most(ls, TRUE)
<1>1. n \in Nat \ {0}
  BY LenProperties, EmptySeq
<1>2. m \in Nat /\ m * k = n
  BY <1>1, DivisionBounds
<1>3. m # 0
  BY <1>1, <1>2
<1>4. A \in Seq(1..n) /\ Len(A) = n /\ Distinct(A) /\ ToSet(A) = 1..n
  BY AscendingItems
<1>5. FirstStates(ls, k, TRUE) = {f[g] : g \in 1..m}
  <2>1. FirstStates(ls, k, TRUE)
            = {NewState(ls, SubSeq(A, g * k + 1, g * k + k), k) : g \in 0..(m - 1)}
    BY DEF FirstStates
  <2>2. ASSUME NEW g \in 0..(m - 1)
        PROVE  NewState(ls, SubSeq(A, g * k + 1, g * k + k), k) \in {f[h] : h \in 1..m}
    <3>1. g + 1 \in 1..m /\ (g + 1) - 1 = g
      BY <1>2
    <3>2. f[g + 1] = NewState(ls, SubSeq(A, g * k + 1, g * k + k), k)
      BY <3>1
    <3>. HIDE DEF f
    <3>. QED
      BY <3>1, <3>2
  <2>3. ASSUME NEW h \in 1..m
        PROVE  f[h] \in {NewState(ls, SubSeq(A, g * k + 1, g * k + k), k) : g \in 0..(m - 1)}
    <3>1. h - 1 \in 0..(m - 1)
      BY <1>2
    <3>. QED
      BY <3>1
  <2>. HIDE DEF f, m
  <2>. QED
    BY <2>1, <2>2, <2>3
<1>6. ASSUME NEW g \in 1..m
      PROVE  (g - 1) * k \in Nat /\ (g - 1) * k + k <= n
  <2>1. (g - 1) * k + k = g * k /\ g - 1 \in Nat
    BY <1>2
  <2>2. g = m \/ g * k + k <= m * k
    BY <1>2, BlocksApart
  <2>3. (g - 1) * k \in Nat
    BY <2>1
  <2>. HIDE DEF m, n
  <2>. QED
    BY <1>1, <1>2, <2>1, <2>2, <2>3
<1>7. ASSUME NEW g \in 1..m
      PROVE  B[g] \in Seq(1..n) /\ Len(B[g]) = k /\ Distinct(B[g]) /\ ToSet(B[g]) = I[g]
  <2>. DEFINE lo == (g - 1) * k
  <2>1. lo \in Nat /\ lo + k <= Len(A) /\ k \in Nat
    BY <1>4, <1>6
  <2>2. B[g] = SubSeq(A, lo + 1, lo + k) /\ I[g] = {A[j] : j \in (lo + 1)..(lo + k)}
    OBVIOUS
  <2>. HIDE DEF lo, A, B, I
  <2>3. /\ SubSeq(A, lo + 1, lo + k) \in Seq(1..n)
        /\ IsPiece(SubSeq(A, lo + 1, lo + k), A, lo, k)
    BY <1>4, <2>1, PieceOf
  <2>. QED
    BY <2>2, <2>3 DEF IsPiece
<1>8. ASSUME NEW g \in 1..m
      PROVE  IsState(ls, f[g], k, most, TRUE) /\ ItemsOf(f[g]) = I[g]
  <2>. DEFINE items == B[g]
  <2>1. items \in Seq(1..n) /\ Len(items) = k /\ Distinct(items) /\ ToSet(items) = I[g]
    BY <1>7
  <2>2. f[g] = NewState(ls, items, k)
    OBVIOUS
  <2>. HIDE DEF items, f, I, B
  <2>3. items # <<>>
    BY <2>1, EmptySeq
  <2>. DEFINE equal == TRUE
  <2>4. most \in Int /\ equal \in BOOLEAN /\ FitsMost(ls, most, equal)
    BY MostIsMost
  <2>5. k \in Nat /\ Len(items) <= k /\ Sized(items, k, equal)
    BY <2>1 DEF Sized
  <2>. HIDE DEF most, equal
  <2>6. /\ IsState(ls, NewState(ls, items, k), k, most, equal)
        /\ ItemsOf(NewState(ls, items, k)) = ToSet(items)
    BY <2>1, <2>3, <2>4, <2>5, NewStateDivided
  <2>. QED
    BY <2>1, <2>2, <2>6 DEF equal
<1>9. \A i, j \in 1..n : A[i] = A[j] => i = j
  BY <1>4 DEF Distinct
<1>. HIDE DEF A
<1>10. ASSUME NEW g \in 1..m, NEW h \in 1..m, g < h PROVE I[g] \cap I[h] = {}
  <2>. DEFINE a == (g - 1) * k
              b == (h - 1) * k
  <2>1. a \in Nat /\ a + k <= n /\ b \in Nat /\ b + k <= n
    BY <1>6
  <2>2. a + k <= b
    BY <1>10, <1>2, BlocksApart
  <2>3. I[g] = {A[j] : j \in (a + 1)..(a + k)} /\ I[h] = {A[j] : j \in (b + 1)..(b + k)}
    OBVIOUS
  <2>. HIDE DEF a, b, I, m, n
  <2>4. ASSUME NEW i \in (a + 1)..(a + k), NEW j \in (b + 1)..(b + k) PROVE A[i] # A[j]
    <3>1. i \in 1..n /\ j \in 1..n /\ i # j
      BY <1>1, <2>1, <2>2
    <3>. QED
      BY <1>9, <3>1
  <2>. QED
    BY <2>3, <2>4
<1>11. \A g, h \in 1..m : g # h => I[g] \cap I[h] = {}
  <2>1. SUFFICES ASSUME NEW g \in 1..m, NEW h \in 1..m, g # h PROVE I[g] \cap I[h] = {}
    OBVIOUS
  <2>2. g < h \/ h < g
    BY <1>2, <2>1
  <2>. HIDE DEF I
  <2>. QED
    BY <1>10, <2>2
<1>12. ASSUME NEW i \in 1..n PROVE \E g \in 1..m : i \in I[g]
  <2>1. PICK j \in 1..n : A[j] = i
    <3>1. DOMAIN A = 1..n
      BY <1>4, LenProperties
    <3>. QED
      BY <1>4, <3>1 DEF ToSet
  <2>. DEFINE q == (j - 1) \div k
  <2>2. j - 1 \in Nat /\ q \in Nat /\ q * k <= j - 1 /\ j - 1 < q * k + k
    <3>. DEFINE x == j - 1
    <3>1. x \in Nat
      OBVIOUS
    <3>. HIDE DEF x
    <3>2. x \div k \in Nat /\ (x \div k) * k <= x /\ x < (x \div k) * k + k
      BY <3>1, DivisionBounds
    <3>. QED
      BY <3>1, <3>2 DEF x
  <2>. DEFINE lo == q * k
  <2>3. lo \in Nat /\ j \in (lo + 1)..(lo + k)
    BY <2>2
  <2>4. q < m
    <3>1. SUFFICES ASSUME q >= m PROVE FALSE
      BY <1>2, <2>2
    <3>2. q = m \/ m * k + k <= q * k
      <4>1. m \in Nat /\ q \in Nat
        BY <1>2, <2>2
      <4>. HIDE DEF m, q
      <4>2. q = m \/ m < q
        BY <3>1, <4>1
      <4>. QED
        BY <4>1, <4>2, BlocksApart
    <3>. HIDE DEF q, m, n
    <3>. QED
      BY <1>1, <1>2, <2>2, <3>2
  <2>5. q + 1 \in 1..m /\ (q + 1 - 1) * k = lo
    <3>. HIDE DEF m
    <3>1. q + 1 \in 1..m /\ q + 1 - 1 = q
      BY <1>2, <2>2, <2>4
    <3>. QED
      BY <3>1
  <2>6. I[q + 1] = {A[x] : x \in (lo + 1)..(lo + k)}
    BY <2>5
  <2>. HIDE DEF q, lo, I
  <2>7. i \in I[q + 1]
    BY <2>1, <2>3, <2>6
  <2>. QED
    BY <2>5, <2>7
<1>13. \A g \in 1..m : I[g] \subseteq 1..n
  <2>1. SUFFICES ASSUME NEW g \in 1..m PROVE ToSet(B[g]) \subseteq 1..n
    BY <1>7
  <2>. HIDE DEF B
  <2>. QED
    BY <1>7, ElementsType
<1>. HIDE DEF f, I, most, m
<1>14. Names(ls, k, most, TRUE, m, f, I)
  BY <1>8, <1>11, <1>12, <1>13 DEF Names
<1>15. Heap(ls, k, most, TRUE, Named(f, m))
  BY <1>2, <1>3, <1>14, FirstHeap
<1>. QED
  BY <1>5, <1>15 DEF most, Named

\* What the partitions of a batch are: every item in one of them, and none is empty.
Partition(ls, parts, k) ==
    /\ parts \in Seq(Seq(1..Len(ls))) /\ Len(parts) = k
    /\ Apart(parts)
    /\ \A p \in 1..k : parts[p] # <<>>
    /\ UNION {ToSet(parts[p]) : p \in 1..k} = 1..Len(ls)
\* No part has more than most tokens more than another.
Close(ls, parts, most) ==
    \A p, q \in 1..Len(parts) : Weight(ls, parts[p]) - Weight(ls, parts[q]) <= most
\* All parts have as many items.
SameSizes(ls, parts) == \A p \in 1..Len(parts) : Len(parts[p]) * Len(parts) = Len(ls)

\* A partition is a set of the method, sorted.
LEMMA SortedSet ==
    ASSUME NEW ls \in Seq(Nat), NEW x \in Sets(ls)
    PROVE  /\ Sort(x.items, <) \in Seq(1..Len(ls)) /\ Rearranged(x.items, Sort(x.items, <))
           /\ Distinct(Sort(x.items, <)) /\ Weight(ls, Sort(x.items, <)) = x.sum
<1>. DEFINE s == x.items
            less == {xy \in ToSet(s) \X ToSet(s) : xy[1] < xy[2]}
            t == SortedBy(s, less)
            S == 1..Len(ls)
<1>1. Sort(x.items, <) = t
  BY DEF Sort
<1>2. s \in Seq(S) /\ Distinct(s) /\ x.sum = Weight(ls, s)
  BY SetsTyped
<1>3. ls \in [S -> Int]
  BY LenProperties
<1>. HIDE DEF s, less, S
<1>4. t \in Seq(S) /\ Rearranged(s, t)
  BY <1>2, SortedType, SortedRearranges
<1>5. Distinct(t)
  BY <1>2, <1>4, RearrangedDistinct
<1>6. Sum(Mapped(ls, t)) = Sum(Mapped(ls, s))
  BY <1>2, <1>3, SortedSum
<1>. HIDE DEF t
<1>7. Weight(ls, t) = x.sum
  BY <1>2, <1>6 DEF Weight
<1>. QED
  BY <1>1, <1>4, <1>5, <1>7 DEF s, S

\* As many items as there are sets, or more, leave no set empty.
LEMMA NoneEmpty ==
    ASSUME NEW ls \in Seq(Nat), NEW k \in 1..Len(ls), NEW most, NEW equal \in BOOLEAN,
           NEW s, IsState(ls, s, k, most, equal), ItemsOf(s) = 1..Len(ls), NEW p \in 1..k
    PROVE  s[p].items # <<>>
<1>. DEFINE n == Len(ls)
<1>1. n \in Nat /\ k \in Nat \ {0} /\ k <= n
  BY LenProperties
<1>2. s \in Seq(Sets(ls)) /\ Len(s) = k /\ \A q \in 1..k : s[q] \in Sets(ls)
  BY ElementOfSeq DEF IsState, Divided
<1>3. \A q \in 1..k : s[q].items \in Seq(1..n)
  BY <1>2, SetsTyped
<1>4. SUFFICES ASSUME s[p].items = <<>> PROVE FALSE
  OBVIOUS
<1>5. \A q \in 1..k : Len(s[q].items) <= 1
  <2>1. CASE equal
    <3>1. \A q \in 1..k : Len(s[q].items) = Len(s[p].items)
      BY <1>2, <2>1 DEF IsState, Divided, Even
    <3>2. Len(s[p].items) = 0
      BY <1>4, EmptySeq
    <3>. QED
      BY <3>1, <3>2
  <2>2. CASE ~equal
    BY <1>2, <1>4, <2>2 DEF IsState, Divided, Even
  <2>. QED
    BY <2>1, <2>2
<1>6. \A i \in 1..n : \E q \in 1..k : i \in ToSet(s[q].items)
  BY <1>2 DEF ItemsOf
<1>. DEFINE T == (1..k) \ {p}
            f == [i \in 1..n |-> CHOOSE q \in 1..k : i \in ToSet(s[q].items)]
<1>. HIDE DEF n
<1>7. ASSUME NEW i \in 1..n PROVE f[i] \in 1..k /\ i \in ToSet(s[f[i]].items)
  BY <1>6
<1>8. ASSUME NEW q \in 1..k, NEW i \in ToSet(s[q].items), NEW j \in ToSet(s[q].items)
      PROVE  i = j
  <2>. DEFINE t == s[q].items
  <2>1. t \in Seq(1..n) /\ Len(t) <= 1 /\ Len(t) \in Nat /\ DOMAIN t = 1..Len(t)
    BY <1>3, <1>5, LenProperties
  <2>. HIDE DEF t
  <2>2. PICK x \in 1..Len(t) : i = t[x]
    BY <2>1 DEF ToSet, t
  <2>3. PICK y \in 1..Len(t) : j = t[y]
    BY <2>1 DEF ToSet, t
  <2>4. x = y
    BY <2>1
  <2>. QED
    BY <2>2, <2>3, <2>4
<1>. HIDE DEF f
<1>9. f \in [1..n -> T]
  <2>1. \A i \in 1..n : f[i] \in T
    BY <1>4, <1>7, ElementsEmpty
  <2>. QED
    BY <2>1 DEF f
<1>10. f \in Injection(1..n, T)
  <2>1. \A i, j \in 1..n : f[i] = f[j] => i = j
    BY <1>7, <1>8
  <2>. QED
    BY <1>9, <2>1 DEF Injection, IsInjective
<1>11. IsFiniteSet(1..k) /\ Cardinality(1..k) = k /\ Cardinality(1..n) = n
  <2>1. 1 \in Int /\ k \in Int /\ n \in Int
    BY <1>1
  <2>. QED
    BY <1>1, <2>1, FS_Interval
<1>12. IsFiniteSet(T) /\ Cardinality(T) = k - 1
  BY <1>11, FS_RemoveElement
<1>. HIDE DEF T
<1>13. Cardinality(1..n) <= Cardinality(T)
  BY <1>10, <1>12, FS_Injection
<1>. QED
  BY <1>1, <1>11, <1>12, <1>13 DEF n

\* With equal sizes every set has its share of the items.
LEMMA EvenShares ==
    ASSUME NEW ls \in Seq(Nat), NEW k, NEW parts, Partition(ls, parts, k),
           \A p, q \in 1..k : Len(parts[p]) = Len(parts[q]), k \in Nat \ {0}
    PROVE  SameSizes(ls, parts)
<1>. DEFINE n == Len(ls)
            flat == FlattenSeq(parts)
            c == Len(parts[1])
<1>1. parts \in Seq(Seq(1..n)) /\ Len(parts) = k /\ Apart(parts) /\ DOMAIN parts = 1..k
  BY LenProperties DEF Partition
<1>2. Distinct(flat)
  BY <1>1, FlatDistinct
<1>3. flat \in Seq(1..n)
  BY <1>1, FlatType
<1>4. ToSet(flat) = 1..n
  <2>1. ToSet(flat) = UNION {ToSet(t) : t \in ToSet(parts)}
    BY <1>1, FlatElements
  <2>2. ToSet(parts) = {parts[p] : p \in 1..k}
    BY <1>1 DEF ToSet
  <2>3. UNION {ToSet(t) : t \in ToSet(parts)} = UNION {ToSet(parts[p]) : p \in 1..k}
    BY <2>2
  <2>. QED
    BY <2>1, <2>3 DEF Partition
<1>5. Len(flat) = n
  <2>1. Cardinality(ToSet(flat)) = Len(flat)
    BY <1>2, <1>3, DistinctSize
  <2>2. 1 \in Int /\ n \in Int /\ n \in Nat
    BY LenProperties
  <2>. HIDE DEF n
  <2>3. Cardinality(1..n) = n
    BY <2>2, FS_Interval
  <2>. QED
    BY <1>4, <2>1, <2>3
<1>6. 1 \in 1..k
  OBVIOUS
<1>7. c \in Nat /\ \A p \in 1..k : Len(parts[p]) = c
  BY <1>1, <1>6, ElementOfSeq, LenProperties
<1>8. \A t \in ToSet(parts) : Len(t) = c
  BY <1>1, <1>7 DEF ToSet
<1>. HIDE DEF n, c, flat
<1>9. Len(flat) = k * c
  BY <1>1, <1>7, <1>8, FlatEven DEF flat
<1>10. c * k = k * c
  BY <1>7
<1>. QED
  BY <1>1, <1>5, <1>7, <1>9, <1>10 DEF SameSizes, n

\* get_seqlen_balanced_partitions: a partition of the batch, balanced, and with equal
\* sizes in equal parts.
LEMMA Partitioned ==
    ASSUME NEW ls \in Seq(Nat), NEW k \in 1..Len(ls), NEW equal \in BOOLEAN,
           equal => Len(ls) % k = 0
    PROVE  /\ Partition(ls, BalancedPartitions(ls, k, equal), k)
           /\ Close(ls, BalancedPartitions(ls, k, equal), Most(ls, equal))
           /\ equal => SameSizes(ls, BalancedPartitions(ls, k, equal))
<1>. DEFINE n == Len(ls)
            H == FirstStates(ls, k, equal)
            s == MergeAll(H)
            parts == BalancedPartitions(ls, k, equal)
            most == Most(ls, equal)
<1>1. k \in Nat \ {0} /\ ls # <<>> /\ n \in Nat
  BY LenProperties, EmptySeq
<1>2. Heap(ls, k, most, equal, H)
  <2>1. CASE equal
    <3>1. Heap(ls, k, Most(ls, TRUE), TRUE, FirstStates(ls, k, TRUE))
      BY <1>1, <2>1, BlocksHeap
    <3>2. equal = TRUE
      BY <2>1
    <3>. QED
      BY <3>1, <3>2
  <2>2. CASE ~equal
    <3>1. Heap(ls, k, Most(ls, FALSE), FALSE, FirstStates(ls, k, FALSE))
      BY <1>1, SinglesHeap
    <3>2. equal = FALSE
      BY <2>2
    <3>. QED
      BY <3>1, <3>2
  <2>. QED
    BY <2>1, <2>2
<1>3. most \in Int
  BY <1>1, MostIsMost
<1>4. parts = [p \in DOMAIN s |-> Sort(s[p].items, <)]
  BY DEF BalancedPartitions, InOrder
<1>. HIDE DEF parts, most, H
<1>5. IsState(ls, s, k, most, equal) /\ ItemsOf(s) = 1..n
  BY <1>1, <1>2, <1>3, MergedAll
<1>. HIDE DEF s, n
<1>6. /\ s \in Seq(Sets(ls)) /\ Len(s) = k /\ DOMAIN s = 1..k
      /\ \A p \in 1..k : s[p] \in Sets(ls)
  BY <1>5, LenProperties, ElementOfSeq DEF IsState, Divided
<1>7. /\ DOMAIN parts = 1..k /\ \A p \in 1..k : parts[p] = Sort(s[p].items, <)
  BY <1>4, <1>6
<1>8. ASSUME NEW p \in 1..k
      PROVE  /\ parts[p] \in Seq(1..n) /\ Rearranged(s[p].items, parts[p])
             /\ Distinct(parts[p]) /\ Weight(ls, parts[p]) = s[p].sum
  BY <1>6, <1>7, SortedSet DEF n
<1>9. ASSUME NEW p \in 1..k
      PROVE  ToSet(parts[p]) = ToSet(s[p].items) /\ Len(parts[p]) = Len(s[p].items)
  BY <1>8 DEF Rearranged
<1>10. parts \in Seq(Seq(1..n)) /\ Len(parts) = k
  <2>1. parts = [p \in 1..k |-> parts[p]]
    BY <1>4, <1>6
  <2>2. parts \in [1..k -> Seq(1..n)]
    BY <1>8, <2>1
  <2>3. k \in Nat
    BY <1>1
  <2>4. parts \in Seq(Seq(1..n))
    BY ONLY <2>2, <2>3, SeqDef
  <2>5. DOMAIN parts = 1..Len(parts) /\ Len(parts) \in Nat
    BY <2>4, LenProperties
  <2>6. Len(parts) = k
    BY <1>7, <2>3, <2>5, SameInterval
  <2>. QED
    BY <2>4, <2>6
<1>11. Apart(parts)
  <2>1. \A p \in 1..k : \A i, j \in 1..Len(parts[p]) : parts[p][i] = parts[p][j] => i = j
    BY <1>8 DEF Distinct
  <2>2. ASSUME NEW p \in 1..k, NEW q \in 1..k, p # q
        PROVE  ToSet(parts[p]) \cap ToSet(parts[q]) = {}
    <3>1. ToSet(s[p].items) \cap ToSet(s[q].items) = {}
      BY <1>5, <1>6, <2>2 DEF IsState, Divided, SetsApart
    <3>. QED
      BY <1>9, <3>1
  <2>. QED
    BY <1>10, <2>1, <2>2 DEF Apart
<1>12. ASSUME NEW p \in 1..k PROVE parts[p] # <<>>
  <2>1. s[p].items # <<>> /\ s[p].items \in Seq(1..n)
    BY <1>5, <1>6, NoneEmpty, SetsTyped DEF n
  <2>2. Len(s[p].items) # 0
    BY <2>1, EmptySeq
  <2>. QED
    BY <1>9, <2>2, EmptySeq
<1>13. UNION {ToSet(parts[p]) : p \in 1..k} = 1..n
  <2>1. UNION {ToSet(s[p].items) : p \in 1..k} = 1..n
    BY <1>5, <1>6 DEF ItemsOf
  <2>2. {ToSet(parts[p]) : p \in 1..k} = {ToSet(s[p].items) : p \in 1..k}
    BY <1>9
  <2>. QED
    BY <2>1, <2>2
<1>14. Partition(ls, parts, k)
  BY <1>10, <1>11, <1>12, <1>13 DEF Partition, n
<1>15. Close(ls, parts, most)
  <2>1. \A p, q \in 1..k : s[p].sum - s[q].sum <= most
    BY <1>5, <1>6 DEF IsState, Divided, Within
  <2>. QED
    BY <1>8, <1>10, <2>1 DEF Close
<1>16. ASSUME equal PROVE SameSizes(ls, parts)
  <2>1. \A p, q \in 1..k : Len(s[p].items) = Len(s[q].items)
    BY <1>5, <1>6, <1>16 DEF IsState, Divided, Even
  <2>2. \A p, q \in 1..k : Len(parts[p]) = Len(parts[q])
    BY <1>9, <2>1
  <2>. QED
    BY <1>1, <1>14, <2>2, EvenShares
<1>. QED
  BY <1>14, <1>15, <1>16 DEF parts, most

\* The heaviest first: the same parts in another order.
LEMMA HeavyRearranges ==
    ASSUME NEW S, NEW ls, NEW parts \in Seq(Seq(S))
    PROVE  /\ HeavyFirst(ls, parts) \in Seq(Seq(S))
           /\ Rearranged(parts, HeavyFirst(ls, parts))
<1>. DEFINE k == Len(parts)
            L == [p \in DOMAIN parts |-> [work |-> Work(ls, parts[p]), part |-> parts[p]]]
            T == ToSet(L)
            less == {xy \in T \X T : Heavier(xy[1], xy[2])}
            b == SortedBy(L, less)
            u == HeavyFirst(ls, parts)
<1>1. u = [p \in DOMAIN parts |-> b[p].part]
  BY DEF HeavyFirst, Sort
<1>2. k \in Nat /\ DOMAIN parts = 1..k
  BY LenProperties
<1>3. L \in Seq(T) /\ Len(L) = k
  BY <1>2 DEF ToSet
<1>4. \A p \in 1..k : L[p].part = parts[p]
  BY <1>2
<1>. HIDE DEF L, less, T, u
<1>5. Rearranged(L, b)
  BY <1>3, SortedRearranges
<1>6. PICK pi : Places(L, b, pi)
  BY <1>5 DEF Rearranged
<1>7. /\ pi \in [1..k -> 1..k] /\ (\A i, j \in 1..k : pi[i] = pi[j] => i = j)
      /\ \A i \in 1..k : b[i] = L[pi[i]]
  BY <1>3, <1>6 DEF Places
<1>. HIDE DEF b
<1>8. \A i \in 1..k : pi[i] \in 1..k /\ u[i] = parts[pi[i]]
  BY <1>1, <1>2, <1>4, <1>7
<1>9. u \in Seq(Seq(S)) /\ Len(u) = k /\ DOMAIN u = 1..k
  <2>1. \A i \in 1..k : u[i] \in Seq(S)
    BY <1>8, ElementOfSeq
  <2>2. DOMAIN u = 1..k
    BY <1>1, <1>2
  <2>3. u = [i \in 1..k |-> u[i]]
    BY <1>1, <1>2
  <2>4. u \in [1..k -> Seq(S)]
    BY <2>1, <2>3
  <2>. HIDE DEF k
  <2>5. u \in Seq(Seq(S))
    BY ONLY <2>4, <1>2, SeqDef
  <2>6. Len(u) \in Nat /\ DOMAIN u = 1..Len(u)
    BY <2>5, LenProperties
  <2>7. Len(u) = k
    BY <1>2, <2>2, <2>6, SameInterval
  <2>. QED
    BY <2>2, <2>5, <2>7
<1>10. ToSet(u) = ToSet(parts)
  <2>1. ToSet(u) = {u[i] : i \in 1..k} /\ ToSet(parts) = {parts[i] : i \in 1..k}
    BY <1>2, <1>9 DEF ToSet
  <2>2. ToSet(b) = {b[i] : i \in 1..k} /\ ToSet(L) = {L[i] : i \in 1..k}
    <3>1. b \in Seq(T) /\ Len(b) = k
      BY <1>3, <1>5, SortedType DEF b, Rearranged
    <3>2. DOMAIN b = 1..k /\ DOMAIN L = 1..k
      BY <1>3, <3>1, LenProperties
    <3>. QED
      BY <3>2 DEF ToSet
  <2>3. ToSet(b) = ToSet(L)
    BY <1>5 DEF Rearranged
  <2>4. ASSUME NEW j \in 1..k PROVE parts[j] \in ToSet(u)
    <3>1. PICK i \in 1..k : b[i] = L[j]
      BY <2>2, <2>3
    <3>2. L[pi[i]] = L[j] /\ pi[i] \in 1..k
      BY <1>7, <3>1
    <3>3. parts[pi[i]] = parts[j]
      BY <1>4, <3>2
    <3>. QED
      BY <1>8, <2>1, <3>3
  <2>5. \A i \in 1..k : u[i] \in ToSet(parts)
    BY <1>8, <2>1
  <2>. QED
    BY <2>1, <2>4, <2>5
<1>11. Places(parts, u, pi)
  BY <1>7, <1>8 DEF Places
<1>. QED
  BY <1>9, <1>10, <1>11 DEF Rearranged, u

\* A partition stays one in another order.
LEMMA RearrangedPartition ==
    ASSUME NEW ls \in Seq(Nat), NEW k \in Nat, NEW parts, NEW u \in Seq(Seq(1..Len(ls))),
           Partition(ls, parts, k), Rearranged(parts, u)
    PROVE  Partition(ls, u, k)
<1>1. Len(u) = k /\ Len(parts) = k /\ ToSet(u) = ToSet(parts)
  BY DEF Partition, Rearranged
<1>2. PICK pi : Places(parts, u, pi)
  BY DEF Rearranged
<1>3. /\ \A i \in 1..k : pi[i] \in 1..k /\ u[i] = parts[pi[i]]
      /\ \A i, j \in 1..k : pi[i] = pi[j] => i = j
  BY <1>1, <1>2 DEF Places
<1>4. Apart(u)
  <2>1. ASSUME NEW p \in 1..k, NEW i \in 1..Len(u[p]), NEW j \in 1..Len(u[p]), u[p][i] = u[p][j]
        PROVE  i = j
    <3>. DEFINE t == parts[pi[p]]
    <3>1. u[p] = t /\ pi[p] \in 1..Len(parts)
      BY <1>1, <1>3
    <3>2. \A a, b \in 1..Len(t) : t[a] = t[b] => a = b
      BY <3>1 DEF Partition, Apart
    <3>. HIDE DEF t
    <3>. QED
      BY <2>1, <3>1, <3>2
  <2>2. ASSUME NEW p \in 1..k, NEW q \in 1..k, p # q
        PROVE  ToSet(u[p]) \cap ToSet(u[q]) = {}
    <3>1. pi[p] \in 1..k /\ pi[q] \in 1..k /\ pi[p] # pi[q]
      BY <1>3, <2>2
    <3>2. ToSet(parts[pi[p]]) \cap ToSet(parts[pi[q]]) = {}
      BY <1>1, <3>1 DEF Partition, Apart
    <3>. QED
      BY <1>3, <3>2
  <2>. QED
    BY <1>1, <2>1, <2>2 DEF Apart
<1>5. ASSUME NEW p \in 1..k PROVE u[p] # <<>>
  <2>1. pi[p] \in 1..k /\ u[p] = parts[pi[p]]
    BY <1>3
  <2>2. parts[pi[p]] # <<>>
    BY <2>1 DEF Partition
  <2>. QED
    BY <2>1, <2>2
<1>6. UNION {ToSet(u[p]) : p \in 1..k} = 1..Len(ls)
  <2>1. DOMAIN u = 1..k /\ DOMAIN parts = 1..k
    BY <1>1, LenProperties DEF Partition
  <2>2. ToSet(u) = {u[p] : p \in 1..k} /\ ToSet(parts) = {parts[p] : p \in 1..k}
    BY <2>1 DEF ToSet
  <2>3. /\ UNION {ToSet(u[p]) : p \in 1..k} = UNION {ToSet(t) : t \in ToSet(u)}
        /\ UNION {ToSet(parts[p]) : p \in 1..k} = UNION {ToSet(t) : t \in ToSet(parts)}
    BY <2>2
  <2>. QED
    BY <1>1, <2>3 DEF Partition
<1>. QED
  BY <1>1, <1>4, <1>5, <1>6 DEF Partition

\* Together the parts hold every item once.
LEMMA FlatPartition ==
    ASSUME NEW ls \in Seq(Nat), NEW k \in Nat, NEW parts, Partition(ls, parts, k)
    PROVE  /\ FlattenSeq(parts) \in Seq(1..Len(ls)) /\ Distinct(FlattenSeq(parts))
           /\ ToSet(FlattenSeq(parts)) = 1..Len(ls) /\ Len(FlattenSeq(parts)) = Len(ls)
<1>. DEFINE n == Len(ls)
            flat == FlattenSeq(parts)
<1>1. parts \in Seq(Seq(1..n)) /\ Len(parts) = k /\ Apart(parts) /\ DOMAIN parts = 1..k
  BY LenProperties DEF Partition
<1>2. Distinct(flat)
  BY <1>1, FlatDistinct
<1>3. flat \in Seq(1..n)
  BY <1>1, FlatType
<1>4. ToSet(flat) = 1..n
  <2>1. ToSet(flat) = UNION {ToSet(t) : t \in ToSet(parts)}
    BY <1>1, FlatElements
  <2>2. ToSet(parts) = {parts[p] : p \in 1..k}
    BY <1>1 DEF ToSet
  <2>3. UNION {ToSet(t) : t \in ToSet(parts)} = UNION {ToSet(parts[p]) : p \in 1..k}
    BY <2>2
  <2>. QED
    BY <2>1, <2>3 DEF Partition
<1>5. Len(flat) = n
  <2>1. Cardinality(ToSet(flat)) = Len(flat)
    BY <1>2, <1>3, DistinctSize
  <2>2. 1 \in Int /\ n \in Int /\ n \in Nat
    BY LenProperties
  <2>. HIDE DEF n
  <2>3. Cardinality(1..n) = n
    BY <2>2, FS_Interval
  <2>. QED
    BY <1>4, <2>1, <2>3
<1>. QED
  BY <1>2, <1>3, <1>4, <1>5

\* The tokens of the parts are the tokens of the batch.
Weights(ls, parts) == [p \in DOMAIN parts |-> Weight(ls, parts[p])]

\* The sum of the tokens of the parts.
LEMMA TotalWeight ==
    ASSUME NEW ls \in Seq(Nat), NEW k \in Nat, NEW parts, Partition(ls, parts, k)
    PROVE  /\ Weights(ls, parts) \in Seq(Int) /\ Len(Weights(ls, parts)) = k
           /\ \A p \in 1..k : Weights(ls, parts)[p] = Weight(ls, parts[p])
           /\ Sum(Weights(ls, parts)) = Sum(ls)
<1>. DEFINE n == Len(ls)
            I == 1..n
            all == MappedAll(ls, parts)
            w == Weights(ls, parts)
<1>1. parts \in Seq(Seq(I)) /\ Len(parts) = k /\ DOMAIN parts = 1..k
  BY LenProperties DEF Partition
<1>2. ls \in [I -> Int] /\ ls \in Seq(Int)
  BY LenProperties
<1>3. \A p \in 1..k : parts[p] \in Seq(I)
  BY <1>1, ElementOfSeq
<1>4. ASSUME NEW p \in 1..k PROVE Mapped(ls, parts[p]) \in Seq(Int)
  <2>. DEFINE t == parts[p]
  <2>1. t \in Seq(I)
    BY <1>3
  <2>. HIDE DEF t, I
  <2>2. Mapped(ls, t) \in Seq(Int)
    BY <1>2, <2>1, MappedType
  <2>. QED
    BY <2>2 DEF t
<1>5. DOMAIN all = 1..k /\ \A p \in 1..k : all[p] = Mapped(ls, parts[p])
  BY <1>1 DEF MappedAll
<1>6. all \in Seq(Seq(Int))
  <2>1. all = [p \in 1..k |-> all[p]]
    BY <1>1 DEF MappedAll
  <2>2. all \in [1..k -> Seq(Int)]
    BY <1>4, <1>5, <2>1
  <2>. QED
    BY ONLY <2>2, k \in Nat, SeqDef
<1>7. w = [p \in DOMAIN all |-> Sum(all[p])]
  BY <1>1, <1>5 DEF Weights, Weight
<1>8. ASSUME NEW p \in 1..k PROVE w[p] = Weight(ls, parts[p]) /\ w[p] \in Int
  BY <1>1, <1>4, SumType DEF Weights, Weight
<1>9. w \in Seq(Int) /\ Len(w) = k
  <2>1. w = [p \in 1..k |-> w[p]] /\ DOMAIN w = 1..k
    BY <1>1 DEF Weights
  <2>. HIDE DEF w
  <2>2. w \in [1..k -> Int]
    BY <1>8, <2>1
  <2>3. w \in Seq(Int)
    BY ONLY <2>2, k \in Nat, SeqDef
  <2>4. Len(w) \in Nat /\ DOMAIN w = 1..Len(w)
    BY <2>3, LenProperties
  <2>. QED
    BY <2>1, <2>3, <2>4, SameInterval
<1>10. /\ FlattenSeq(parts) \in Seq(I) /\ Distinct(FlattenSeq(parts))
       /\ ToSet(FlattenSeq(parts)) = I
  BY FlatPartition
<1>. HIDE DEF I, w, all
<1>11. Sum(FlattenSeq(all)) = Sum(w)
  BY <1>6, <1>7, SumFlat
<1>12. FlattenSeq(all) = Mapped(ls, FlattenSeq(parts))
  BY <1>1, <1>2, FlatMapped DEF all
<1>13. Sum(Mapped(ls, FlattenSeq(parts))) = Sum(ls)
  <2>. DEFINE s == FlattenSeq(parts)
  <2>1. s \in Seq(Int) /\ ToSet(s) = 1..Len(ls) /\ Distinct(s)
    BY <1>10 DEF I
  <2>. HIDE DEF s
  <2>2. Sum(Mapped(ls, s)) = Sum(ls)
    BY <1>2, <2>1, SumReordered
  <2>. QED
    BY <2>2 DEF s
<1>. QED
  BY <1>8, <1>9, <1>11, <1>12, <1>13 DEF w
-----------------------------------------------------------------------------
\* Of numbers not below m, one of which is above it, the sum is above too.
LEMMA SumAbove ==
    ASSUME NEW s \in Seq(Int), NEW m \in Int, \A i \in 1..Len(s) : s[i] >= m,
           NEW j \in 1..Len(s), s[j] > m
    PROVE  Sum(s) > Len(s) * m
<1>. DEFINE Above(q) == (\A i \in 1..Len(q) : q[i] >= m) /\ \E i \in 1..Len(q) : q[i] > m
            G == {q \in Seq(Int) : Above(q) => Sum(q) > Len(q) * m}
<1>1. <<>> \in G
  BY EmptySeq
<1>2. ASSUME NEW q \in Seq(Int), NEW e \in Int, q \in G PROVE Append(q, e) \in G
  <2>1. Append(q, e) \in Seq(Int) /\ Len(Append(q, e)) = Len(q) + 1 /\ Len(q) \in Nat
    BY AppendProperties, LenProperties
  <2>2. /\ Append(q, e)[Len(q) + 1] = e
        /\ \A i \in 1..Len(q) : Append(q, e)[i] = q[i]
    BY AppendProperties
  <2>3. Sum(Append(q, e)) = Sum(q) + e /\ Sum(q) \in Int
    BY SumAppend, SumType
  <2>4. SUFFICES ASSUME Above(Append(q, e))
                 PROVE  Sum(Append(q, e)) > Len(Append(q, e)) * m
    BY <2>1
  <2>. DEFINE r == Append(q, e)
              n == Len(q)
  <2>. HIDE DEF r, n
  <2>5. /\ r \in Seq(Int) /\ Len(r) = n + 1 /\ n \in Nat /\ r[n + 1] = e
        /\ \A i \in 1..n : r[i] = q[i]
    BY <2>1, <2>2 DEF r, n
  <2>6. PICK i \in 1..(n + 1) : r[i] > m
    BY <2>4, <2>5 DEF r
  <2>7. e >= m /\ \A h \in 1..n : q[h] >= m
    BY <2>4, <2>5 DEF r
  <2>8. (n + 1) * m = n * m + m /\ n * m \in Int
    BY <2>5
  <2>9. CASE i = n + 1
    <3>1. Sum(q) >= n * m
      BY <2>7, SumAtLeast DEF n
    <3>. QED
      BY <2>3, <2>5, <2>6, <2>8, <2>9, <3>1 DEF r
  <2>10. CASE i \in 1..n
    <3>1. q[i] > m
      BY <2>5, <2>6, <2>10
    <3>2. Sum(q) > n * m
      BY <1>2, <2>7, <2>10, <3>1 DEF n
    <3>. QED
      BY <2>3, <2>5, <2>7, <2>8, <3>2 DEF r
  <2>. QED
    BY <2>5, <2>9, <2>10
<1>3. \A q \in Seq(Int) : q \in G
  <2>. HIDE DEF G
  <2>. QED
    BY <1>1, <1>2, Appending
<1>. QED
  BY <1>3

\* Numbers not above m have a sum not above as often m.
LEMMA SumAtMost ==
    ASSUME NEW s \in Seq(Int), NEW m \in Int, \A i \in 1..Len(s) : s[i] <= m
    PROVE  Sum(s) <= Len(s) * m
<1>. DEFINE G == {q \in Seq(Int) : (\A i \in 1..Len(q) : q[i] <= m) => Sum(q) <= Len(q) * m}
<1>1. <<>> \in G
  BY EmptySeq, SumEmpty
<1>2. ASSUME NEW q \in Seq(Int), NEW e \in Int, q \in G PROVE Append(q, e) \in G
  <2>1. SUFFICES ASSUME \A i \in 1..Len(Append(q, e)) : Append(q, e)[i] <= m
                 PROVE  Sum(Append(q, e)) <= Len(Append(q, e)) * m
    BY AppendProperties
  <2>2. Append(q, e) \in Seq(Int) /\ Len(Append(q, e)) = Len(q) + 1 /\ Len(q) \in Nat
    BY AppendProperties, LenProperties
  <2>3. /\ Append(q, e)[Len(q) + 1] = e
        /\ \A i \in 1..Len(q) : Append(q, e)[i] = q[i]
    BY AppendProperties
  <2>4. Sum(Append(q, e)) = Sum(q) + e /\ Sum(q) \in Int
    BY SumAppend, SumType
  <2>5. e <= m /\ \A i \in 1..Len(q) : q[i] <= m
    BY <2>1, <2>2, <2>3
  <2>6. Sum(q) <= Len(q) * m
    BY <1>2, <2>5
  <2>7. (Len(q) + 1) * m = Len(q) * m + m /\ Len(q) * m \in Int
    BY <2>2
  <2>. DEFINE n == Len(q)
  <2>. HIDE DEF n
  <2>. QED
    BY <2>2, <2>4, <2>5, <2>6, <2>7 DEF n
<1>3. \A q \in Seq(Int) : q \in G
  <2>. HIDE DEF G
  <2>. QED
    BY <1>1, <1>2, Appending
<1>. QED
  BY <1>3

\* The micro batches are a balanced partition.
LEMMA MicroParts ==
    ASSUME NEW ls \in Seq(Nat), NEW num \in 1..Len(ls)
    PROVE  /\ Partition(ls, MicroBatches(ls, num), num)
           /\ Close(ls, MicroBatches(ls, num), Most(ls, FALSE))
<1>. DEFINE parts == BalancedPartitions(ls, num, FALSE)
            u == HeavyFirst(ls, parts)
            I == 1..Len(ls)
            most == Most(ls, FALSE)
<1>1. MicroBatches(ls, num) = u
  BY DEF MicroBatches
<1>2. Partition(ls, parts, num) /\ Close(ls, parts, most)
  <2>. DEFINE equal == FALSE
  <2>1. equal \in BOOLEAN /\ (equal => Len(ls) % num = 0)
    OBVIOUS
  <2>. HIDE DEF equal
  <2>2. /\ Partition(ls, BalancedPartitions(ls, num, equal), num)
        /\ Close(ls, BalancedPartitions(ls, num, equal), Most(ls, equal))
    BY <2>1, Partitioned
  <2>. QED
    BY <2>2 DEF equal
<1>3. num \in Nat
  BY LenProperties
<1>4. parts \in Seq(Seq(I)) /\ Len(parts) = num
  BY <1>2 DEF Partition
<1>. HIDE DEF parts, most, I
<1>5. u \in Seq(Seq(I)) /\ Rearranged(parts, u)
  BY <1>4, HeavyRearranges
<1>. HIDE DEF u
<1>6. Partition(ls, u, num)
  BY <1>2, <1>3, <1>5, RearrangedPartition DEF I
<1>7. Close(ls, u, most)
  <2>1. PICK pi : Places(parts, u, pi)
    BY <1>5 DEF Rearranged
  <2>2. \A i \in 1..num : pi[i] \in 1..num /\ u[i] = parts[pi[i]]
    BY <1>4, <2>1 DEF Places
  <2>3. Len(u) = num
    BY <1>4, <1>5 DEF Rearranged
  <2>4. \A i, j \in 1..num : Weight(ls, parts[i]) - Weight(ls, parts[j]) <= most
    BY <1>2, <1>4 DEF Close
  <2>5. SUFFICES ASSUME NEW p \in 1..num, NEW q \in 1..num
                 PROVE  Weight(ls, u[p]) - Weight(ls, u[q]) <= most
    BY <2>3 DEF Close
  <2>6. /\ Weight(ls, parts[pi[p]]) - Weight(ls, parts[pi[q]]) <= most
        /\ u[p] = parts[pi[p]] /\ u[q] = parts[pi[q]]
    BY <2>2, <2>4
  <2>. QED
    BY <2>6
<1>. QED
  BY <1>1, <1>6, <1>7 DEF most

\* Rows that all have tokens.
Rows(ls) == ls \in Seq(Nat) /\ ls # <<>> /\ \A i \in 1..Len(ls) : ls[i] > 0

\* The number of micro batches: at least one, at most one for each row, and enough
\* for all tokens if no row has too many.
LEMMA MicroCount ==
    ASSUME NEW ls, Rows(ls), NEW max \in Nat \ {0}
    PROVE  /\ NumMicroBatches(ls, max) \in 1..Len(ls)
           /\ (\A i \in 1..Len(ls) : ls[i] <= max) =>
                 Total(ls) <= NumMicroBatches(ls, max) * max
<1>. DEFINE n == Len(ls)
            t == Total(ls)
            c == CeilDiv(t, max)
            k == NumMicroBatches(ls, max)
<1>1. ls \in Seq(Int) /\ n \in Nat \ {0} /\ \A i \in 1..n : ls[i] \in Nat /\ ls[i] >= 1
  BY EmptySeq, LenProperties, ElementOfSeq DEF Rows
<1>2. t \in Int /\ t = Sum(ls)
  BY <1>1, SumType DEF Total
<1>3. t >= n * 1
  BY <1>1, <1>2, SumAtLeast
<1>. DEFINE x == t + max - 1
<1>4. x \in Nat /\ t \in Nat /\ t >= 1
  <2>. HIDE DEF n, t
  <2>. QED
    BY <1>1, <1>2, <1>3
<1>5. c = x \div max
  BY DEF CeilDiv
<1>. HIDE DEF x
<1>6. c \in Nat /\ c * max <= x /\ x < c * max + max
  BY <1>4, <1>5, DivisionBounds
<1>. HIDE DEF t, c
<1>7. t <= c * max /\ c >= 1
  <2>1. t <= c * max
    <3>. DEFINE y == c * max
    <3>1. y \in Int
      BY <1>6
    <3>. HIDE DEF y
    <3>2. x < y + max
      BY <1>6 DEF y
    <3>. QED
      BY <1>4, <3>1, <3>2 DEF x, y
  <2>2. c # 0
    BY <1>4, <2>1
  <2>. QED
    BY <1>6, <2>1, <2>2
<1>8. k = Min({n, c})
  BY DEF NumMicroBatches, c, t
<1>. HIDE DEF n
<1>9. k \in {n, c} /\ k <= n /\ k \in Nat
  <2>1. {n, c} \subseteq Nat /\ {n, c} # {}
    BY <1>1, <1>6
  <2>. QED
    BY <1>8, <2>1, MinIsLeast
<1>. HIDE DEF k
<1>10. k \in 1..n
  BY <1>1, <1>6, <1>7, <1>9
<1>11. ASSUME \A i \in 1..n : ls[i] <= max PROVE t <= k * max
  <2>1. CASE k = c
    BY <1>7, <2>1
  <2>2. CASE k = n
    BY <1>1, <1>2, <1>11, <2>2, SumAtMost DEF n
  <2>. QED
    BY <1>9, <2>1, <2>2
<1>. QED
  BY <1>10, <1>11 DEF k, n, t

\* No micro batch has as many tokens as max and the longest row.
LEMMA MicroFits ==
    ASSUME NEW ls, Rows(ls), NEW max \in Nat \ {0}, \A i \in 1..Len(ls) : ls[i] <= max
    PROVE  /\ NumMicroBatches(ls, max) \in 1..Len(ls)
           /\ \A p \in 1..NumMicroBatches(ls, max) :
                 Weight(ls, MicroBatches(ls, NumMicroBatches(ls, max))[p])
                     < max + Max(ToSet(ls))
<1>. DEFINE k == NumMicroBatches(ls, max)
            parts == MicroBatches(ls, k)
            w == Weights(ls, parts)
            top == Max(ToSet(ls))
<1>1. k \in 1..Len(ls) /\ Total(ls) <= k * max
  BY MicroCount
<1>2. ls \in Seq(Nat) /\ ls \in Seq(Int) /\ Len(ls) \in Nat /\ k \in Nat
  BY <1>1, LenProperties DEF Rows
<1>. HIDE DEF k
<1>3. Partition(ls, parts, k) /\ Close(ls, parts, Most(ls, FALSE))
  BY <1>1, <1>2, MicroParts
<1>4. top \in Nat /\ top >= 1 /\ Most(ls, FALSE) = top
  <2>1. top \in ToSet(ls) /\ \A y \in ToSet(ls) : top >= y
    BY <1>2, Greatest DEF Rows
  <2>2. ToSet(ls) \subseteq Nat /\ ls[1] \in ToSet(ls) /\ ls[1] > 0
    <3>1. 1 \in 1..Len(ls)
      BY <1>1, <1>2
    <3>. QED
      BY <1>2, <3>1, ElementsType DEF Rows
  <2>. HIDE DEF top
  <2>3. top \in Nat /\ top >= 1
    BY <2>1, <2>2
  <2>. QED
    BY <2>3 DEF Most, top
<1>. HIDE DEF parts, top
<1>5. /\ w \in Seq(Int) /\ Len(w) = k /\ (\A p \in 1..k : w[p] = Weight(ls, parts[p]))
      /\ Sum(w) = Sum(ls)
  BY <1>2, <1>3, TotalWeight
<1>. HIDE DEF w
<1>6. \A p \in 1..k : w[p] \in Int
  BY <1>5, ElementOfSeq
<1>7. \A p, q \in 1..k : w[p] - w[q] <= top
  <2>1. Len(parts) = k
    BY <1>3 DEF Partition
  <2>. QED
    BY <1>3, <1>4, <1>5, <2>1 DEF Close
<1>8. ASSUME NEW p \in 1..k PROVE w[p] < max + top
  <2>1. SUFFICES ASSUME w[p] >= max + top PROVE FALSE
    BY <1>4, <1>6
  <2>2. \A q \in 1..k : w[q] >= max
    BY <1>4, <1>6, <1>7, <2>1
  <2>3. w[p] > max
    BY <1>4, <1>6, <2>1
  <2>4. Sum(w) > k * max
    <3>1. (\A q \in 1..Len(w) : w[q] >= max) /\ p \in 1..Len(w) /\ max \in Int
      BY <1>5, <2>2
    <3>2. Sum(w) > Len(w) * max
      BY <1>5, <2>3, <3>1, SumAbove
    <3>. QED
      BY <1>5, <3>2
  <2>5. Sum(w) \in Int /\ k * max \in Int /\ Sum(w) <= k * max
    BY <1>1, <1>2, <1>5, SumType DEF Total
  <2>. QED
    BY <2>4, <2>5
<1>. QED
  BY <1>1, <1>5, <1>8 DEF k, parts, top

\* Sums, as a sequence.
LEMMA SumsAreWeights ==
    ASSUME NEW ls \in Seq(Nat), lens = ls, NEW k \in Nat \ {0}, NEW parts, Partition(ls, parts, k)
    PROVE  /\ Sums(parts) = ToSet(Weights(ls, parts))
           /\ Weights(ls, parts) \in Seq(Int) /\ Weights(ls, parts) # <<>>
           /\ Len(Weights(ls, parts)) = k
           /\ \A p \in 1..k : Weights(ls, parts)[p] = Weight(ls, parts[p])
<1>. DEFINE w == Weights(ls, parts)
<1>1. w \in Seq(Int) /\ Len(w) = k /\ \A p \in 1..k : w[p] = Weight(ls, parts[p])
  BY TotalWeight
<1>2. w # <<>>
  BY <1>1, EmptySeq
<1>3. \A items : Tokens(items) = Weight(ls, items)
  BY DEF Tokens, Weight, Mapped
<1>4. DOMAIN parts = 1..k /\ DOMAIN w = 1..k
  BY <1>1, LenProperties DEF Partition
<1>. HIDE DEF w
<1>5. Sums(parts) = {w[p] : p \in 1..k}
  BY <1>1, <1>3, <1>4 DEF Sums
<1>6. ToSet(w) = {w[p] : p \in 1..k}
  BY <1>4 DEF ToSet
<1>. QED
  BY <1>1, <1>2, <1>5, <1>6 DEF w

\* PartitionsAreBalanced, of any partition that is close.
LEMMA BalancedDiffer ==
    ASSUME NEW ls \in Seq(Nat), lens = ls, NEW k \in Nat \ {0}, NEW parts, NEW most \in Int,
           Partition(ls, parts, k), Close(ls, parts, most)
    PROVE  Differ(Sums(parts), most)
<1>. DEFINE w == Weights(ls, parts)
            T == ToSet(w)
<1>1. /\ Sums(parts) = T /\ w \in Seq(Int) /\ w # <<>> /\ Len(w) = k
      /\ \A p \in 1..k : w[p] = Weight(ls, parts[p])
  BY SumsAreWeights
<1>2. Len(parts) = k
  BY DEF Partition
<1>3. \A p, q \in 1..k : w[p] - w[q] <= most
  BY <1>1, <1>2 DEF Close
<1>4. T = {w[p] : p \in 1..k}
  BY <1>1, LenProperties DEF ToSet
<1>5. Max(T) \in T /\ Min(T) \in T
  BY <1>1, Greatest
<1>. HIDE DEF w, T
<1>6. Max(T) - Min(T) <= most
  BY <1>3, <1>4, <1>5
<1>. QED
  BY <1>1, <1>6 DEF Differ

\* PartitionsAreSound, of any partition.
LEMMA PartitionIsSound ==
    ASSUME NEW ls \in Seq(Nat), lens = ls, NEW k \in Nat \ {0}, NEW parts, NEW equal \in BOOLEAN,
           Partition(ls, parts, k), equal => SameSizes(ls, parts)
    PROVE  PartitionsAreSound(parts, k, equal)
<1>. DEFINE flat == FlattenSeq(parts)
<1>1. flat \in Seq(1..Len(ls)) /\ Distinct(flat) /\ ToSet(flat) = 1..Len(ls)
  BY FlatPartition
<1>2. Items = 1..Len(ls)
  BY LenProperties DEF Items
<1>3. DOMAIN flat = 1..Len(flat)
  BY <1>1, LenProperties
<1>. HIDE DEF flat
<1>4. IsInjective(flat) /\ ToSet(flat) = Items
  BY <1>1, <1>2, <1>3 DEF IsInjective, Distinct
<1>5. Len(parts) = k /\ \A p \in 1..k : parts[p] # <<>>
  BY DEF Partition
<1>6. ASSUME equal PROVE \A p \in 1..k : Len(parts[p]) * k = Len(lens)
  BY <1>5, <1>6 DEF SameSizes
<1>. QED
  BY <1>4, <1>5, <1>6 DEF PartitionsAreSound, flat

\* Both, of what get_seqlen_balanced_partitions returns.
LEMMA PartitionsSound ==
    ASSUME NEW ls \in Seq(Nat), lens = ls, NEW k \in Items, NEW equal \in BOOLEAN,
           equal => k \in Divisors
    PROVE  PartitionsInOrder(BalancedPartitions(lens, k, equal), k, equal)
<1>. DEFINE parts == BalancedPartitions(ls, k, equal)
            most == Most(ls, equal)
<1>1. k \in 1..Len(ls) /\ k \in Nat \ {0} /\ (equal => Len(ls) % k = 0) /\ ls # <<>>
  BY LenProperties, EmptySeq DEF Items, Divisors
<1>2. /\ Partition(ls, parts, k) /\ Close(ls, parts, most)
      /\ equal => SameSizes(ls, parts)
  BY <1>1, Partitioned
<1>3. most \in Int
  BY <1>1, MostIsMost
<1>. HIDE DEF parts, most
<1>4. PartitionsAreSound(parts, k, equal)
  BY <1>1, <1>2, PartitionIsSound
<1>5. Differ(Sums(parts), most)
  BY <1>1, <1>2, <1>3, BalancedDiffer
<1>6. PartitionsAreBalanced(parts, equal)
  BY <1>5 DEF PartitionsAreBalanced, Most, most
<1>. QED
  BY <1>4, <1>6 DEF PartitionsInOrder, parts

\* What the invariants ask of the lengths.
LEMMA PositiveRows ==
    ASSUME NEW ls \in Seq(Nat), ls # <<>>, Min(ToSet(ls)) > 0
    PROVE  Rows(ls)
<1>. DEFINE T == ToSet(ls)
<1>1. ls \in Seq(Int) /\ T \subseteq Nat /\ \A i \in 1..Len(ls) : ls[i] \in T
  BY ElementsType
<1>2. Min(T) \in T /\ \A y \in T : Min(T) <= y
  BY <1>1, Greatest
<1>. HIDE DEF T
<1>3. ASSUME NEW i \in 1..Len(ls) PROVE ls[i] > 0
  <2>. DEFINE m == Min(T)
  <2>1. m \in Nat /\ m > 0 /\ ls[i] \in Nat /\ m <= ls[i]
    BY <1>1, <1>2 DEF T
  <2>. HIDE DEF m
  <2>. QED
    BY <2>1
<1>. QED
  BY <1>3 DEF Rows

\* The least number of tokens a micro batch may have is a row's.
LEMMA MaxHasRoom ==
    ASSUME NEW ls \in Seq(Nat)
    PROVE  /\ Max(ToSet(ls) \cup {1}) \in Nat \ {0}
           /\ \A i \in 1..Len(ls) : ls[i] <= Max(ToSet(ls) \cup {1})
<1>. DEFINE s == Append(ls, 1)
<1>1. s \in Seq(Nat) /\ s \in Seq(Int) /\ s # <<>> /\ ToSet(s) = ToSet(ls) \cup {1}
  <2>1. s \in Seq(Nat) /\ Len(s) = Len(ls) + 1 /\ Len(ls) \in Nat
    BY AppendProperties, LenProperties
  <2>2. ToSet(s) = ToSet(ls) \cup {1}
    BY ElementsAppend
  <2>. HIDE DEF s
  <2>. QED
    BY <2>1, <2>2, EmptySeq
<1>. DEFINE T == ToSet(ls) \cup {1}
<1>2. Max(T) \in T /\ \A y \in T : Max(T) >= y
  BY <1>1, Greatest
<1>3. T \subseteq Nat /\ 1 \in T /\ \A i \in 1..Len(ls) : ls[i] \in T
  BY ElementsType
<1>. HIDE DEF T
<1>4. Max(T) \in Nat /\ Max(T) >= 1
  BY <1>2, <1>3
<1>5. ASSUME NEW i \in 1..Len(ls) PROVE ls[i] <= Max(T)
  BY <1>2, <1>3, <1>4
<1>6. Max(T) \in Nat \ {0} /\ \A i \in 1..Len(ls) : ls[i] <= Max(T)
  BY <1>4, <1>5
<1>. QED
  BY <1>6 DEF T

\* MicroBatchesFit for every lengths of the rows.
LEMMA MicroBatchesFitAny == ASSUME NEW ls \in Seq(Nat), lens = ls PROVE MicroBatchesFit
<1>1. SUFFICES ASSUME NEW max \in Max(ToSet(ls) \cup {1})..(Total(ls) + 1),
                      ls # <<>>, Min(ToSet(ls)) > 0
               PROVE  Max(Sums(MicroBatches(ls, NumMicroBatches(ls, max)))) < max + Max(ToSet(ls))
  BY DEF MicroBatchesFit, Largest
<1>. DEFINE low == Max(ToSet(ls) \cup {1})
<1>2. low \in Nat \ {0} /\ \A i \in 1..Len(ls) : ls[i] <= low /\ ls[i] \in Nat
  BY MaxHasRoom, ElementOfSeq
<1>3. Total(ls) \in Int
  BY SumType DEF Total
<1>4. max \in low..(Total(ls) + 1)
  BY <1>1
<1>. HIDE DEF low
<1>5. max \in Nat \ {0} /\ \A i \in 1..Len(ls) : ls[i] <= max
  BY <1>2, <1>3, <1>4
<1>6. Rows(ls)
  BY <1>1, PositiveRows
<1>. DEFINE k == NumMicroBatches(ls, max)
            parts == MicroBatches(ls, k)
            w == Weights(ls, parts)
            top == Max(ToSet(ls))
<1>7. k \in 1..Len(ls) /\ \A p \in 1..k : Weight(ls, parts[p]) < max + top
  BY <1>5, <1>6, MicroFits
<1>. HIDE DEF k, top
<1>8. Partition(ls, parts, k) /\ k \in Nat \ {0}
  <2>1. Partition(ls, MicroBatches(ls, k), k)
    BY <1>7, MicroParts
  <2>2. Len(ls) \in Nat
    BY LenProperties
  <2>. QED
    BY <1>7, <2>1, <2>2
<1>. HIDE DEF parts
<1>9. /\ Sums(parts) = ToSet(w) /\ w \in Seq(Int) /\ w # <<>> /\ Len(w) = k
      /\ \A p \in 1..k : w[p] = Weight(ls, parts[p])
  BY <1>8, SumsAreWeights
<1>. HIDE DEF w
<1>10. Max(ToSet(w)) \in ToSet(w)
  BY <1>9, Greatest
<1>11. ToSet(w) = {w[p] : p \in 1..k}
  BY <1>9, LenProperties DEF ToSet
<1>12. PICK p \in 1..k : Max(ToSet(w)) = w[p]
  BY <1>10, <1>11
<1>13. Max(Sums(parts)) < max + top
  BY <1>7, <1>9, <1>12
<1>. QED
  BY <1>13 DEF parts, k, top

\* BalancingIsSound for every lengths of the rows.
LEMMA BalancingAny == ASSUME NEW ls \in Seq(Nat), lens = ls PROVE BalancingIsSound
<1>1. ASSUME NEW k \in Items, NEW equal \in BOOLEAN, equal => k \in Divisors
      PROVE  PartitionsInOrder(BalancedPartitions(lens, k, equal), k, equal)
  BY <1>1, PartitionsSound
<1>2. MicroBatchesFit
  BY MicroBatchesFitAny
<1>. QED
  BY <1>1, <1>2 DEF BalancingIsSound

\* Results in the order of the parts come back in the order of the rows.
LEMMA RestoredRows ==
    ASSUME NEW ls \in Seq(Nat), NEW k \in Nat, NEW parts, Partition(ls, parts, k),
           NEW rows, DOMAIN rows = 1..Len(ls)
    PROVE  Restored(rows, parts) = [i \in 1..Len(ls) |-> rows[i].response]
<1>. DEFINE n == Len(ls)
            I == 1..n
            flat == FlattenSeq(parts)
            f == [i \in I |-> rows[i].response]
            T == {f[i] : i \in I}
            results == Results(Passes(rows, parts))
            back == ReverseIdx(flat)
<1>1. n \in Nat /\ f \in [I -> T]
  BY LenProperties
<1>2. /\ flat \in Seq(I) /\ Distinct(flat) /\ ToSet(flat) = I /\ Len(flat) = n
  BY FlatPartition
<1>3. parts \in Seq(Seq(I)) /\ DOMAIN parts = 1..k /\ \A p \in 1..k : parts[p] \in Seq(I)
  BY LenProperties, ElementOfSeq DEF Partition
<1>4. results = FlattenSeq(MappedAll(f, parts))
  <2>. DEFINE passes == Passes(rows, parts)
              g == [p \in DOMAIN passes |-> [i \in DOMAIN passes[p] |-> passes[p][i].response]]
  <2>1. results = FlattenSeq(g)
    BY DEF Results
  <2>2. DOMAIN passes = 1..k /\ \A p \in 1..k : passes[p] = [i \in DOMAIN parts[p] |-> rows[parts[p][i]]]
    BY <1>3 DEF Passes, Reorder
  <2>. HIDE DEF passes
  <2>3. ASSUME NEW p \in 1..k PROVE g[p] = Mapped(f, parts[p])
    <3>. DEFINE t == parts[p]
    <3>1. DOMAIN t = 1..Len(t) /\ \A i \in 1..Len(t) : t[i] \in I
      <4>1. t \in Seq(I)
        BY <1>3
      <4>. HIDE DEF t, I
      <4>. QED
        BY <4>1, LenProperties, ElementOfSeq
    <3>2. g[p] = [i \in DOMAIN t |-> rows[t[i]].response]
      BY <2>2
    <3>. HIDE DEF g, t
    <3>3. \A i \in DOMAIN t : rows[t[i]].response = f[t[i]]
      BY <3>1
    <3>. HIDE DEF f
    <3>. QED
      BY <3>2, <3>3 DEF Mapped, t
  <2>4. g = [p \in 1..k |-> g[p]]
    BY <2>2
  <2>5. MappedAll(f, parts) = [p \in 1..k |-> Mapped(f, parts[p])]
    BY <1>3 DEF MappedAll
  <2>. HIDE DEF g, f
  <2>6. g = MappedAll(f, parts)
    BY <2>3, <2>4, <2>5
  <2>. QED
    BY <2>1, <2>6
<1>. HIDE DEF f, T, I, results, flat
<1>5. results = Mapped(f, flat)
  BY <1>1, <1>3, <1>4, FlatMapped DEF flat
<1>6. DOMAIN flat = I
  BY <1>2, LenProperties DEF I
<1>7. DOMAIN back = I /\ \A j \in I : back[j] = CHOOSE i \in I : flat[i] = j
  BY <1>6 DEF ReverseIdx
<1>8. \A j \in I : \E i \in I : flat[i] = j
  BY <1>2, <1>6 DEF ToSet
<1>9. \A j \in I : back[j] \in I /\ flat[back[j]] = j
  BY <1>7, <1>8
<1>. HIDE DEF back
<1>10. ASSUME NEW j \in I PROVE results[back[j]] = f[j]
  BY <1>5, <1>6, <1>9 DEF Mapped
<1>11. Restored(rows, parts) = [j \in I |-> results[back[j]]]
  BY <1>7 DEF Restored, Restore, results, back, flat
<1>12. Restored(rows, parts) = [j \in I |-> f[j]]
  BY <1>10, <1>11
<1>. QED
  BY <1>12 DEF f, I

\* Chunks of equal size, and together the batch.
IsChunks(ch, b, n, size) ==
    /\ Len(ch) = n /\ DOMAIN ch = 1..n
    /\ \A c \in 1..n : Len(ch[c]) = size /\ DOMAIN ch[c] = 1..size
    /\ \A c \in 1..n : \A i \in 1..size : ch[c][i] = b[(c - 1) * size + i]

\* The places of chunk c.
LEMMA ChunkRange ==
    ASSUME NEW n \in Nat \ {0}, NEW size \in Nat, NEW c \in 1..n
    PROVE  (c - 1) * size \in Nat /\ (c - 1) * size + size = c * size /\ c * size <= size * n
<1>1. c = n \/ c * size + size <= n * size
  BY BlocksApart
<1>2. n * size = size * n /\ c * size \in Nat /\ (c - 1) * size \in Nat
  OBVIOUS
<1>3. (c - 1) * size + size = c * size
  OBVIOUS
<1>. QED
  BY <1>1, <1>2, <1>3

\* DataProto.chunk cuts such chunks.
LEMMA ChunksOf ==
    ASSUME NEW S, NEW b \in Seq(S), NEW n \in Nat \ {0}, NEW size \in Nat, Len(b) = size * n
    PROVE  /\ Chunk(b, n) \in Seq(Seq(S)) /\ IsChunks(Chunk(b, n), b, n, size)
           /\ FlattenSeq(Chunk(b, n)) = b
<1>. DEFINE N == Len(b)
            ch == Chunk(b, n)
            cut == [c \in 0..n |-> c * size]
<1>1. N \in Nat /\ N \div n = size
  <2>1. (size * n) \div n = size
    OBVIOUS
  <2>. QED
    BY <2>1, LenProperties
<1>2. ch = [c \in 1..n |-> SubSeq(b, (c - 1) * size + 1, c * size)]
  BY <1>1 DEF Chunk
<1>. HIDE DEF ch
<1>3. ASSUME NEW c \in 1..n
      PROVE  /\ ch[c] \in Seq(S) /\ Len(ch[c]) = size /\ DOMAIN ch[c] = 1..size
             /\ \A i \in 1..size : ch[c][i] = b[(c - 1) * size + i]
  <2>. DEFINE lo == (c - 1) * size
              t == [i \in 1..size |-> b[lo + i]]
  <2>1. lo \in Nat /\ lo + size <= N /\ c * size = lo + size
    BY ChunkRange
  <2>2. ch[c] = SubSeq(b, lo + 1, lo + size)
    BY <1>2, <2>1
  <2>. HIDE DEF lo, N
  <2>3. SubSeq(b, lo + 1, lo + size) = t
    BY <2>1
  <2>4. \A i \in 1..size : lo + i \in 1..N
    BY <1>1, <2>1
  <2>5. \A i \in 1..N : b[i] \in S
    BY ElementOfSeq DEF N
  <2>6. t = [i \in 1..size |-> t[i]] /\ \A i \in 1..size : t[i] \in S /\ t[i] = b[lo + i]
    BY <2>4, <2>5
  <2>. HIDE DEF t
  <2>7. t \in Seq(S) /\ Len(t) = size /\ DOMAIN t = 1..size
    BY <2>6, SequenceOf
  <2>. QED
    BY <2>2, <2>3, <2>6, <2>7 DEF lo
<1>4. ch \in Seq(Seq(S)) /\ Len(ch) = n /\ DOMAIN ch = 1..n
  <2>1. ch = [c \in 1..n |-> ch[c]] /\ \A c \in 1..n : ch[c] \in Seq(S)
    BY <1>2, <1>3
  <2>2. n \in Nat
    OBVIOUS
  <2>. QED
    BY <2>1, <2>2, SequenceOf
<1>5. IsChunks(ch, b, n, size)
  BY <1>3, <1>4 DEF IsChunks
<1>6. cut \in [0..Len(ch) -> 0..Len(b)]
  <2>1. ASSUME NEW c \in 0..n PROVE c * size \in 0..Len(b)
    <3>1. CASE c = 0
      BY <1>1, <3>1
    <3>2. CASE c \in 1..n
      <4>1. (c - 1) * size \in Nat /\ (c - 1) * size + size = c * size /\ c * size <= size * n
        BY <3>2, ChunkRange
      <4>. QED
        BY <1>1, <4>1
    <3>. QED
      BY <3>1, <3>2
  <2>. QED
    BY <1>4, <2>1
<1>7. Pieces(ch, b, cut)
  <2>1. cut[0] = 0
    OBVIOUS
  <2>2. ASSUME NEW c \in 1..n
        PROVE  cut[c - 1] <= cut[c] /\ ch[c] = SubSeq(b, cut[c - 1] + 1, cut[c])
    <3>1. cut[c] = c * size /\ cut[c - 1] = (c - 1) * size
      OBVIOUS
    <3>2. (c - 1) * size + size = c * size /\ (c - 1) * size \in Nat
      BY ChunkRange
    <3>3. (c - 1) * size <= c * size
      BY <3>2
    <3>. HIDE DEF cut
    <3>. QED
      BY <1>2, <3>1, <3>3
  <2>. HIDE DEF cut
  <2>. QED
    BY <1>4, <2>1, <2>2 DEF Pieces
<1>8. cut[n] = N
  <2>1. cut[n] = n * size /\ n * size = size * n
    OBVIOUS
  <2>. QED
    BY <2>1
<1>. HIDE DEF cut
<1>9. FlattenSeq(ch) = SubSeq(b, 1, cut[Len(ch)])
  BY <1>4, <1>6, <1>7, FlatPieces
<1>10. FlattenSeq(ch) = b
  <2>1. FlattenSeq(ch) = SubSeq(b, 1, Len(b))
    BY <1>4, <1>8, <1>9
  <2>. QED
    BY <2>1, SubSeqFull
<1>. QED
  BY <1>4, <1>5, <1>10 DEF ch

\* What a worker answers to a request.
Answer(ls, S) == [r \in S |-> [uid |-> r.uid, response |-> r.at, len |-> ls[r.at]]]
\* The answers to a numbered batch.
Answers(b, ls) == [i \in 1..Len(b) |-> [uid |-> b[i].uid, response |-> i, len |-> ls[i]]]

\* Cut into chunks and concatenated again, each request has its own answer.
LEMMA AnswersInOrder ==
    ASSUME NEW S, NEW b \in Seq(S), NEW ls, NEW workers \in Nat \ {0}, NEW size \in Nat,
           Len(b) = size * workers
    PROVE  GenerateSequences(Numbered(b), ls, workers) = Answers(b, ls)
<1>. DEFINE n == Len(b)
            requests == Numbered(b)
            R == {requests[i] : i \in 1..n}
            F == Answer(ls, R)
            ch == Chunk(requests, workers)
<1>1. n \in Nat /\ DOMAIN b = 1..n
  BY LenProperties
<1>2. requests = [i \in 1..n |-> [uid |-> b[i].uid, at |-> i]]
  BY <1>1 DEF Numbered
<1>3. requests \in Seq(R) /\ Len(requests) = n /\ DOMAIN requests = 1..n
  <2>1. requests = [i \in 1..n |-> requests[i]] /\ \A i \in 1..n : requests[i] \in R
    BY <1>2
  <2>. HIDE DEF requests, R, n
  <2>. QED
    BY <1>1, <2>1, SequenceOf
<1>4. \A i \in 1..n : requests[i] = [uid |-> b[i].uid, at |-> i]
  BY <1>2
<1>. HIDE DEF requests
<1>. DEFINE T == {F[r] : r \in R}
<1>5. F \in [R -> T]
  BY DEF Answer
<1>. HIDE DEF R
<1>6. Len(requests) = size * workers
  BY <1>3
<1>7. ch \in Seq(Seq(R)) /\ IsChunks(ch, requests, workers, size) /\ FlattenSeq(ch) = requests
  BY <1>3, <1>6, ChunksOf
<1>8. DOMAIN ch = 1..workers /\ \A c \in 1..workers : ch[c] \in Seq(R)
  BY <1>7, ElementOfSeq DEF IsChunks
<1>. DEFINE g == [w \in 1..workers |-> Rollout(ch[w], ls)]
<1>9. GenerateSequences(requests, ls, workers) = FlattenSeq(g)
  BY DEF GenerateSequences
<1>. HIDE DEF ch
<1>10. ASSUME NEW c \in 1..workers PROVE g[c] = Mapped(F, ch[c])
  <2>. DEFINE t == ch[c]
  <2>1. t \in Seq(R)
    BY <1>8
  <2>2. g[c] = Rollout(t, ls)
    OBVIOUS
  <2>. HIDE DEF t, g
  <2>3. \A i \in DOMAIN t : t[i] \in R
    BY <2>1, LenProperties, ElementOfSeq
  <2>4. Rollout(t, ls) = [i \in DOMAIN t |-> [uid |-> t[i].uid, response |-> t[i].at, len |-> ls[t[i].at]]]
    BY DEF Rollout
  <2>5. \A i \in DOMAIN t : F[t[i]] = [uid |-> t[i].uid, response |-> t[i].at, len |-> ls[t[i].at]]
    BY <2>3 DEF Answer
  <2>. HIDE DEF F
  <2>. QED
    BY <2>2, <2>4, <2>5 DEF Mapped, t
<1>11. g = MappedAll(F, ch)
  <2>1. g = [c \in 1..workers |-> g[c]]
    OBVIOUS
  <2>2. MappedAll(F, ch) = [c \in 1..workers |-> Mapped(F, ch[c])]
    BY <1>8 DEF MappedAll
  <2>. HIDE DEF g, F
  <2>. QED
    BY <1>10, <2>1, <2>2
<1>. HIDE DEF g, F, T
<1>12. FlattenSeq(g) = Mapped(F, requests)
  BY <1>5, <1>7, <1>11, FlatMapped
<1>13. \A i \in 1..n : F[requests[i]] = [uid |-> b[i].uid, response |-> i, len |-> ls[i]]
  <2>1. SUFFICES ASSUME NEW i \in 1..n
                 PROVE  F[requests[i]] = [uid |-> b[i].uid, response |-> i, len |-> ls[i]]
    OBVIOUS
  <2>2. requests[i] \in R
    BY DEF R
  <2>. QED
    <3>. DEFINE r == requests[i]
    <3>0. r \in R /\ r = [uid |-> b[i].uid, at |-> i]
      BY <1>4, <2>2
    <3>. HIDE DEF r
    <3>1. r \in R /\ r.uid = b[i].uid /\ r.at = i
      BY <3>0
    <3>2. F[r] = [uid |-> r.uid, response |-> r.at, len |-> ls[r.at]]
      BY <3>1 DEF F, Answer
    <3>. QED
      BY <3>1, <3>2 DEF r
<1>14. Mapped(F, requests) = Answers(b, ls)
  BY <1>3, <1>13 DEF Mapped, Answers
<1>. QED
  BY <1>9, <1>12, <1>14 DEF requests

\* The rows of some prompts, n of each.
LEMMA RepeatedPrompts ==
    ASSUME NEW a \in Nat, NEW n \in Nat \ {0}
    PROVE  LET b == Repeat(Prompts(a), n)
           IN  /\ b \in Seq({b[i] : i \in 1..(a * n)}) /\ Len(b) = a * n /\ DOMAIN b = 1..(a * n)
               /\ \A i \in 1..(a * n) : b[i] = [uid |-> b[i].uid]
<1>. DEFINE b == Repeat(Prompts(a), n)
            s == Prompts(a)
            N == a * n
<1>1. N \in Nat
  OBVIOUS
<1>2. s \in Seq({s[i] : i \in 1..a}) /\ Len(s) = a
  <2>1. s = [i \in 1..a |-> s[i]] /\ \A i \in 1..a : s[i] \in {s[j] : j \in 1..a}
    BY DEF Prompts
  <2>. HIDE DEF s
  <2>2. a \in Nat
    OBVIOUS
  <2>. QED
    BY <2>1, <2>2, SequenceOf
<1>3. b = [i \in 1..N |-> s[((i - 1) \div n) + 1]]
  BY <1>2 DEF Repeat
<1>4. ASSUME NEW i \in 1..N PROVE b[i] = [uid |-> b[i].uid]
  <2>. DEFINE x == i - 1
              q == x \div n
  <2>1. x \in Nat /\ x < N
    BY <1>1
  <2>. HIDE DEF x
  <2>2. q \in Nat /\ q * n <= x
    BY <2>1, DivisionBounds
  <2>3. q < a
    <3>1. SUFFICES ASSUME q >= a PROVE FALSE
      BY <2>2
    <3>. HIDE DEF q
    <3>2. q = a \/ a * n + n <= q * n
      BY <2>2, <3>1, BlocksApart
    <3>3. q * n \in Nat
      BY <2>2
    <3>. QED
      BY <1>1, <2>1, <2>2, <3>2, <3>3
  <2>4. b[i] = s[q + 1]
    BY <1>3 DEF x
  <2>5. q + 1 \in 1..a
    <3>. HIDE DEF q
    <3>. QED
      BY <2>2, <2>3
  <2>6. s[q + 1] = [uid |-> q + 1]
    BY <2>5 DEF Prompts
  <2>. QED
    BY <2>4, <2>6
<1>5. b = [i \in 1..N |-> b[i]] /\ \A i \in 1..N : b[i] \in {b[j] : j \in 1..N}
  BY <1>3
<1>. HIDE DEF b, N
<1>6. b \in Seq({b[i] : i \in 1..N}) /\ Len(b) = N /\ DOMAIN b = 1..N
  BY <1>1, <1>5, SequenceOf
<1>. QED
  BY <1>4, <1>6 DEF b, N

\* Row i of the batch as it was generated.
IsRow(row, i, ls) == row = [of |-> row.uid, uid |-> row.uid, response |-> i, len |-> ls[i]]

\* Every generated row is next to the prompt it was generated for.
LEMMA GeneratedRows ==
    ASSUME NEW ls \in Seq(Nat), NEW n \in Nat \ {0}, NEW workers \in Nat \ {0},
           Len(ls) % n = 0, Len(ls) % workers = 0
    PROVE  /\ DOMAIN Generated(ls, n, workers) = 1..Len(ls)
           /\ Generated(ls, n, workers) = [i \in 1..Len(ls) |-> Generated(ls, n, workers)[i]]
           /\ \A i \in 1..Len(ls) : IsRow(Generated(ls, n, workers)[i], i, ls)
<1>. DEFINE N == Len(ls)
            a == N \div n
            size == N \div workers
            b == Repeat(Prompts(a), n)
            S == {b[i] : i \in 1..N}
            g == Generated(ls, n, workers)
            out == GenerateSequences(Numbered(b), ls, workers)
<1>1. N \in Nat /\ a \in Nat /\ size \in Nat /\ a * n = N /\ size * workers = N
  BY LenProperties, DivisionBounds
<1>2. g = [i \in DOMAIN b |-> [of |-> b[i].uid, uid |-> out[i].uid,
                               response |-> out[i].response, len |-> out[i].len]]
  BY DEF Generated
<1>. HIDE DEF N, a, size, g
<1>3. b \in Seq(S) /\ Len(b) = N /\ DOMAIN b = 1..N
  BY <1>1, RepeatedPrompts
<1>. HIDE DEF b, S
<1>4. Len(b) = size * workers
  BY <1>1, <1>3
<1>5. out = Answers(b, ls)
  BY <1>1, <1>3, <1>4, AnswersInOrder
<1>6. ASSUME NEW i \in 1..N PROVE out[i] = [uid |-> b[i].uid, response |-> i, len |-> ls[i]]
  BY <1>3, <1>5 DEF Answers
<1>. HIDE DEF out
<1>7. ASSUME NEW i \in 1..N PROVE IsRow(g[i], i, ls)
  <2>1. g[i] = [of |-> b[i].uid, uid |-> b[i].uid, response |-> i, len |-> ls[i]]
    <3>1. out[i].uid = b[i].uid /\ out[i].response = i /\ out[i].len = ls[i]
      <4>. DEFINE x == out[i]
      <4>1. x = [uid |-> b[i].uid, response |-> i, len |-> ls[i]]
        BY <1>6
      <4>. HIDE DEF x
      <4>2. x.uid = b[i].uid /\ x.response = i /\ x.len = ls[i]
        BY <4>1
      <4>. QED
        BY <4>2 DEF x
    <3>. QED
      BY <1>2, <1>3, <3>1
  <2>. QED
    BY <2>1 DEF IsRow
<1>8. DOMAIN g = 1..N /\ g = [i \in 1..N |-> g[i]]
  BY <1>2, <1>3
<1>. QED
  BY <1>7, <1>8 DEF g, N
-----------------------------------------------------------------------------
\* A batch whose place i holds row pi[i], every row once.
IsOrder(pi, n) == pi \in Seq(1..n) /\ Len(pi) = n /\ Distinct(pi) /\ ToSet(pi) = 1..n
\* b's place i holds row pi[i].
HoldsRows(b, pi, ls) ==
    /\ b \in Seq({b[i] : i \in 1..Len(ls)}) /\ Len(b) = Len(ls)
    /\ \A i \in 1..Len(ls) : IsRow(b[i], pi[i], ls)

\* Balancing leaves every row in one place.
LEMMA BalancedRows ==
    ASSUME NEW ls \in Seq(Nat), NEW g, NEW world \in 1..Len(ls), Len(ls) % world = 0,
           g = [i \in 1..Len(ls) |-> g[i]], \A i \in 1..Len(ls) : IsRow(g[i], i, ls)
    PROVE  \E pi : IsOrder(pi, Len(ls)) /\ HoldsRows(BalanceBatch(g, world), pi, ls)
<1>. DEFINE n == Len(ls)
            parts == BalancedPartitions(ls, world, TRUE)
            pi == FlattenSeq(parts)
            b == BalanceBatch(g, world)
<1>1. n \in Nat /\ DOMAIN ls = 1..n /\ ls = [i \in 1..n |-> ls[i]]
  BY LenProperties
<1>2. Lens(g) = ls
  <2>1. Lens(g) = [i \in 1..n |-> g[i].len]
    BY DEF Lens
  <2>2. \A i \in 1..n : g[i].len = ls[i]
    BY DEF IsRow
  <2>. QED
    BY <1>1, <2>1, <2>2
<1>3. b = [i \in DOMAIN pi |-> g[pi[i]]]
  BY <1>2 DEF BalanceBatch, Reorder
<1>4. Partition(ls, parts, world)
  <2>. DEFINE equal == TRUE
  <2>1. equal \in BOOLEAN /\ (equal => Len(ls) % world = 0)
    OBVIOUS
  <2>. HIDE DEF equal
  <2>2. Partition(ls, BalancedPartitions(ls, world, equal), world)
    BY <2>1, Partitioned
  <2>. QED
    BY <2>2 DEF equal
<1>. HIDE DEF parts, b
<1>5. IsOrder(pi, n)
  <2>1. world \in Nat
    BY <1>1
  <2>. QED
    BY <1>4, <2>1, FlatPartition DEF IsOrder
<1>. HIDE DEF pi
<1>6. DOMAIN pi = 1..n /\ \A i \in 1..n : pi[i] \in 1..n
  BY <1>5, LenProperties, ElementOfSeq DEF IsOrder
<1>7. \A i \in 1..n : b[i] = g[pi[i]]
  BY <1>3, <1>6
<1>8. \A i \in 1..n : IsRow(b[i], pi[i], ls)
  BY <1>6, <1>7
<1>9. b = [i \in 1..n |-> b[i]] /\ \A i \in 1..n : b[i] \in {b[j] : j \in 1..n}
  BY <1>3, <1>6
<1>10. b \in Seq({b[j] : j \in 1..n}) /\ Len(b) = n
  BY <1>1, <1>9, SequenceOf
<1>11. HoldsRows(b, pi, ls)
  BY <1>8, <1>10 DEF HoldsRows
<1>. QED
  BY <1>5, <1>11 DEF b

\* Rows with tokens.
HasTokens(rows, m) ==
    /\ rows \in Seq({rows[i] : i \in 1..m}) /\ Len(rows) = m /\ DOMAIN rows = 1..m
    /\ \A i \in 1..m : rows[i].len \in Nat \ {0}

\* Their lengths.
LEMMA RowLengths ==
    ASSUME NEW rows, NEW m \in Nat \ {0}, HasTokens(rows, m)
    PROVE  Rows(Lens(rows)) /\ Lens(rows) \in Seq(Nat) /\ Len(Lens(rows)) = m
<1>. DEFINE s == Lens(rows)
<1>1. s = [i \in 1..m |-> s[i]] /\ \A i \in 1..m : s[i] \in Nat /\ s[i] > 0
  BY DEF Lens, HasTokens
<1>. HIDE DEF s
<1>2. \A i \in 1..m : s[i] \in Nat
  BY <1>1
<1>3. s \in Seq(Nat) /\ Len(s) = m
  <2>1. m \in Nat
    OBVIOUS
  <2>. QED
    BY <1>1, <1>2, <2>1, SequenceOf
<1>4. s # <<>>
  BY <1>3, EmptySeq
<1>5. Rows(s)
  BY <1>1, <1>3, <1>4 DEF Rows
<1>. QED
  BY <1>3, <1>5 DEF s

\* The number of micro batches all ranks agree on.
LEMMA AgreedNumber ==
    ASSUME NEW W \in Nat \ {0}, NEW chunks, DOMAIN chunks = 0..(W - 1), NEW m \in Nat \ {0},
           \A q \in 0..(W - 1) : HasTokens(chunks[q], m),
           NEW max \in Nat \ {0}, NEW r
    PROVE  MicroNumber(chunks, r, max) \in 1..m
<1>. DEFINE s == [i \in 1..W |-> NumMicroBatches(Lens(chunks[i - 1]), max)]
            T == {NumMicroBatches(Lens(chunks[q]), max) : q \in DOMAIN chunks}
<1>1. ASSUME NEW q \in 0..(W - 1) PROVE NumMicroBatches(Lens(chunks[q]), max) \in 1..m
  <2>. DEFINE rows == chunks[q]
              ls == Lens(rows)
  <2>1. HasTokens(rows, m)
    OBVIOUS
  <2>. HIDE DEF rows
  <2>2. Rows(ls) /\ Len(ls) = m
    BY <2>1, RowLengths
  <2>. HIDE DEF ls
  <2>3. NumMicroBatches(ls, max) \in 1..m
    BY <2>2, MicroCount
  <2>. QED
    BY <2>3 DEF ls, rows
<1>2. ASSUME NEW i \in 1..W PROVE s[i] \in 1..m
  <2>1. i - 1 \in 0..(W - 1)
    OBVIOUS
  <2>2. NumMicroBatches(Lens(chunks[i - 1]), max) \in 1..m
    BY <1>1, <2>1
  <2>. QED
    BY <2>2
<1>3. T = {s[i] : i \in 1..W}
  <2>1. ASSUME NEW q \in 0..(W - 1)
        PROVE  NumMicroBatches(Lens(chunks[q]), max) \in {s[i] : i \in 1..W}
    <3>1. q + 1 \in 1..W /\ q + 1 - 1 = q
      OBVIOUS
    <3>2. s[q + 1] = NumMicroBatches(Lens(chunks[q]), max)
      BY <3>1
    <3>. HIDE DEF s
    <3>. QED
      BY <3>1, <3>2
  <2>2. ASSUME NEW i \in 1..W PROVE s[i] \in T
    <3>1. i - 1 \in DOMAIN chunks
      OBVIOUS
    <3>. QED
      BY <3>1
  <2>. HIDE DEF s
  <2>. QED
    BY <2>1, <2>2
<1>4. s = [i \in 1..W |-> s[i]]
  OBVIOUS
<1>. HIDE DEF s, T
<1>5. s \in Seq(Int) /\ s # <<>> /\ DOMAIN s = 1..W
  <2>1. W \in Nat /\ \A i \in 1..W : s[i] \in Int
    BY <1>2
  <2>2. s \in Seq(Int) /\ Len(s) = W /\ DOMAIN s = 1..W
    BY <1>4, <2>1, SequenceOf
  <2>. QED
    BY <2>2, EmptySeq
<1>6. Max(ToSet(s)) \in ToSet(s)
  BY <1>5, Greatest
<1>7. ToSet(s) = T
  BY <1>3, <1>5 DEF ToSet
<1>8. Max(T) \in 1..m
  BY <1>2, <1>3, <1>6, <1>7
<1>. QED
  BY <1>8 DEF MicroNumber, T

\* A worker's results are in the order of its rows.
LEMMA ResultsInOrder ==
    ASSUME NEW rows, NEW m \in Nat \ {0}, HasTokens(rows, m), NEW num \in 1..m
    PROVE  LogProbs(rows, num) = [i \in 1..m |-> rows[i].response]
<1>. DEFINE ls == Lens(rows)
            parts == MicroBatches(ls, num)
<1>1. ls \in Seq(Nat) /\ Len(ls) = m
  BY RowLengths
<1>. HIDE DEF ls
<1>2. Partition(ls, parts, num) /\ num \in Nat /\ DOMAIN rows = 1..Len(ls)
  <2>1. num \in 1..Len(ls)
    BY <1>1
  <2>2. Partition(ls, MicroBatches(ls, num), num)
    BY <1>1, <2>1, MicroParts
  <2>3. num \in Nat /\ DOMAIN rows = 1..Len(ls)
    BY <1>1 DEF HasTokens
  <2>. QED
    BY <2>2, <2>3
<1>. HIDE DEF parts
<1>3. Restored(rows, parts) = [i \in 1..Len(ls) |-> rows[i].response]
  BY <1>1, <1>2, RestoredRows
<1>. QED
  BY <1>1, <1>3 DEF LogProbs, parts, ls

\* The chunk of a rank has its rows.
LEMMA ChunkHasTokens ==
    ASSUME NEW b, NEW dp \in Nat \ {0}, NEW size \in Nat \ {0}, HasTokens(b, size * dp),
           NEW ch, IsChunks(ch, b, dp, size), NEW S, ch \in Seq(Seq(S)), NEW c \in 1..dp
    PROVE  HasTokens(ch[c], size)
<1>. DEFINE t == ch[c]
            lo == (c - 1) * size
            n == size * dp
<1>1. lo \in Nat /\ lo + size <= n
  <2>1. size \in Nat /\ dp \in Nat \ {0}
    OBVIOUS
  <2>2. (c - 1) * size \in Nat /\ (c - 1) * size + size = c * size /\ c * size <= size * dp
    BY <2>1, ChunkRange
  <2>. QED
    BY <2>2
<1>2. Len(t) = size /\ DOMAIN t = 1..size /\ \A i \in 1..size : t[i] = b[lo + i]
  BY DEF IsChunks
<1>3. t \in Seq(S)
  BY ElementOfSeq DEF IsChunks
<1>. HIDE DEF lo, t, n
<1>4. \A i \in 1..size : lo + i \in 1..n
  <2>1. n \in Nat
    BY DEF n
  <2>. QED
    BY <1>1, <2>1
<1>5. \A i \in 1..size : t[i].len \in Nat \ {0}
  BY <1>2, <1>4 DEF HasTokens, n
<1>6. t \in Seq({t[i] : i \in 1..size})
  <2>1. ToSet(t) = {t[i] : i \in 1..size}
    BY <1>2 DEF ToSet
  <2>2. t \in Seq(ToSet(t))
    BY <1>3, ElementsType
  <2>. QED
    BY <2>1, <2>2
<1>. QED
  BY <1>2, <1>5, <1>6 DEF HasTokens, t

\* The dp rank changes where the rank is a multiple of sp.
LEMMA NextRank ==
    ASSUME NEW i \in Nat \ {0}, NEW sp \in Nat \ {0}
    PROVE  IF i % sp = 0 THEN i \div sp = ((i - 1) \div sp) + 1
           ELSE i \div sp = (i - 1) \div sp
OBVIOUS

\* The dp ranks are numbered from 0.
LEMMA RankRange ==
    ASSUME NEW r \in Nat, NEW dp \in Nat \ {0}, NEW sp \in Nat \ {0}, r < dp * sp
    PROVE  r \div sp \in 0..(dp - 1)
OBVIOUS

\* The last of all ranks has the last dp rank.
LEMMA LastRank ==
    ASSUME NEW dp \in Nat \ {0}, NEW sp \in Nat \ {0}
    PROVE  (dp * sp - 1) \div sp = dp - 1 /\ dp * sp \in Nat \ {0}
OBVIOUS

\* What is collected from the ranks of each dp rank once is in the order of the batch.
ByRank(outputs, R, dp, sp, size) ==
    \A r \in 0..(dp * sp - 1) :
        outputs[r] = [i \in 1..size |-> R[(r \div sp) * size + i]]

\* What the collecting ranks return, joined, is the whole.
LEMMA Collected ==
    ASSUME NEW dp \in Nat \ {0}, NEW sp \in Nat \ {0}, NEW size \in Nat, NEW T,
           NEW R \in Seq(T), Len(R) = size * dp, NEW outputs,
           ByRank(outputs, R, dp, sp, size)
    PROVE  Collect(outputs, dp, sp) = R
<1>. DEFINE W == dp * sp
            n == size * dp
            s == [i \in 1..W |-> IF IsCollect(i - 1, sp) THEN outputs[i - 1] ELSE <<>>]
            cut == [i \in 0..W |-> IF i = 0 THEN 0 ELSE ((i - 1) \div sp + 1) * size]
<1>1. Collect(outputs, dp, sp) = FlattenSeq(s)
  BY DEF Collect
<1>2. W \in Nat \ {0} /\ n \in Nat
  OBVIOUS
<1>3. ASSUME NEW i \in 1..W
      PROVE  LET q == (i - 1) \div sp
             IN  /\ q \in Nat /\ q * size \in Nat /\ q * size + size <= n
                 /\ (q + 1) * size = q * size + size
                 /\ cut[i] = q * size + size
                 /\ IF (i - 1) % sp = 0 THEN cut[i - 1] = q * size ELSE cut[i - 1] = cut[i]
  <2>. DEFINE j == i - 1
              q == j \div sp
  <2>1. j \in Nat /\ j < dp * sp
    BY <1>2
  <2>. HIDE DEF j
  <2>2. q \in 0..(dp - 1)
    BY <2>1, RankRange
  <2>. HIDE DEF q
  <2>3. q * size \in Nat /\ (q + 1) * size = q * size + size /\ q * size + size <= n
    <3>. DEFINE c == q + 1
    <3>1. c \in 1..dp /\ q = c - 1
      BY <2>2
    <3>. HIDE DEF c
    <3>2. (c - 1) * size \in Nat /\ (c - 1) * size + size = c * size /\ c * size <= size * dp
      BY <3>1, ChunkRange
    <3>. QED
      BY <3>1, <3>2 DEF c
  <2>4. cut[i] = q * size + size
    <3>1. cut[i] = (q + 1) * size
      BY <1>2 DEF q, j
    <3>. QED
      BY <2>3, <3>1
  <2>5. CASE j = 0
    <3>1. q = 0 /\ j % sp = 0 /\ cut[j] = 0
      BY <1>2, <2>5 DEF q
    <3>. QED
      BY <2>2, <2>3, <2>4, <3>1 DEF q, j
  <2>6. CASE j # 0
    <3>1. cut[j] = ((j - 1) \div sp + 1) * size
      BY <1>2, <2>1, <2>6
    <3>. HIDE DEF cut
    <3>2. IF j % sp = 0 THEN q = ((j - 1) \div sp) + 1 ELSE q = (j - 1) \div sp
      BY <2>1, <2>6, NextRank DEF q
    <3>3. IF j % sp = 0 THEN cut[j] = q * size ELSE cut[j] = cut[i]
      BY <2>3, <2>4, <3>1, <3>2
    <3>. QED
      BY <2>2, <2>3, <2>4, <3>3 DEF q, j
  <2>. QED
    BY <2>5, <2>6
<1>4. ASSUME NEW i \in 1..W
      PROVE  /\ s[i] \in Seq(T) /\ cut[i] \in 0..Len(R) /\ cut[i - 1] <= cut[i]
             /\ s[i] = SubSeq(R, cut[i - 1] + 1, cut[i])
  <2>. DEFINE q == (i - 1) \div sp
              lo == q * size
              t == [x \in 1..size |-> R[lo + x]]
  <2>1. /\ lo \in Nat /\ lo + size <= n /\ cut[i] = lo + size
        /\ IF (i - 1) % sp = 0 THEN cut[i - 1] = lo ELSE cut[i - 1] = cut[i]
    BY <1>3
  <2>2. s[i] = IF (i - 1) % sp = 0 THEN outputs[i - 1] ELSE <<>>
    BY DEF IsCollect
  <2>3. i - 1 \in 0..(dp * sp - 1)
    BY <1>2
  <2>4. outputs[i - 1] = t
    BY <2>3 DEF ByRank
  <2>. HIDE DEF cut, s, lo, n, W
  <2>5. SubSeq(R, lo + 1, lo + size) = t
    BY <2>1
  <2>5a. ASSUME NEW x \in 1..size PROVE t[x] \in T
    <3>1. lo + x \in 1..Len(R)
      BY <1>2, <2>1 DEF n
    <3>2. R[lo + x] \in T
      BY <3>1, ElementOfSeq
    <3>. QED
      BY <3>2
  <2>6. t = [x \in 1..size |-> t[x]]
    OBVIOUS
  <2>. HIDE DEF t
  <2>7. t \in Seq(T)
    <3>1. size \in Nat /\ \A x \in 1..size : t[x] \in T
      BY <2>5a
    <3>. QED
      BY <2>6, <3>1, SequenceOf
  <2>8. cut[i] \in 0..Len(R) /\ size \in Nat
    BY <1>2, <2>1 DEF n
  <2>9. CASE (i - 1) % sp = 0
    <3>1. s[i] = t /\ cut[i - 1] = lo /\ cut[i] = lo + size /\ lo \in Nat
      BY <2>1, <2>2, <2>4, <2>9
    <3>2. cut[i - 1] <= cut[i]
      BY <3>1
    <3>. QED
      BY <2>5, <2>7, <2>8, <3>1, <3>2
  <2>10. CASE (i - 1) % sp # 0
    <3>1. s[i] = <<>> /\ cut[i - 1] = cut[i] /\ cut[i] \in Nat
      BY <2>1, <2>2, <2>10
    <3>2. SubSeq(R, cut[i] + 1, cut[i]) = <<>>
      BY <3>1
    <3>. QED
      BY <2>8, <3>1, <3>2, EmptySeq
  <2>. QED
    BY <2>9, <2>10
<1>5. s \in Seq(Seq(T)) /\ Len(s) = W
  <2>1. s = [i \in 1..W |-> s[i]]
    OBVIOUS
  <2>. HIDE DEF s, W
  <2>2. W \in Nat /\ \A i \in 1..W : s[i] \in Seq(T)
    BY <1>2, <1>4
  <2>. QED
    BY <2>1, <2>2, SequenceOf
<1>6. cut[0] = 0 /\ cut[W] = n
  <2>1. cut[0] = 0
    BY <1>2
  <2>2. cut[W] = ((W - 1) \div sp + 1) * size
    BY <1>2
  <2>3. (dp * sp - 1) \div sp = dp - 1
    BY LastRank
  <2>4. (dp - 1 + 1) * size = size * dp
    OBVIOUS
  <2>. HIDE DEF cut
  <2>. QED
    BY <2>1, <2>2, <2>3, <2>4
<1>7. cut \in [0..Len(s) -> 0..Len(R)]
  <2>1. cut = [i \in 0..W |-> cut[i]]
    OBVIOUS
  <2>. HIDE DEF cut, s, W, n
  <2>2. ASSUME NEW i \in 0..W PROVE cut[i] \in 0..Len(R)
    <3>1. i = 0 \/ i \in 1..W
      BY <1>2
    <3>. QED
      BY <1>2, <1>4, <1>6, <3>1 DEF n
  <2>. QED
    BY <1>5, <2>1, <2>2
<1>. HIDE DEF cut, s, W
<1>8. Pieces(s, R, cut)
  BY <1>4, <1>5, <1>6 DEF Pieces
<1>9. FlattenSeq(s) = SubSeq(R, 1, cut[Len(s)])
  BY <1>5, <1>7, <1>8, FlatPieces
<1>10. FlattenSeq(s) = R
  <2>1. FlattenSeq(s) = SubSeq(R, 1, Len(R))
    BY <1>5, <1>6, <1>9
  <2>. QED
    BY <2>1, SubSeqFull
<1>. QED
  BY <1>1, <1>10

\* Every row gets its own response's log probabilities.
\* The responses of the first rows, in their order.
Responses(b, n) == [i \in 1..n |-> b[i].response]

\* compute_log_prob's result, collected: for each row, its own.
LEMMA LogProbsAligned ==
    ASSUME NEW b, NEW dp \in Nat \ {0}, NEW sp \in Nat \ {0}, NEW size \in Nat \ {0},
           HasTokens(b, size * dp), NEW max \in Nat \ {0}
    PROVE  ComputeLogProb(b, dp, sp, max) = Responses(b, size * dp)
<1>. DEFINE n == size * dp
            W == dp * sp
            S == {b[i] : i \in 1..n}
            ch == Chunk(b, dp)
            chunks == Dispatch(b, dp, sp)
            outputs == Computed(chunks, max)
            R == [i \in 1..n |-> b[i].response]
            T == {R[i] : i \in 1..n}
<1>1. n \in Nat /\ W \in Nat \ {0} /\ size \in Nat
  OBVIOUS
<1>2. b \in Seq(S) /\ Len(b) = size * dp
  BY DEF HasTokens
<1>. HIDE DEF S
<1>3. ch \in Seq(Seq(S)) /\ IsChunks(ch, b, dp, size)
  BY <1>1, <1>2, ChunksOf
<1>4. \A c \in 1..dp : HasTokens(ch[c], size)
  BY <1>3, ChunkHasTokens
<1>5. DOMAIN chunks = 0..(W - 1) /\ \A r \in 0..(W - 1) : chunks[r] = ch[(r \div sp) + 1]
  BY DEF Dispatch, Ranks, DpRank
<1>. HIDE DEF ch
<1>6. ASSUME NEW r \in 0..(W - 1) PROVE (r \div sp) + 1 \in 1..dp
  <2>1. r \in Nat /\ r < dp * sp
    BY <1>1
  <2>2. r \div sp \in 0..(dp - 1)
    BY <2>1, RankRange
  <2>. QED
    BY <2>2
<1>. HIDE DEF chunks, W
<1>7. \A r \in 0..(W - 1) : HasTokens(chunks[r], size)
  BY <1>4, <1>5, <1>6
<1>8. \A r \in 0..(W - 1) : MicroNumber(chunks, r, max) \in 1..size
  BY <1>1, <1>5, <1>7, AgreedNumber
<1>9. ASSUME NEW r \in 0..(W - 1)
      PROVE  outputs[r] = [i \in 1..size |-> R[(r \div sp) * size + i]]
  <2>. DEFINE num == MicroNumber(chunks, r, max)
              rows == chunks[r]
              c == (r \div sp) + 1
              lo == (r \div sp) * size
  <2>1. num \in 1..size /\ HasTokens(rows, size)
    BY <1>7, <1>8
  <2>2. outputs[r] = LogProbs(rows, num)
    BY <1>5 DEF Computed
  <2>3. c \in 1..dp /\ rows = ch[c] /\ lo = (c - 1) * size
    <3>1. r \div sp + 1 - 1 = r \div sp
      <4>1. r \div sp \in Int
        OBVIOUS
      <4>. QED
        BY <4>1
    <3>. QED
      BY <1>5, <1>6, <3>1
  <2>. HIDE DEF num, rows, outputs, c, lo
  <2>4. LogProbs(rows, num) = [i \in 1..size |-> rows[i].response]
    BY <2>1, ResultsInOrder
  <2>5. lo \in Nat /\ lo + size <= n
    <3>1. (c - 1) * size \in Nat /\ (c - 1) * size + size = c * size /\ c * size <= size * dp
      BY <1>1, <2>3, ChunkRange
    <3>. QED
      BY <2>3, <3>1
  <2>6. \A i \in 1..size : rows[i] = b[lo + i]
    BY <1>3, <2>3 DEF IsChunks
  <2>7. \A i \in 1..size : lo + i \in 1..n
    <3>. HIDE DEF n
    <3>. QED
      BY <1>1, <2>5
  <2>8. \A i \in 1..size : rows[i].response = R[lo + i]
    BY <2>6, <2>7
  <2>. HIDE DEF R
  <2>. QED
    BY <2>2, <2>4, <2>8 DEF lo
<1>10. R \in Seq(T) /\ Len(R) = size * dp
  <2>1. R = [i \in 1..n |-> R[i]] /\ \A i \in 1..n : R[i] \in T
    OBVIOUS
  <2>. HIDE DEF R, T, n
  <2>2. R \in Seq(T) /\ Len(R) = n
    BY <1>1, <2>1, SequenceOf
  <2>. QED
    BY <2>2 DEF n
<1>. HIDE DEF R, T, outputs
<1>11. ByRank(outputs, R, dp, sp, size)
  BY <1>9 DEF W, ByRank
<1>12. Collect(outputs, dp, sp) = R
  BY <1>1, <1>10, <1>11, Collected
<1>. QED
  BY <1>12 DEF ComputeLogProb, Responses, R, outputs, chunks

\* A row with another column.
WithColumn(row, column, x) ==
    [key \in DOMAIN row \cup {column} |-> IF key = column THEN x ELSE row[key]]

\* Another column leaves the others as they are.
LEMMA ColumnAdded ==
    ASSUME NEW row, NEW i, NEW ls, IsRow(row, i, ls), NEW x, NEW column, column = "old_log_prob"
    PROVE  /\ WithColumn(row, column, x).of = row.uid
           /\ WithColumn(row, column, x).uid = row.uid
           /\ WithColumn(row, column, x).response = i
           /\ WithColumn(row, column, x).old_log_prob = x
<1>. DEFINE u == row.uid
            l == ls[i]
<1>1. row = [of |-> u, uid |-> u, response |-> i, len |-> l]
  BY DEF IsRow
<1>. HIDE DEF u, l
<1>. QED
  BY <1>1 DEF u, WithColumn

\* OwnColumns, of a balanced batch and the results of its rows.
LEMMA OwnColumnsAdded ==
    ASSUME NEW ls \in Seq(Nat), lens = ls, NEW b, NEW pi, IsOrder(pi, Len(ls)),
           HoldsRows(b, pi, ls), NEW results,
           results = Responses(b, Len(ls))
    PROVE  OwnColumns(Union(b, "old_log_prob", results))
<1>. DEFINE n == Len(ls)
            column == "old_log_prob"
            u == Union(b, column, results)
<1>1. DOMAIN b = 1..n /\ \A i \in 1..n : IsRow(b[i], pi[i], ls)
  BY LenProperties DEF HoldsRows
<1>2. DOMAIN u = 1..n
  BY <1>1 DEF Union
<1>3. ASSUME NEW i \in 1..n
      PROVE  u[i].of = u[i].uid /\ u[i].response = pi[i] /\ u[i].old_log_prob = pi[i]
  <2>. DEFINE row == b[i]
              y == u[i]
              x == results[i]
              place == pi[i]
  <2>1. y = WithColumn(row, column, x)
    BY <1>1 DEF Union, WithColumn
  <2>2. x = row.response /\ IsRow(row, place, ls) /\ column = "old_log_prob"
    BY <1>1 DEF Responses
  <2>3. row.response = place
    BY <2>2 DEF IsRow
  <2>. HIDE DEF x, y, row, column, place
  <2>4. y.of = row.uid /\ y.uid = row.uid /\ y.response = place /\ y.old_log_prob = x
    BY <2>1, <2>2, ColumnAdded
  <2>. QED
    BY <2>2, <2>3, <2>4 DEF y, place
<1>. HIDE DEF u
<1>4. {u[i].response : i \in 1..n} = 1..n
  <2>1. DOMAIN pi = 1..n /\ ToSet(pi) = 1..n
    BY LenProperties DEF IsOrder
  <2>2. ToSet(pi) = {pi[i] : i \in 1..n}
    BY <2>1 DEF ToSet
  <2>3. {u[i].response : i \in 1..n} = {pi[i] : i \in 1..n}
    BY <1>3
  <2>. QED
    BY <2>1, <2>2, <2>3
<1>5. Items = 1..n
  BY LenProperties DEF Items
<1>6. OwnColumns(u)
  BY <1>2, <1>3, <1>4, <1>5 DEF OwnColumns
<1>. QED
  BY <1>6 DEF u

\* A batch for dp ranks of sp workers each, its rows with tokens.
LEMMA RowsHaveTokens ==
    ASSUME NEW ls, Rows(ls), NEW b, NEW pi, IsOrder(pi, Len(ls)), HoldsRows(b, pi, ls)
    PROVE  HasTokens(b, Len(ls))
<1>. DEFINE n == Len(ls)
<1>1. ls \in Seq(Nat) /\ n \in Nat /\ \A i \in 1..n : ls[i] \in Nat \ {0}
  BY LenProperties, ElementOfSeq DEF Rows
<1>2. \A i \in 1..n : pi[i] \in 1..n
  BY ElementOfSeq DEF IsOrder
<1>3. b \in Seq({b[i] : i \in 1..n}) /\ Len(b) = n /\ DOMAIN b = 1..n
  BY LenProperties DEF HoldsRows
<1>4. ASSUME NEW i \in 1..n PROVE b[i].len \in Nat \ {0}
  <2>1. IsRow(b[i], pi[i], ls)
    BY DEF HoldsRows
  <2>2. b[i].len = ls[pi[i]]
    BY <2>1 DEF IsRow
  <2>. QED
    BY <1>1, <1>2, <2>2
<1>. QED
  BY <1>3, <1>4 DEF HasTokens

\* A batch that can be cut for all workers can be cut for the dp ranks.
LEMMA EqualShares ==
    ASSUME NEW n \in Nat \ {0}, NEW dp \in Nat \ {0}, NEW sp \in Nat \ {0}, n % (dp * sp) = 0
    PROVE  \E size \in Nat \ {0} : n = size * dp
<1>. DEFINE world == dp * sp
            q == n \div world
<1>1. world \in Nat \ {0}
  OBVIOUS
<1>. HIDE DEF world
<1>2. q \in Nat /\ q * world = n
  BY <1>1, DivisionBounds DEF world
<1>. HIDE DEF q
<1>3. (q * sp) * dp = n
  BY <1>2 DEF world
<1>4. q * sp \in Nat /\ q * sp # 0
  <2>. DEFINE s == q * sp
  <2>1. s \in Nat
    BY <1>2
  <2>. HIDE DEF s
  <2>. QED
    BY <1>3, <2>1 DEF s
<1>. QED
  BY <1>3, <1>4

\* The numbers of tokens that are tried.
LEMMA MaxTokensTyped ==
    ASSUME NEW ls \in Seq(Nat), lens = ls, NEW max \in MaxTokens
    PROVE  max \in Nat \ {0}
BY MaxHasRoom DEF MaxTokens

\* The worlds that are tried.
LEMMA WorldsTyped ==
    ASSUME NEW ls \in Seq(Nat), lens = ls, ls # <<>>, NEW w \in Worlds
    PROVE  /\ w[1] \in Nat \ {0} /\ w[2] \in Nat \ {0}
           /\ w[1] * w[2] \in 1..Len(ls) /\ Len(ls) % (w[1] * w[2]) = 0
           /\ Len(ls) \in Nat \ {0}
<1>1. w[1] \in 1..3 /\ w[2] \in 1..2 /\ w[1] * w[2] \in Divisors
  BY DEF Worlds
<1>2. Items = 1..Len(ls) /\ Len(ls) \in Nat \ {0}
  BY LenProperties, EmptySeq DEF Items
<1>. QED
  BY <1>1, <1>2 DEF Divisors

\* RowsStayTogether for every lengths of the rows.
LEMMA RowsStayTogetherAny == ASSUME NEW ls \in Seq(Nat), lens = ls PROVE RowsStayTogether
<1>1. SUFFICES ASSUME NEW g \in Groupings, NEW w \in Worlds, NEW max \in MaxTokens,
                      ls # <<>>, Min(ToSet(ls)) > 0
               PROVE  OwnColumns(StepBatch(ls, g[1], g[2], w[1], w[2], max))
  BY DEF RowsStayTogether
<1>. DEFINE n == Len(ls)
            dp == w[1]
            sp == w[2]
            world == dp * sp
            gen == Generated(ls, g[1], g[2])
            b == BalanceBatch(gen, world)
<1>2. Rows(ls) /\ n \in Nat \ {0}
  BY <1>1, PositiveRows, LenProperties, EmptySeq
<1>3. /\ dp \in Nat \ {0} /\ sp \in Nat \ {0}
      /\ world \in 1..n /\ n % world = 0
  BY <1>1, WorldsTyped
<1>4. max \in Nat \ {0}
  BY MaxTokensTyped
<1>. HIDE DEF n, dp, sp
<1>5. g[1] \in Nat \ {0} /\ g[2] \in Nat \ {0} /\ n % g[1] = 0 /\ n % g[2] = 0
  <2>1. g[1] \in 1..2 /\ g[2] \in 1..3 /\ g[1] \in Divisors /\ g[2] \in Divisors
    BY DEF Groupings
  <2>. QED
    BY <2>1 DEF Divisors, n
<1>6. gen = [i \in 1..n |-> gen[i]] /\ \A i \in 1..n : IsRow(gen[i], i, ls)
  BY <1>5, GeneratedRows DEF n
<1>. HIDE DEF gen, world
<1>7. PICK pi : IsOrder(pi, n) /\ HoldsRows(b, pi, ls)
  BY <1>3, <1>6, BalancedRows DEF n
<1>. HIDE DEF b
<1>8. HasTokens(b, n)
  BY <1>2, <1>7, RowsHaveTokens DEF n
<1>9. PICK size \in Nat \ {0} : n = size * dp
  BY <1>2, <1>3, EqualShares DEF world
<1>. DEFINE results == ComputeLogProb(b, dp, sp, max)
<1>10. results = Responses(b, n)
  <2>1. HasTokens(b, size * dp)
    BY <1>8, <1>9
  <2>2. dp \in Nat \ {0} /\ sp \in Nat \ {0} /\ size \in Nat \ {0}
    BY <1>3
  <2>. HIDE DEF results
  <2>3. ComputeLogProb(b, dp, sp, max) = Responses(b, size * dp)
    BY <1>4, <2>1, <2>2, LogProbsAligned
  <2>. QED
    BY <1>9, <2>3 DEF results
<1>. HIDE DEF results
<1>11. OwnColumns(Union(b, "old_log_prob", results))
  BY <1>7, <1>10, OwnColumnsAdded DEF n
<1>. QED
  BY <1>11 DEF StepBatch, WithLogProb, results, b, gen, world, dp, sp
-----------------------------------------------------------------------------
\* Padding makes the size divisible.
LEMMA PaddedToDivisor ==
    ASSUME NEW n \in Nat, NEW w \in Nat \ {0}
    PROVE  (n + ((w - (n % w)) % w)) % w = 0
OBVIOUS

\* The padding, with its type.
LEMMA PaddedSize ==
    ASSUME NEW n \in Nat, NEW w \in Nat \ {0}
    PROVE  (w - (n % w)) % w \in Nat /\ (n + ((w - (n % w)) % w)) % w = 0
<1>. DEFINE m == w - (n % w)
<1>1. m \in Nat
  OBVIOUS
<1>. HIDE DEF m
<1>2. m % w \in Nat
  BY <1>1
<1>. QED
  BY <1>2, PaddedToDivisor DEF m

\* Validation adds the output to a row.
LEMMA OutputAdded ==
    ASSUME NEW u, NEW row, row = [uid |-> u], NEW x, NEW column, column = "output"
    PROVE  WithColumn(row, column, x).uid = u /\ WithColumn(row, column, x).output = x
BY DEF WithColumn

\* PaddingIsCut for every size of the batch.
LEMMA PaddingIsCutAny ==
    ASSUME NEW ls \in Seq(Nat), lens = ls, MaxRows \in Nat
    PROVE  PaddingIsCut
<1>1. SUFFICES ASSUME NEW n \in Divisors, NEW workers \in 1..(2 * MaxRows)
               PROVE  LET batch == ValidateBatch(Len(ls) \div n, n, workers) IN
                      /\ Len(batch) = Len(ls)
                      /\ \A i \in DOMAIN batch :
                            /\ batch[i].output.response = i
                            /\ batch[i].output.uid = batch[i].uid
  BY DEF PaddingIsCut
<1>. DEFINE N == Len(ls)
            a == N \div n
            b == Repeat(Prompts(a), n)
            pad == PadSize(b, workers)
            p == [i \in 1..pad |-> b[((i - 1) % N) + 1]]
            padded == Pad(b, workers)
            ones == [i \in DOMAIN Numbered(padded) |-> 1]
            out == GenerateSequences(Numbered(padded), ones, workers)
            cut == Unpad(out, pad)
            batch == ValidateBatch(a, n, workers)
<1>2. n \in Nat \ {0} /\ N \in Nat \ {0} /\ N % n = 0 /\ workers \in Nat \ {0}
  BY LenProperties DEF Divisors, Items
<1>3. a \in Nat /\ a * n = N
  BY <1>2, DivisionBounds
<1>. HIDE DEF N
<1>. HIDE DEF a
<1>. DEFINE S == {b[i] : i \in 1..N}
<1>4. b \in Seq(S) /\ Len(b) = N /\ DOMAIN b = 1..N /\ \A i \in 1..N : b[i] = [uid |-> b[i].uid]
  BY <1>2, <1>3, RepeatedPrompts
<1>5. batch = Union(b, "output", cut)
  BY DEF ValidateBatch
<1>. HIDE DEF b, batch
<1>6. pad \in Nat /\ (N + pad) % workers = 0
  BY <1>2, <1>4, PaddedSize DEF PadSize
<1>7. padded = b \o p
  BY <1>4 DEF Pad
<1>. HIDE DEF pad
<1>8. p \in Seq(S) /\ Len(p) = pad
  <2>1. ASSUME NEW i \in 1..pad PROVE p[i] \in S
    <3>. DEFINE m == (i - 1) % N
    <3>1. m \in 0..(N - 1)
      BY <1>2, <1>6
    <3>. HIDE DEF m
    <3>2. m + 1 \in 1..N
      BY <1>2, <3>1
    <3>. QED
      BY <3>2 DEF m
  <2>2. p = [i \in 1..pad |-> p[i]]
    OBVIOUS
  <2>. HIDE DEF p, S
  <2>. QED
    BY <1>6, <2>1, <2>2, SequenceOf
<1>. HIDE DEF p, S, padded
<1>9. padded \in Seq(S) /\ Len(padded) = N + pad /\ \A i \in 1..N : padded[i] = b[i]
  <2>1. b \o p \in Seq(S) /\ Len(b \o p) = Len(b) + Len(p) /\ \A i \in 1..Len(b) : (b \o p)[i] = b[i]
    BY <1>4, <1>8, JoinedAt
  <2>. QED
    BY <1>4, <1>7, <1>8, <2>1
<1>. DEFINE size == (N + pad) \div workers
<1>10. size \in Nat /\ Len(padded) = size * workers
  <2>. DEFINE m == N + pad
  <2>1. m \in Nat /\ m % workers = 0
    BY <1>2, <1>6
  <2>. HIDE DEF m
  <2>2. m \div workers \in Nat /\ (m \div workers) * workers = m
    BY <1>2, <2>1, DivisionBounds
  <2>. QED
    BY <1>9, <2>2 DEF m
<1>. HIDE DEF size, ones
<1>11. out = Answers(padded, ones)
  BY <1>2, <1>9, <1>10, AnswersInOrder
<1>. HIDE DEF out
<1>12. /\ DOMAIN out = 1..(N + pad) /\ N + pad \in Nat
       /\ \A i \in 1..N : out[i].uid = b[i].uid /\ out[i].response = i
  <2>1. out = [i \in 1..(N + pad) |-> [uid |-> padded[i].uid, response |-> i, len |-> ones[i]]]
    BY <1>9, <1>11 DEF Answers
  <2>2. ASSUME NEW i \in 1..N PROVE out[i].uid = b[i].uid /\ out[i].response = i
    <3>1. i \in 1..(N + pad)
      BY <1>2, <1>6
    <3>. DEFINE x == out[i]
    <3>2. x = [uid |-> padded[i].uid, response |-> i, len |-> ones[i]]
      BY <2>1, <3>1
    <3>. HIDE DEF x
    <3>3. x.uid = padded[i].uid /\ x.response = i
      BY <3>2
    <3>. QED
      BY <1>9, <3>3 DEF x
  <2>3. N + pad \in Nat
    BY <1>2, <1>6
  <2>. QED
    BY <2>1, <2>2, <2>3
<1>13. Len(out) = N + pad
  <2>1. out = [i \in 1..(N + pad) |-> out[i]] /\ \A i \in 1..(N + pad) : out[i] \in {out[j] : j \in 1..(N + pad)}
    <3>1. out = [i \in 1..(N + pad) |-> [uid |-> padded[i].uid, response |-> i, len |-> ones[i]]]
      BY <1>9, <1>11 DEF Answers
    <3>. QED
      BY <3>1
  <2>. QED
    BY <1>12, <2>1, SequenceOf
<1>14. cut = [i \in 1..N |-> out[i]]
  <2>1. cut = SubSeq(out, 1, N)
    <3>1. Len(out) - pad = N
      BY <1>2, <1>6, <1>13
    <3>2. cut = SubSeq(out, 1, Len(out) - pad)
      BY DEF Unpad
    <3>. QED
      BY <3>1, <3>2
  <2>2. SubSeq(out, 1, N) = [i \in 1..N |-> out[i]]
    BY <1>2
  <2>. QED
    BY <2>1, <2>2
<1>. HIDE DEF cut
<1>15. DOMAIN batch = 1..N /\ Len(batch) = N
  <2>1. batch = [i \in 1..N |-> batch[i]] /\ \A i \in 1..N : batch[i] \in {batch[j] : j \in 1..N}
    BY <1>4, <1>5 DEF Union
  <2>2. N \in Nat
    BY <1>2
  <2>. QED
    BY <2>1, <2>2, SequenceOf
<1>16. ASSUME NEW i \in 1..N
       PROVE  batch[i].output.response = i /\ batch[i].output.uid = batch[i].uid
  <2>. DEFINE row == b[i]
              x == cut[i]
              y == batch[i]
              column == "output"
              u == b[i].uid
  <2>1. y = WithColumn(row, column, x)
    BY <1>4, <1>5 DEF Union, WithColumn
  <2>2. row = [uid |-> u] /\ column = "output"
    BY <1>4
  <2>3. x.uid = u /\ x.response = i
    BY <1>12, <1>14
  <2>. HIDE DEF x, y, row, column, u
  <2>4. y.uid = u /\ y.output = x
    BY <2>1, <2>2, OutputAdded
  <2>. QED
    BY <2>3, <2>4 DEF y
<1>. QED
  BY <1>15, <1>16 DEF batch, a, N

\* RowsKeepTheirPrompt for every lengths of the rows.
LEMMA RowsKeepAny ==
    ASSUME NEW ls \in Seq(Nat), lens = ls, MaxRows \in Nat
    PROVE  RowsKeepTheirPrompt
BY RowsStayTogetherAny, PaddingIsCutAny DEF RowsKeepTheirPrompt

\* As many pieces as it takes, and the last may be shorter.
LEMMA CeilBounds ==
    ASSUME NEW a \in Nat \ {0}, NEW b \in Nat \ {0}
    PROVE  /\ CeilDiv(a, b) \in Nat \ {0}
           /\ (CeilDiv(a, b) - 1) * b < a /\ a <= CeilDiv(a, b) * b
<1>. DEFINE n == a + b - 1
            q == n \div b
<1>1. n \in Nat
  OBVIOUS
<1>2. q \in Nat /\ q * b <= n /\ n < q * b + b
  BY <1>1, DivisionBounds
<1>. HIDE DEF q
<1>3. q # 0
  BY <1>2
<1>4. (q - 1) * b = q * b - b
  BY <1>2
<1>. QED
  BY <1>2, <1>3, <1>4 DEF q, CeilDiv

\* The rows of the m-th mini batch.
MiniSize(size, mini, m) == Min({m * mini, size}) - (m - 1) * mini

\* Only the last mini batch may be shorter, and none is empty.
LEMMA MiniRange ==
    ASSUME NEW size \in Nat \ {0}, NEW mini \in Nat \ {0}, NEW m \in 1..CeilDiv(size, mini)
    PROVE  /\ (m - 1) * mini \in Nat /\ MiniSize(size, mini, m) \in Nat \ {0}
           /\ Min({m * mini, size}) = (m - 1) * mini + MiniSize(size, mini, m)
           /\ Min({m * mini, size}) <= size
           /\ m < CeilDiv(size, mini) => Min({m * mini, size}) = m * mini
           /\ m = CeilDiv(size, mini) => Min({m * mini, size}) = size
<1>. DEFINE K == CeilDiv(size, mini)
            lo == (m - 1) * mini
            hi == m * mini
            last == (K - 1) * mini
<1>1. K \in Nat \ {0} /\ last < size /\ size <= K * mini
  BY CeilBounds
<1>. HIDE DEF K
<1>2. lo \in Nat /\ hi \in Nat /\ lo + mini = hi /\ last \in Nat
  BY <1>1 DEF K
<1>3. m = K \/ (m < K /\ hi <= last)
  <2>1. CASE m < K - 1
    <3>1. m * mini + mini <= (K - 1) * mini
      <4>1. m \in Nat /\ K - 1 \in Nat /\ mini \in Nat
        BY <1>1 DEF K
      <4>. QED
        BY <2>1, <4>1, BlocksApart
    <3>. QED
      BY <1>1, <1>2, <2>1, <3>1 DEF K
  <2>2. CASE m = K - 1
    BY <1>1, <1>2, <2>2
  <2>3. CASE m = K
    BY <2>3
  <2>. QED
    BY <1>1, <2>1, <2>2, <2>3 DEF K
<1>4. lo <= last
  <2>1. CASE m = K
    BY <1>2, <2>1
  <2>2. CASE m < K /\ hi <= last
    BY <1>2, <2>2
  <2>. QED
    BY <1>3, <2>1, <2>2
<1>5. m = K => size <= hi
  BY <1>1
<1>. HIDE DEF lo, hi, last
<1>6. Min({hi, size}) = IF hi <= size THEN hi ELSE size
  BY <1>2, MinOfTwo
<1>7. lo < size
  BY <1>1, <1>2, <1>4
<1>8. lo < Min({hi, size}) /\ Min({hi, size}) <= size /\ Min({hi, size}) \in Nat
  BY <1>2, <1>6, <1>7
<1>9. MiniSize(size, mini, m) = Min({hi, size}) - lo
  BY DEF MiniSize, lo, hi
<1>10. /\ MiniSize(size, mini, m) \in Nat \ {0}
       /\ Min({hi, size}) = lo + MiniSize(size, mini, m)
  BY <1>2, <1>8, <1>9
<1>11. m < K => Min({hi, size}) = hi
  BY <1>1, <1>2, <1>3, <1>6
<1>12. m = K => Min({hi, size}) = size
  BY <1>2, <1>5, <1>6
<1>. QED
  BY <1>2, <1>8, <1>10, <1>11, <1>12 DEF lo, hi, K
-----------------------------------------------------------------------------
\* The mini batches of a rank: rows with tokens, and together the rank's rows.
IsSplit(mb, size, mini) ==
    /\ Len(mb) = CeilDiv(size, mini) /\ DOMAIN mb = 1..CeilDiv(size, mini)
    /\ \A m \in 1..CeilDiv(size, mini) : HasTokens(mb[m], MiniSize(size, mini, m))

\* A part of rows with tokens.
LEMMA SliceHasTokens ==
    ASSUME NEW rows, NEW size \in Nat, HasTokens(rows, size), NEW S, NEW t \in Seq(S),
           NEW lo, NEW k, IsSlice(t, rows, lo, k)
    PROVE  HasTokens(t, k)
<1>1. Len(rows) = size /\ \A i \in 1..size : rows[i].len \in Nat \ {0}
  BY DEF HasTokens
<1>2. /\ Len(t) = k /\ DOMAIN t = 1..k
      /\ \A i \in 1..k : t[i] = rows[lo + i] /\ lo + i \in 1..size
  BY <1>1 DEF IsSlice
<1>3. \A i \in 1..k : t[i].len \in Nat \ {0}
  BY <1>1, <1>2
<1>4. t \in Seq({t[i] : i \in 1..k})
  <2>1. ToSet(t) = {t[i] : i \in 1..k}
    BY <1>2 DEF ToSet
  <2>2. t \in Seq(ToSet(t))
    BY ElementsType
  <2>. QED
    BY <2>1, <2>2
<1>. QED
  BY <1>2, <1>3, <1>4 DEF HasTokens

\* DataProto.split cuts a rank's rows into such mini batches.
LEMMA SplitRows ==
    ASSUME NEW size \in Nat \ {0}, NEW mini \in Nat \ {0}, NEW rows, HasTokens(rows, size),
           NEW S, rows \in Seq(S)
    PROVE  /\ IsSplit(Split(rows, mini), size, mini)
           /\ Split(rows, mini) \in Seq(Seq(S))
           /\ FlattenSeq(Split(rows, mini)) = rows
           /\ \A m \in 1..CeilDiv(size, mini) :
                 IsSlice(Split(rows, mini)[m], rows, (m - 1) * mini, MiniSize(size, mini, m))
<1>. DEFINE K == CeilDiv(size, mini)
            mb == Split(rows, mini)
            cut == [m \in 0..K |-> IF m = 0 THEN 0 ELSE Min({m * mini, size})]
<1>1. K \in Nat \ {0}
  BY CeilBounds
<1>2. Len(rows) = size
  BY DEF HasTokens
<1>3. mb = [m \in 1..K |-> SubSeq(rows, (m - 1) * mini + 1, Min({m * mini, size}))]
  BY <1>2 DEF Split
<1>. HIDE DEF mb, K
<1>4. ASSUME NEW m \in 1..K
      PROVE  /\ mb[m] \in Seq(S) /\ IsSlice(mb[m], rows, (m - 1) * mini, MiniSize(size, mini, m))
             /\ HasTokens(mb[m], MiniSize(size, mini, m))
  <2>. DEFINE lo == (m - 1) * mini
              k == MiniSize(size, mini, m)
              hi == Min({m * mini, size})
              t == mb[m]
  <2>1. lo \in Nat /\ k \in Nat \ {0} /\ hi = lo + k /\ hi <= size
    BY MiniRange DEF K
  <2>2. t = SubSeq(rows, lo + 1, hi)
    BY <1>3
  <2>. HIDE DEF lo, k, hi, t
  <2>3. t = SubSeq(rows, lo + 1, lo + k)
    BY <2>1, <2>2
  <2>4. t \in Seq(S) /\ IsSlice(t, rows, lo, k)
    BY <1>2, <2>1, <2>3, SliceOf
  <2>5. HasTokens(t, k)
    BY <2>4, SliceHasTokens
  <2>. QED
    BY <2>4, <2>5 DEF t, lo, k
<1>5. mb \in Seq(Seq(S)) /\ Len(mb) = K /\ DOMAIN mb = 1..K
  <2>1. mb = [m \in 1..K |-> mb[m]] /\ \A m \in 1..K : mb[m] \in Seq(S)
    BY <1>3, <1>4
  <2>2. K \in Nat
    BY <1>1
  <2>. QED
    BY <2>1, <2>2, SequenceOf
<1>6. IsSplit(mb, size, mini)
  BY <1>4, <1>5 DEF IsSplit, K
<1>7. ASSUME NEW m \in 1..K
      PROVE  /\ cut[m] \in 0..size /\ cut[m - 1] = (m - 1) * mini
             /\ cut[m - 1] <= cut[m] /\ mb[m] = SubSeq(rows, cut[m - 1] + 1, cut[m])
  <2>. DEFINE lo == (m - 1) * mini
              hi == Min({m * mini, size})
  <2>1. lo \in Nat /\ hi \in Nat /\ lo <= hi /\ hi <= size
    <3>1. /\ (m - 1) * mini \in Nat /\ MiniSize(size, mini, m) \in Nat \ {0}
          /\ hi = lo + MiniSize(size, mini, m) /\ hi <= size
      BY MiniRange DEF K
    <3>. HIDE DEF hi, lo
    <3>. QED
      BY <3>1 DEF lo
  <2>2. cut[m] = hi
    BY <1>1
  <2>3. cut[m - 1] = lo
    <3>1. CASE m = 1
      <4>1. cut[0] = 0 /\ m - 1 = 0 /\ 0 * mini = 0
        BY <1>1, <3>1
      <4>. QED
        BY <4>1
    <3>2. CASE m # 1
      <4>1. m - 1 \in 1..CeilDiv(size, mini) /\ m - 1 < CeilDiv(size, mini)
        BY <1>1, <3>2 DEF K
      <4>2. Min({(m - 1) * mini, size}) = (m - 1) * mini
        BY <4>1, MiniRange
      <4>3. cut[m - 1] = Min({(m - 1) * mini, size})
        <5>1. m - 1 \in 0..K /\ m - 1 # 0
          BY <1>1, <3>2
        <5>. QED
          BY <5>1
      <4>. QED
        BY <4>2, <4>3
    <3>. QED
      BY <3>1, <3>2
  <2>4. mb[m] = SubSeq(rows, lo + 1, hi)
    BY <1>3
  <2>. HIDE DEF cut
  <2>5. cut[m] \in 0..size
    BY <2>1, <2>2
  <2>. QED
    BY <2>1, <2>2, <2>3, <2>4, <2>5
<1>8. cut[0] = 0 /\ DOMAIN cut = 0..K
  BY <1>1
<1>9. cut[K] = size
  <2>1. K \in 1..CeilDiv(size, mini)
    BY <1>1 DEF K
  <2>2. Min({K * mini, size}) = size
    BY <2>1, MiniRange DEF K
  <2>. QED
    BY <1>1, <2>2
<1>10. cut = [m \in 0..K |-> cut[m]]
  OBVIOUS
<1>. HIDE DEF cut
<1>11. cut \in [0..Len(mb) -> 0..Len(rows)]
  <2>1. ASSUME NEW m \in 0..K PROVE cut[m] \in 0..size
    BY <1>1, <1>7, <1>8
  <2>. QED
    BY <1>2, <1>5, <1>10, <2>1
<1>12. Pieces(mb, rows, cut)
  BY <1>5, <1>7, <1>8 DEF Pieces
<1>13. FlattenSeq(mb) = SubSeq(rows, 1, cut[Len(mb)])
  BY <1>5, <1>11, <1>12, FlatPieces
<1>14. FlattenSeq(mb) = rows
  <2>1. FlattenSeq(mb) = SubSeq(rows, 1, Len(rows))
    BY <1>2, <1>5, <1>9, <1>13
  <2>. QED
    BY <2>1, SubSeqFull
<1>. QED
  BY <1>4, <1>5, <1>6, <1>14 DEF mb, K

\* The backward passes over a mini batch.
MicroPasses(rows, num) == Passes(rows, MicroBatches(Lens(rows), num))

\* The passes hold the mini batch's rows, each once.
LEMMA PassRows ==
    ASSUME NEW S, NEW rows \in Seq(S), NEW m \in Nat \ {0}, HasTokens(rows, m),
           NEW num \in 1..m, Distinct(rows)
    PROVE  /\ MicroPasses(rows, num) \in Seq(Seq(S)) /\ Len(MicroPasses(rows, num)) = num
           /\ Distinct(FlattenSeq(MicroPasses(rows, num)))
           /\ ToSet(FlattenSeq(MicroPasses(rows, num))) = ToSet(rows)
<1>. DEFINE ls == Lens(rows)
            parts == MicroBatches(ls, num)
            flat == FlattenSeq(parts)
            I == 1..m
            P == MicroPasses(rows, num)
<1>1. ls \in Seq(Nat) /\ Len(ls) = m
  BY RowLengths
<1>2. P = Passes(rows, parts)
  BY DEF MicroPasses
<1>. HIDE DEF ls
<1>3. Partition(ls, parts, num) /\ num \in Nat
  <2>1. num \in 1..Len(ls)
    BY <1>1
  <2>2. Partition(ls, MicroBatches(ls, num), num)
    BY <1>1, <2>1, MicroParts
  <2>. QED
    BY <2>2
<1>. HIDE DEF parts, P
<1>4. parts \in Seq(Seq(I)) /\ Len(parts) = num
  BY <1>1, <1>3 DEF Partition
<1>5. flat \in Seq(I) /\ Distinct(flat) /\ ToSet(flat) = I
  BY <1>1, <1>3, FlatPartition
<1>6. rows \in [I -> S] /\ Len(rows) = m
  BY ElementOfSeq, LenProperties DEF HasTokens
<1>7. P = MappedAll(rows, parts)
  BY <1>2 DEF Passes, Reorder, MappedAll, Mapped
<1>. HIDE DEF I, flat
<1>8. P \in Seq(Seq(S)) /\ Len(P) = num
  <2>. DEFINE F == AsFunction(rows, Seq(I))
  <2>1. F \in [Seq(I) -> Seq(S)] /\ P = Mapped(F, parts)
    BY <1>4, <1>6, <1>7, MappedAllIsMapped
  <2>. HIDE DEF F
  <2>2. Mapped(F, parts) \in Seq(Seq(S)) /\ Maps(F, parts, Mapped(F, parts))
    BY <1>4, <2>1, MappedType
  <2>. QED
    BY <1>4, <2>1, <2>2 DEF Maps
<1>9. FlattenSeq(P) = Mapped(rows, flat)
  BY <1>4, <1>6, <1>7, FlatMapped DEF flat
<1>10. Mapped(rows, flat) \in Seq(S) /\ Maps(rows, flat, Mapped(rows, flat))
  BY <1>5, <1>6, MappedType
<1>. DEFINE t == Mapped(rows, flat)
<1>. HIDE DEF t
<1>11. /\ t \in Seq(S) /\ Len(t) = Len(flat) /\ Len(flat) \in Nat
       /\ DOMAIN t = 1..Len(flat) /\ DOMAIN flat = 1..Len(flat)
       /\ \A i \in 1..Len(flat) : flat[i] \in I /\ t[i] = rows[flat[i]]
  <2>1. Len(t) = Len(flat) /\ \A i \in 1..Len(flat) : t[i] = rows[flat[i]]
    BY <1>10 DEF Maps, t
  <2>2. Len(flat) \in Nat /\ DOMAIN flat = 1..Len(flat) /\ \A i \in 1..Len(flat) : flat[i] \in I
    BY <1>5, LenProperties, ElementOfSeq
  <2>3. t \in Seq(S) /\ DOMAIN t = 1..Len(t)
    BY <1>10, LenProperties DEF t
  <2>. QED
    BY <2>1, <2>2, <2>3
<1>12. Distinct(t)
  <2>1. SUFFICES ASSUME NEW i \in 1..Len(flat), NEW j \in 1..Len(flat), t[i] = t[j]
                 PROVE  i = j
    BY <1>11 DEF Distinct
  <2>2. rows[flat[i]] = rows[flat[j]] /\ flat[i] \in 1..Len(rows) /\ flat[j] \in 1..Len(rows)
    BY <1>6, <1>11, <2>1 DEF I
  <2>3. flat[i] = flat[j]
    BY <2>2 DEF Distinct
  <2>. QED
    BY <1>5, <2>3 DEF Distinct
<1>13. ToSet(t) = ToSet(rows)
  <2>1. ASSUME NEW i \in 1..Len(flat) PROVE t[i] \in ToSet(rows)
    BY <1>6, <1>11 DEF ToSet
  <2>2. ASSUME NEW i \in I PROVE rows[i] \in ToSet(t)
    <3>1. PICK j \in DOMAIN flat : flat[j] = i
      BY <1>5 DEF ToSet
    <3>. QED
      BY <1>11, <3>1 DEF ToSet
  <2>. QED
    BY <1>6, <1>11, <2>1, <2>2 DEF ToSet
<1>. QED
  BY <1>8, <1>9, <1>12, <1>13 DEF P, t
-----------------------------------------------------------------------------
\* The passes of a rank, mini batch by mini batch, with the numbers agreed on.
IsPasses(p, mb, K, N) ==
    p = [m \in 1..K |-> MicroPasses(mb[m], N[m])]

\* No row is in two mini batches.
LEMMA MinisApart ==
    ASSUME NEW size \in Nat \ {0}, NEW mini \in Nat \ {0}, NEW rows, HasTokens(rows, size),
           NEW S, rows \in Seq(S), Distinct(rows)
    PROVE  \A m, h \in 1..CeilDiv(size, mini) :
               m < h => ToSet(Split(rows, mini)[m]) \cap ToSet(Split(rows, mini)[h]) = {}
<1>. DEFINE mb == Split(rows, mini)
            K == CeilDiv(size, mini)
<1>0. SUFFICES ASSUME NEW m \in 1..K, NEW h \in 1..K, m < h
               PROVE  ToSet(mb[m]) \cap ToSet(mb[h]) = {}
  OBVIOUS
<1>. DEFINE lom == (m - 1) * mini
            loh == (h - 1) * mini
            km == MiniSize(size, mini, m)
            kh == MiniSize(size, mini, h)
<1>1. K \in Nat \ {0}
  BY CeilBounds
<1>2. IsSlice(mb[m], rows, lom, km) /\ IsSlice(mb[h], rows, loh, kh)
  BY SplitRows
<1>3. lom \in Nat /\ km \in Nat \ {0} /\ Min({m * mini, size}) = lom + km
      /\ loh \in Nat /\ kh \in Nat \ {0}
  BY MiniRange
<1>4. Min({m * mini, size}) = m * mini
  <2>1. m < CeilDiv(size, mini)
    BY <1>0, <1>1
  <2>. QED
    BY <2>1, MiniRange
<1>5. lom + mini <= loh
  <2>1. m - 1 \in Nat /\ h - 1 \in Nat /\ m - 1 < h - 1 /\ mini \in Nat
    BY <1>0, <1>1
  <2>. QED
    BY <2>1, BlocksApart
<1>6. m * mini = lom + mini /\ m * mini \in Nat
  BY <1>1
<1>. DEFINE t == mb[m]
            u == mb[h]
<1>. HIDE DEF lom, loh, km, kh, mb, K
<1>7. lom + km <= loh
  BY <1>3, <1>4, <1>5, <1>6
<1>8. SUFFICES ASSUME NEW i \in DOMAIN t, NEW j \in DOMAIN u, t[i] = u[j] PROVE FALSE
  BY DEF ToSet
<1>. HIDE DEF t, u
<1>9. i \in 1..km /\ j \in 1..kh /\ t[i] = rows[lom + i] /\ u[j] = rows[loh + j]
      /\ lom + i \in 1..Len(rows) /\ loh + j \in 1..Len(rows)
  BY <1>2 DEF IsSlice, t, u
<1>10. lom + i = loh + j
  BY <1>8, <1>9 DEF Distinct
<1>. QED
  BY <1>3, <1>7, <1>9, <1>10

\* A part repeats nothing either.
LEMMA SliceDistinct ==
    ASSUME NEW s, Distinct(s), NEW t, NEW lo \in Int, NEW k, IsSlice(t, s, lo, k), k \in Nat
    PROVE  Distinct(t)
<1>1. SUFFICES ASSUME NEW i \in 1..k, NEW j \in 1..k, t[i] = t[j] PROVE i = j
  BY DEF IsSlice, Distinct
<1>2. s[lo + i] = s[lo + j] /\ lo + i \in 1..Len(s) /\ lo + j \in 1..Len(s)
  BY <1>1 DEF IsSlice
<1>3. lo + i = lo + j
  BY <1>2 DEF Distinct
<1>. QED
  BY <1>3

\* Over its passes a rank uses each of its rows once.
LEMMA RankRows ==
    ASSUME NEW size \in Nat \ {0}, NEW mini \in Nat \ {0}, NEW rows, HasTokens(rows, size),
           NEW S, rows \in Seq(S), Distinct(rows),
           NEW p, NEW N, IsPasses(p, Split(rows, mini), CeilDiv(size, mini), N),
           \A m \in 1..CeilDiv(size, mini) : N[m] \in 1..MiniSize(size, mini, m)
    PROVE  /\ Len(p) = CeilDiv(size, mini) /\ DOMAIN p = 1..CeilDiv(size, mini)
           /\ \A m \in 1..CeilDiv(size, mini) : Len(p[m]) = N[m]
           /\ Distinct(FlattenSeq(FlattenSeq(p)))
           /\ FlattenSeq(FlattenSeq(p)) \in Seq(S)
           /\ ToSet(FlattenSeq(FlattenSeq(p))) = ToSet(rows)
           /\ Len(FlattenSeq(FlattenSeq(p))) = size
<1>. DEFINE mb == Split(rows, mini)
            K == CeilDiv(size, mini)
            G == Flattened(p)
<1>1. K \in Nat
  BY CeilBounds
<1>2. /\ IsSplit(mb, size, mini) /\ mb \in Seq(Seq(S)) /\ FlattenSeq(mb) = rows
      /\ \A m \in 1..K : IsSlice(mb[m], rows, (m - 1) * mini, MiniSize(size, mini, m))
  BY SplitRows
<1>3. \A m, h \in 1..K : m < h => ToSet(mb[m]) \cap ToSet(mb[h]) = {}
  BY MinisApart
<1>4. p = [m \in 1..K |-> MicroPasses(mb[m], N[m])]
  BY DEF IsPasses
<1>5. \A m \in 1..K : /\ (m - 1) * mini \in Nat /\ MiniSize(size, mini, m) \in Nat \ {0}
                      /\ N[m] \in 1..MiniSize(size, mini, m)
  BY MiniRange
<1>. HIDE DEF mb, K
<1>6. DOMAIN mb = 1..K /\ Len(mb) = K /\ \A m \in 1..K : HasTokens(mb[m], MiniSize(size, mini, m))
  BY <1>2 DEF IsSplit, K
<1>7. ASSUME NEW m \in 1..K
      PROVE  /\ p[m] \in Seq(Seq(S)) /\ Len(p[m]) = N[m]
             /\ Distinct(FlattenSeq(p[m])) /\ ToSet(FlattenSeq(p[m])) = ToSet(mb[m])
  <2>. DEFINE t == mb[m]
              k == MiniSize(size, mini, m)
              lo == (m - 1) * mini
              num == N[m]
  <2>1. k \in Nat \ {0} /\ lo \in Nat /\ num \in 1..k
    BY <1>5
  <2>2. t \in Seq(S) /\ HasTokens(t, k) /\ IsSlice(t, rows, lo, k)
    BY <1>2, <1>6, ElementOfSeq
  <2>3. p[m] = MicroPasses(t, num)
    BY <1>4
  <2>. HIDE DEF t, k, lo, num
  <2>4. Distinct(t)
    BY <2>1, <2>2, SliceDistinct
  <2>5. /\ MicroPasses(t, num) \in Seq(Seq(S)) /\ Len(MicroPasses(t, num)) = num
        /\ Distinct(FlattenSeq(MicroPasses(t, num)))
        /\ ToSet(FlattenSeq(MicroPasses(t, num))) = ToSet(t)
    BY <2>1, <2>2, <2>4, PassRows
  <2>. QED
    BY <2>3, <2>5 DEF t, num
<1>8. p \in Seq(Seq(Seq(S))) /\ Len(p) = K /\ DOMAIN p = 1..K
  <2>1. p = [m \in 1..K |-> p[m]] /\ \A m \in 1..K : p[m] \in Seq(Seq(S))
    BY <1>4, <1>7
  <2>. QED
    BY <1>1, <2>1, SequenceOf
<1>9. G \in Seq(Seq(S)) /\ Len(G) = K /\ \A m \in 1..K : G[m] = FlattenSeq(p[m])
  <2>1. G = [m \in 1..K |-> FlattenSeq(p[m])]
    BY <1>8 DEF Flattened
  <2>2. \A m \in 1..K : FlattenSeq(p[m]) \in Seq(S)
    BY <1>7, FlatType
  <2>3. G = [m \in 1..K |-> G[m]] /\ \A m \in 1..K : G[m] \in Seq(S)
    BY <2>1, <2>2
  <2>4. \A m \in 1..K : G[m] = FlattenSeq(p[m])
    BY <2>1
  <2>. HIDE DEF G
  <2>. QED
    BY <1>1, <2>3, <2>4, SequenceOf
<1>10. FlattenSeq(FlattenSeq(p)) = FlattenSeq(G)
  BY <1>8, FlatNested
<1>. HIDE DEF G
<1>11. \A m \in 1..K : Distinct(G[m]) /\ ToSet(G[m]) = ToSet(mb[m])
  BY <1>7, <1>9
<1>12. Apart(G)
  <2>1. \A m, h \in 1..K : m # h => ToSet(G[m]) \cap ToSet(G[h]) = {}
    <3>1. SUFFICES ASSUME NEW m \in 1..K, NEW h \in 1..K, m # h
                   PROVE  ToSet(mb[m]) \cap ToSet(mb[h]) = {}
      BY <1>11
    <3>2. m < h \/ h < m
      BY <1>1, <3>1
    <3>. QED
      BY <1>3, <3>2
  <2>. QED
    BY <1>9, <1>11, <2>1 DEF Apart, Distinct
<1>13. Distinct(FlattenSeq(G)) /\ FlattenSeq(G) \in Seq(S)
  BY <1>9, <1>12, FlatDistinct, FlatType
<1>14. ToSet(FlattenSeq(G)) = ToSet(FlattenSeq(mb))
  <2>1. ToSet(FlattenSeq(G)) = UNION {ToSet(t) : t \in ToSet(G)}
    BY <1>9, FlatElements
  <2>2. ToSet(FlattenSeq(mb)) = UNION {ToSet(t) : t \in ToSet(mb)}
    BY <1>2, FlatElements
  <2>3. ToSet(G) = {G[m] : m \in 1..K} /\ ToSet(mb) = {mb[m] : m \in 1..K}
    <3>1. DOMAIN G = 1..K
      BY <1>9, LenProperties
    <3>. QED
      BY <1>6, <3>1 DEF ToSet
  <2>4. {ToSet(t) : t \in ToSet(G)} = {ToSet(G[m]) : m \in 1..K}
    BY <2>3
  <2>5. {ToSet(t) : t \in ToSet(mb)} = {ToSet(mb[m]) : m \in 1..K}
    BY <2>3
  <2>6. {ToSet(G[m]) : m \in 1..K} = {ToSet(mb[m]) : m \in 1..K}
    BY <1>11
  <2>. QED
    BY <2>1, <2>2, <2>4, <2>5, <2>6
<1>15. Len(FlattenSeq(G)) = size
  <2>1. Cardinality(ToSet(FlattenSeq(G))) = Len(FlattenSeq(G))
    BY <1>13, DistinctSize
  <2>2. Cardinality(ToSet(rows)) = Len(rows)
    BY DistinctSize
  <2>3. Len(rows) = size
    BY DEF HasTokens
  <2>. QED
    BY <1>2, <1>14, <2>1, <2>2, <2>3
<1>. QED
  BY <1>2, <1>7, <1>8, <1>10, <1>13, <1>14, <1>15 DEF K, mb

\* Every rank makes as many passes over its m-th mini batch, N[m].
LEMMA BackwardPasses ==
    ASSUME NEW W \in Nat \ {0}, NEW chunks, DOMAIN chunks = 0..(W - 1),
           NEW size \in Nat \ {0}, \A q \in 0..(W - 1) : HasTokens(chunks[q], size),
           NEW S, \A q \in 0..(W - 1) : chunks[q] \in Seq(S),
           NEW mini \in Nat \ {0}, NEW max \in Nat \ {0}
    PROVE  \E N : /\ \A m \in 1..CeilDiv(size, mini) : N[m] \in 1..MiniSize(size, mini, m)
                  /\ \A r \in 0..(W - 1) :
                        IsPasses(PassesOf(MiniBatches(chunks, mini), max)[r],
                                 Split(chunks[r], mini), CeilDiv(size, mini), N)
<1>. DEFINE K == CeilDiv(size, mini)
            minis == MiniBatches(chunks, mini)
            passes == PassesOf(minis, max)
            At(m) == [q \in DOMAIN minis |-> minis[q][m]]
            N == [m \in 1..K |-> MicroNumber(At(m), 0, max)]
<1>1. K \in Nat
  BY CeilBounds
<1>2. minis = [r \in 0..(W - 1) |-> Split(chunks[r], mini)]
  BY DEF MiniBatches
<1>3. \A r \in 0..(W - 1) : IsSplit(minis[r], size, mini)
  <2>1. SUFFICES ASSUME NEW r \in 0..(W - 1) PROVE IsSplit(minis[r], size, mini)
    OBVIOUS
  <2>. DEFINE rows == chunks[r]
  <2>2. HasTokens(rows, size) /\ rows \in Seq(S)
    OBVIOUS
  <2>3. minis[r] = Split(rows, mini)
    BY <1>2
  <2>. HIDE DEF rows, minis
  <2>4. IsSplit(Split(rows, mini), size, mini)
    BY <2>2, SplitRows
  <2>. QED
    BY <2>3, <2>4
<1>4. DOMAIN minis = 0..(W - 1)
  BY <1>2
<1>. HIDE DEF minis, K
<1>5. ASSUME NEW m \in 1..K
      PROVE  MicroNumber(At(m), 0, max) \in 1..MiniSize(size, mini, m)
  <2>. DEFINE rows == At(m)
              k == MiniSize(size, mini, m)
  <2>1. k \in Nat \ {0}
    BY MiniRange DEF K
  <2>2. DOMAIN rows = 0..(W - 1) /\ \A q \in 0..(W - 1) : HasTokens(rows[q], k)
    BY <1>3, <1>4 DEF IsSplit, K
  <2>. HIDE DEF rows, k
  <2>3. MicroNumber(rows, 0, max) \in 1..k
    BY <2>1, <2>2, AgreedNumber
  <2>. QED
    BY <2>3 DEF rows, k
<1>6. ASSUME NEW r \in 0..(W - 1)
      PROVE  IsPasses(passes[r], Split(chunks[r], mini), K, N)
  <2>1. passes[r] = [m \in DOMAIN minis[r] |-> MiniBatchPasses(At(m), max)[r]]
    BY <1>4 DEF PassesOf
  <2>2. DOMAIN minis[r] = 1..K /\ minis[r] = Split(chunks[r], mini)
    BY <1>2, <1>3 DEF IsSplit, K
  <2>3. ASSUME NEW m \in 1..K
        PROVE  MiniBatchPasses(At(m), max)[r] = MicroPasses(minis[r][m], N[m])
    <3>. DEFINE rows == At(m)
    <3>1. DOMAIN rows = 0..(W - 1) /\ rows[r] = minis[r][m]
      BY <1>4
    <3>2. N[m] = MicroNumber(rows, 0, max)
      OBVIOUS
    <3>. HIDE DEF rows, N
    <3>3. MiniBatchPasses(rows, max)[r]
              = Passes(rows[r], MicroBatches(Lens(rows[r]), MicroNumber(rows, r, max)))
      BY <3>1 DEF MiniBatchPasses
    <3>4. MicroNumber(rows, r, max) = MicroNumber(rows, 0, max)
      BY DEF MicroNumber
    <3>. QED
      BY <3>1, <3>2, <3>3, <3>4 DEF MicroPasses, rows
  <2>. HIDE DEF passes, N
  <2>4. passes[r] = [m \in 1..K |-> MicroPasses(minis[r][m], N[m])]
    BY <2>1, <2>2, <2>3
  <2>. QED
    BY <2>2, <2>4 DEF IsPasses
<1>7. \A m \in 1..K : N[m] \in 1..MiniSize(size, mini, m)
  BY <1>5
<1>. QED
  BY <1>6, <1>7 DEF K, passes, minis
-----------------------------------------------------------------------------
\* Of the ranks of dp rank c - 1 the first is collected from.
LEMMA FirstOfRank ==
    ASSUME NEW dp \in Nat \ {0}, NEW sp \in Nat \ {0}, NEW c \in 1..dp
    PROVE  /\ (c - 1) * sp \in 0..(dp * sp - 1)
           /\ ((c - 1) * sp) \div sp = c - 1 /\ ((c - 1) * sp) % sp = 0
<1>1. ((c - 1) * sp) \div sp = c - 1 /\ ((c - 1) * sp) % sp = 0
  OBVIOUS
<1>2. (c - 1) * sp \in Nat /\ (c - 1) * sp + sp <= dp * sp
  <2>1. c - 1 \in Nat /\ dp \in Nat /\ sp \in Nat /\ c - 1 < dp
    OBVIOUS
  <2>2. (c - 1) * sp + sp <= dp * sp
    BY <2>1, BlocksApart
  <2>3. (c - 1) * sp \in Nat
    BY <2>1
  <2>. QED
    BY <2>2, <2>3
<1>. DEFINE x == (c - 1) * sp
            y == dp * sp
<1>3. y \in Nat
  OBVIOUS
<1>. HIDE DEF x, y
<1>4. x \in 0..(y - 1)
  BY <1>2, <1>3 DEF x, y
<1>. QED
  BY <1>1, <1>4 DEF x, y

\* InStep for every batch that can be cut for the ranks, any mini batch size and any
\* maximum of tokens.
LEMMA InStepAny ==
    ASSUME NEW b, NEW dp \in Nat \ {0}, NEW sp \in Nat \ {0}, NEW size \in Nat \ {0},
           HasTokens(b, size * dp), Distinct(b), NEW mini \in Nat \ {0}, NEW max \in Nat \ {0},
           NEW w, w[1] = dp, w[2] = sp
    PROVE  InStep(Backward(b, dp, sp, mini, max), b, w)
<1>. DEFINE n == size * dp
            W == dp * sp
            S == {b[i] : i \in 1..n}
            ch == Chunk(b, dp)
            chunks == Dispatch(b, dp, sp)
            passes == Backward(b, dp, sp, mini, max)
            K == CeilDiv(size, mini)
            rows(r) == FlattenSeq(FlattenSeq(passes[r]))
            firsts == {r \in Ranks(dp, sp) : IsCollect(r, sp)}
<1>1. n \in Nat /\ W \in Nat \ {0}
  OBVIOUS
<1>2. b \in Seq(S) /\ Len(b) = size * dp
  BY DEF HasTokens
<1>. HIDE DEF S
<1>3. ch \in Seq(Seq(S)) /\ IsChunks(ch, b, dp, size) /\ FlattenSeq(ch) = b
  <2>1. dp \in Nat \ {0} /\ size \in Nat
    OBVIOUS
  <2>. QED
    BY <1>2, <2>1, ChunksOf
<1>4. chunks = [r \in 0..(W - 1) |-> ch[(r \div sp) + 1]]
  BY DEF Dispatch, Ranks, DpRank
<1>. HIDE DEF ch, chunks
<1>5. DOMAIN ch = 1..dp /\ Len(ch) = dp
  BY <1>3 DEF IsChunks
<1>6. \A r \in 0..(W - 1) : (r \div sp) + 1 \in 1..dp
  <2>1. SUFFICES ASSUME NEW r \in 0..(W - 1) PROVE (r \div sp) + 1 \in 1..dp
    OBVIOUS
  <2>2. r \in Nat /\ r < dp * sp
    BY <1>1
  <2>3. r \div sp \in 0..(dp - 1)
    BY <2>2, RankRange
  <2>. DEFINE x == r \div sp
  <2>. HIDE DEF x
  <2>4. x + 1 \in 1..dp
    BY <2>3 DEF x
  <2>. QED
    BY <2>4 DEF x
<1>7. \A c \in 1..dp : HasTokens(ch[c], size) /\ ch[c] \in Seq(S)
  BY <1>3, <1>5, ChunkHasTokens, ElementOfSeq
<1>8. ASSUME NEW c \in 1..dp PROVE Distinct(ch[c])
  <2>. DEFINE t == ch[c]
              lo == (c - 1) * size
  <2>1. lo \in Nat /\ lo + size <= Len(b)
    <3>1. (c - 1) * size \in Nat /\ (c - 1) * size + size = c * size /\ c * size <= size * dp
      BY ChunkRange
    <3>. QED
      BY <1>2, <3>1
  <2>2. Len(t) = size /\ DOMAIN t = 1..size /\ \A i \in 1..size : t[i] = b[lo + i]
    BY <1>3 DEF IsChunks
  <2>. HIDE DEF t, lo
  <2>3. IsSlice(t, b, lo, size)
    <3>1. Len(b) \in Nat
      BY <1>2, LenProperties
    <3>. QED
      BY <2>1, <2>2, <3>1 DEF IsSlice
  <2>4. Distinct(t)
    BY <2>1, <2>3, SliceDistinct
  <2>. QED
    BY <2>4 DEF t
<1>9. DOMAIN chunks = 0..(W - 1) /\ \A r \in 0..(W - 1) :
          /\ chunks[r] = ch[(r \div sp) + 1]
          /\ HasTokens(chunks[r], size) /\ chunks[r] \in Seq(S) /\ Distinct(chunks[r])
  BY <1>4, <1>6, <1>7, <1>8
<1>10. PICK N : /\ \A m \in 1..K : N[m] \in 1..MiniSize(size, mini, m)
                /\ \A r \in 0..(W - 1) : IsPasses(passes[r], Split(chunks[r], mini), K, N)
  <2>. HIDE DEF W, K
  <2>1. \A q \in 0..(W - 1) : HasTokens(chunks[q], size)
    BY <1>9
  <2>2. \A q \in 0..(W - 1) : chunks[q] \in Seq(S)
    BY <1>9
  <2>3. passes = PassesOf(MiniBatches(chunks, mini), max)
    BY DEF Backward, chunks
  <2>. HIDE DEF passes
  <2>4. \E N : /\ \A m \in 1..CeilDiv(size, mini) : N[m] \in 1..MiniSize(size, mini, m)
               /\ \A r \in 0..(W - 1) :
                        IsPasses(PassesOf(MiniBatches(chunks, mini), max)[r],
                                 Split(chunks[r], mini), CeilDiv(size, mini), N)
    BY <1>1, <1>9, <2>1, <2>2, BackwardPasses
  <2>. QED
    BY <2>3, <2>4 DEF K
<1>. HIDE DEF passes
<1>11. ASSUME NEW r \in 0..(W - 1)
       PROVE  /\ Len(passes[r]) = K /\ DOMAIN passes[r] = 1..K
              /\ \A m \in 1..K : Len(passes[r][m]) = N[m]
              /\ Distinct(rows(r)) /\ rows(r) \in Seq(S)
              /\ ToSet(rows(r)) = ToSet(chunks[r]) /\ Len(rows(r)) = size
  <2>. DEFINE p == passes[r]
              u == chunks[r]
  <2>1. HasTokens(u, size) /\ u \in Seq(S) /\ Distinct(u)
    BY <1>9
  <2>2. IsPasses(p, Split(u, mini), CeilDiv(size, mini), N)
    BY <1>10
  <2>3. \A m \in 1..CeilDiv(size, mini) : N[m] \in 1..MiniSize(size, mini, m)
    BY <1>10
  <2>. HIDE DEF p, u
  <2>4. /\ Len(p) = CeilDiv(size, mini) /\ DOMAIN p = 1..CeilDiv(size, mini)
        /\ \A m \in 1..CeilDiv(size, mini) : Len(p[m]) = N[m]
        /\ Distinct(FlattenSeq(FlattenSeq(p)))
        /\ FlattenSeq(FlattenSeq(p)) \in Seq(S)
        /\ ToSet(FlattenSeq(FlattenSeq(p))) = ToSet(u)
        /\ Len(FlattenSeq(FlattenSeq(p))) = size
    BY <2>1, <2>2, <2>3, RankRows
  <2>. QED
    BY <2>4 DEF p, u
<1>12. Ranks(dp, sp) = 0..(W - 1)
  BY DEF Ranks
<1>13. ASSUME NEW r \in Ranks(dp, sp), NEW q \in Ranks(dp, sp)
       PROVE  /\ Len(passes[r]) = Len(passes[q])
              /\ \A m \in DOMAIN passes[r] : Len(passes[r][m]) = Len(passes[q][m])
              /\ DpRank(r, dp, sp) = DpRank(q, dp, sp) => passes[r] = passes[q]
  <2>1. r \in 0..(W - 1) /\ q \in 0..(W - 1)
    BY <1>12
  <2>. HIDE DEF W, K
  <2>2. /\ Len(passes[r]) = Len(passes[q])
        /\ \A m \in DOMAIN passes[r] : Len(passes[r][m]) = Len(passes[q][m])
    BY <1>11, <2>1
  <2>3. ASSUME DpRank(r, dp, sp) = DpRank(q, dp, sp) PROVE passes[r] = passes[q]
    <3>1. chunks[r] = chunks[q]
      BY <1>9, <2>1, <2>3 DEF DpRank
    <3>. QED
      BY <1>10, <2>1, <3>1 DEF IsPasses
  <2>. QED
    BY <2>2, <2>3
<1>. HIDE DEF W, K
<1>14. \A r \in 0..(W - 1) : ToSet(rows(r)) = ToSet(ch[(r \div sp) + 1])
  BY <1>9, <1>11
<1>15. UNION {ToSet(rows(r)) : r \in firsts} = ToSet(b)
  <2>1. ToSet(b) = UNION {ToSet(t) : t \in ToSet(ch)}
    BY <1>3, FlatElements
  <2>2. ToSet(ch) = {ch[c] : c \in 1..dp}
    BY <1>5 DEF ToSet
  <2>3. firsts \subseteq 0..(W - 1)
    BY <1>12
  <2>4. ASSUME NEW r \in firsts, NEW x \in ToSet(rows(r)) PROVE x \in ToSet(b)
    <3>1. r \in 0..(W - 1)
      BY <2>3
    <3>2. x \in ToSet(ch[(r \div sp) + 1]) /\ (r \div sp) + 1 \in 1..dp
      BY <1>6, <1>14, <2>4, <3>1
    <3>. DEFINE c == (r \div sp) + 1
    <3>. HIDE DEF c
    <3>3. x \in ToSet(ch[c]) /\ ch[c] \in ToSet(ch)
      BY <2>2, <3>2 DEF c
    <3>. QED
      BY <2>1, <3>3
  <2>5. ASSUME NEW x \in ToSet(b) PROVE \E r \in firsts : x \in ToSet(rows(r))
    <3>1. PICK t \in ToSet(ch) : x \in ToSet(t)
      BY <2>1
    <3>2. PICK c \in 1..dp : t = ch[c]
      BY <2>2, <3>1
    <3>. DEFINE r == (c - 1) * sp
    <3>3. r \in 0..(W - 1) /\ r \div sp = c - 1 /\ r % sp = 0
      BY FirstOfRank DEF W
    <3>. HIDE DEF r
    <3>4. r \in firsts
      BY <1>12, <3>3 DEF IsCollect
    <3>5. (r \div sp) + 1 = c
      BY <3>3
    <3>6. x \in ToSet(rows(r))
      BY <1>14, <3>1, <3>2, <3>3, <3>5
    <3>. QED
      BY <3>4, <3>6
  <2>. HIDE DEF rows, firsts
  <2>6. ASSUME NEW x \in UNION {ToSet(rows(r)) : r \in firsts} PROVE x \in ToSet(b)
    BY <2>4
  <2>7. ASSUME NEW x \in ToSet(b) PROVE x \in UNION {ToSet(rows(r)) : r \in firsts}
    BY <2>5
  <2>. QED
    BY <2>6, <2>7
<1>16. ASSUME NEW r \in firsts
       PROVE  IsInjective(rows(r)) /\ Len(rows(r)) * dp = Len(b)
  <2>1. r \in 0..(W - 1)
    BY <1>12
  <2>2. Distinct(rows(r)) /\ rows(r) \in Seq(S) /\ Len(rows(r)) = size
    BY <1>11, <2>1
  <2>. DEFINE t == rows(r)
  <2>. HIDE DEF t
  <2>3. DOMAIN t = 1..Len(t)
    BY <2>2, LenProperties DEF t
  <2>4. IsInjective(t)
    BY <2>2, <2>3 DEF IsInjective, Distinct, t
  <2>. QED
    BY <1>2, <2>2, <2>4 DEF t
<1>. QED
  BY <1>13, <1>15, <1>16 DEF InStep, passes

\* RanksInStep for every lengths of the rows.
LEMMA RanksInStepAny == ASSUME NEW ls \in Seq(Nat), lens = ls PROVE RanksInStep
<1>1. SUFFICES ASSUME NEW w \in Worlds, NEW mini \in 1..3, NEW max \in MaxTokens,
                      ls # <<>>, Min(ToSet(ls)) > 0
               PROVE  UpdatesInStep(BalanceBatch(Generated(ls, 1, 1), w[1] * w[2]), w, mini, max)
  BY DEF RanksInStep
<1>. DEFINE n == Len(ls)
            dp == w[1]
            sp == w[2]
            world == dp * sp
            gen == Generated(ls, 1, 1)
            b == BalanceBatch(gen, world)
<1>2. Rows(ls) /\ n \in Nat \ {0}
  BY <1>1, PositiveRows, LenProperties, EmptySeq
<1>3. /\ dp \in Nat \ {0} /\ sp \in Nat \ {0}
      /\ world \in 1..n /\ n % world = 0
  BY <1>1, WorldsTyped
<1>4. max \in Nat \ {0} /\ mini \in Nat \ {0}
  <2>1. max \in Nat \ {0}
    BY MaxTokensTyped
  <2>. QED
    BY <2>1
<1>. HIDE DEF n, dp, sp
<1>5. 1 \in Nat \ {0} /\ n % 1 = 0
  BY <1>2
<1>6. gen = [i \in 1..n |-> gen[i]] /\ \A i \in 1..n : IsRow(gen[i], i, ls)
  BY <1>5, GeneratedRows DEF n
<1>. HIDE DEF gen, world
<1>7. PICK pi : IsOrder(pi, n) /\ HoldsRows(b, pi, ls)
  BY <1>3, <1>6, BalancedRows DEF n
<1>. HIDE DEF b
<1>8. HasTokens(b, n)
  BY <1>2, <1>7, RowsHaveTokens DEF n
<1>9. Distinct(b)
  <2>1. Len(b) = n /\ Len(pi) = n /\ \A i \in 1..n : b[i].response = pi[i]
    <3>1. Len(b) = n /\ Len(pi) = n /\ \A i \in 1..n : IsRow(b[i], pi[i], ls)
      BY <1>7 DEF HoldsRows, IsOrder, n
    <3>2. ASSUME NEW i \in 1..n PROVE b[i].response = pi[i]
      <4>. DEFINE row == b[i]
                  place == pi[i]
      <4>1. IsRow(row, place, ls)
        BY <3>1
      <4>. HIDE DEF row, place
      <4>2. row.response = place
        BY <4>1 DEF IsRow
      <4>. QED
        BY <4>2 DEF row, place
    <3>. QED
      BY <3>1, <3>2
  <2>. QED
    BY <1>7, <2>1 DEF Distinct, IsOrder
<1>10. PICK size \in Nat \ {0} : n = size * dp
  BY <1>2, <1>3, EqualShares DEF world
<1>11. HasTokens(b, size * dp)
  BY <1>8, <1>10
<1>12. dp \in Nat \ {0} /\ sp \in Nat \ {0} /\ size \in Nat \ {0} /\ w[1] = dp /\ w[2] = sp
  BY <1>3 DEF dp, sp
<1>13. InStep(Backward(b, dp, sp, mini, max), b, w)
  BY <1>4, <1>9, <1>11, <1>12, InStepAny
<1>. QED
  BY <1>13 DEF UpdatesInStep, b, gen, world, dp, sp

(* Tool rewards. *)

\* A rollout that used and needed whatever transforms, up to as many needed as the
\* shares of One are exact for.
IsRollout(r) ==
    /\ r = [uid |-> r.uid, required |-> r.required, used |-> r.used, correct |-> r.correct,
            ious |-> r.ious, codes |-> r.codes, fmt |-> r.fmt]
    /\ IsFiniteSet(r.required) /\ Cardinality(r.required) <= 4 /\ IsFiniteSet(r.used)
    /\ r.correct \in BOOLEAN /\ r.ious \subseteq 0..One /\ r.codes \in Nat /\ r.fmt \in Int

\* Undo and Degrees, by their values.
LEMMA UndoValues ==
    /\ \A t : Undo(t) = IF t = "rotate_90" THEN "rotate_270"
                        ELSE IF t = "rotate_270" THEN "rotate_90" ELSE t
    /\ \A t : Degrees(t) = IF t = "rotate_90" THEN 90 ELSE IF t = "rotate_180" THEN 180
                           ELSE IF t = "rotate_270" THEN 270 ELSE 0
BY DEF Undo, Degrees

\* A transform corrects what it is expected for.
LEMMA CorrectsIsUndo ==
    ASSUME NEW t \in CoreOps, NEW need
    PROVE  Corrects(t, need) <=> t = Undo(need)
<1>1. t \in {"rotate_90", "rotate_180", "rotate_270", "flip_horizontal", "flip_vertical", "crop"}
  BY DEF CoreOps, Orientations
<1>2. CASE need \notin {"rotate_90", "rotate_180", "rotate_270"}
  BY <1>2, UndoValues DEF Corrects
<1>3. CASE need = "rotate_90"
  BY <1>1, <1>3, UndoValues DEF Corrects
<1>4. CASE need = "rotate_180"
  BY <1>1, <1>4, UndoValues DEF Corrects
<1>5. CASE need = "rotate_270"
  BY <1>1, <1>5, UndoValues DEF Corrects
<1>. QED
  BY <1>2, <1>3, <1>4, <1>5

\* The number of expected transforms, which divides the shares.
LEMMA ExpectedFinite ==
    ASSUME NEW r, IsRollout(r)
    PROVE  /\ IsFiniteSet(Expected(r)) /\ Cardinality(Expected(r)) \in 0..4
           /\ Expected(r) # {} => Cardinality(Expected(r)) # 0
<1>. DEFINE f == [t \in r.required |-> Undo(t)]
<1>1. IsFiniteSet(r.required) /\ Cardinality(r.required) <= 4
  BY DEF IsRollout
<1>2. f \in Surjection(r.required, Expected(r))
  BY DEF Surjection, Expected
<1>3. IsFiniteSet(Expected(r)) /\ Cardinality(Expected(r)) <= Cardinality(r.required)
  BY <1>1, <1>2, FS_Surjection
<1>4. Cardinality(Expected(r)) \in Nat /\ Cardinality(r.required) \in Nat
  BY <1>1, <1>3, FS_CardinalityType
<1>5. Expected(r) # {} => Cardinality(Expected(r)) # 0
  BY <1>3, FS_EmptySet
<1>. QED
  BY <1>1, <1>3, <1>4, <1>5

\* A set of numbers up to One has a greatest one.
LEMMA BestIouBounds ==
    ASSUME NEW ious \in SUBSET (0..One)
    PROVE  Max(ious \cup {0}) \in 0..One /\ \A x \in ious : Max(ious \cup {0}) >= x
<1>. DEFINE S == ious \cup {0}
            T == {One - x : x \in S}
<1>0. One \in Nat
  BY DEF One
<1>1. T \subseteq Nat /\ T # {} /\ S \subseteq 0..One
  <2>1. S \subseteq 0..One /\ 0 \in S
    BY <1>0
  <2>2. \A x \in 0..One : One - x \in Nat
    BY <1>0
  <2>. QED
    BY <2>1, <2>2
<1>2. PICK y \in T : \A z \in T : y <= z
  <2>. HIDE DEF T
  <2>. QED
    BY <1>1, Least
<1>3. PICK x \in S : y = One - x
  BY <1>2
<1>4. \A z \in S : x >= z
  <2>1. SUFFICES ASSUME NEW z \in S PROVE x >= z
    OBVIOUS
  <2>2. One - x <= One - z
    BY <1>2, <1>3
  <2>3. x \in Int /\ z \in Int
    BY <1>1, <1>3
  <2>. QED
    BY <1>0, <2>2, <2>3
<1>5. Max(S) \in S /\ \A z \in S : Max(S) >= z
  <2>. HIDE DEF S
  <2>. QED
    BY <1>3, <1>4 DEF Max
<1>. QED
  BY <1>1, <1>5

\* A whole share more shows in the quotient.
LEMMA DivisionGrows ==
    ASSUME NEW a \in Nat, NEW n \in 1..4
    PROVE  /\ (a + One) \div n = a \div n + One \div n
           /\ a \div n \in Nat /\ One \div n \in Nat \ {0}
<1>1. CASE n = 1
  BY <1>1 DEF One
<1>2. CASE n = 2
  BY <1>2 DEF One
<1>3. CASE n = 3
  BY <1>3 DEF One
<1>4. CASE n = 4
  BY <1>4 DEF One
<1>. QED
  BY <1>1, <1>2, <1>3, <1>4

\* The share of the needed transforms is a number.
LEMMA MandatoryBounds ==
    ASSUME NEW r, IsRollout(r)
    PROVE  Mandatory(r) \in Nat
<1>. DEFINE need == Expected(r)
            a == Cardinality((need \ {"crop"}) \cap r.used) * One
            b == IF "crop" \in need \cap r.used THEN BestIou(r) ELSE 0
<1>1. IsFiniteSet(need) /\ Cardinality(need) \in 0..4 /\ (need # {} => Cardinality(need) # 0)
  BY ExpectedFinite
<1>2. Cardinality((need \ {"crop"}) \cap r.used) \in Nat
  <2>1. (need \ {"crop"}) \cap r.used \in SUBSET need
    OBVIOUS
  <2>. QED
    BY <1>1, <2>1, FS_Subset, FS_CardinalityType
<1>3. a \in Nat
  <2>1. One \in Nat
    BY DEF One
  <2>. QED
    BY <1>2, <2>1
<1>4. b \in Nat
  <2>1. BestIou(r) \in 0..One
    BY BestIouBounds DEF BestIou, IsRollout
  <2>. QED
    BY <2>1 DEF One
<1>5. Mandatory(r) = IF need = {} THEN 0 ELSE (a + b) \div Cardinality(need)
  BY DEF Mandatory
<1>. HIDE DEF a, b, need
<1>6. CASE need = {}
  BY <1>5, <1>6
<1>7. CASE need # {}
  <2>1. Cardinality(need) \in 1..4 /\ a + b \in Nat
    BY <1>1, <1>3, <1>4, <1>7
  <2>2. (a + b) \div Cardinality(need) \in Nat
    BY <2>1
  <2>. QED
    BY <1>5, <1>7, <2>2
<1>. QED
  BY <1>6, <1>7

\* A rollout that has used one transform more, cropped these boxes and made more runs.
Better(r, t, ious, runs) ==
    [uid |-> r.uid, required |-> r.required, used |-> r.used \cup {t}, correct |-> r.correct,
     ious |-> r.ious \cup ious, codes |-> r.codes + runs, fmt |-> r.fmt]

\* q is such a rollout.
Bettered(r, t, ious, runs, q) ==
    /\ IsRollout(q)
    /\ q.used = r.used \cup {t} /\ q.ious = r.ious \cup ious
    /\ q.uid = r.uid /\ q.required = r.required /\ q.correct = r.correct
    /\ q.codes = r.codes + runs /\ q.fmt = r.fmt
    /\ Expected(q) = Expected(r)

\* Better is such a rollout.
LEMMA BetterFields ==
    ASSUME NEW r, IsRollout(r), NEW t \in CoreOps, NEW ious \in {{}, {One}}, NEW runs \in Nat
    PROVE  Bettered(r, t, ious, runs, Better(r, t, ious, runs))
<1>. DEFINE q == Better(r, t, ious, runs)
<1>1. /\ q.used = r.used \cup {t} /\ q.ious = r.ious \cup ious
      /\ q.uid = r.uid /\ q.required = r.required /\ q.correct = r.correct
      /\ q.codes = r.codes + runs /\ q.codes \in Nat /\ q.fmt = r.fmt
  BY DEF Better, IsRollout
<1>2. IsFiniteSet(r.used \cup {t})
  BY FS_AddElement DEF IsRollout
<1>3. r.ious \cup ious \subseteq 0..One
  BY DEF IsRollout, One
<1>4. IsRollout(q)
  <2>1. q = [uid |-> q.uid, required |-> q.required, used |-> q.used, correct |-> q.correct,
            ious |-> q.ious, codes |-> q.codes, fmt |-> q.fmt]
    BY DEF Better, IsRollout
  <2>. HIDE DEF q
  <2>. QED
    BY <1>1, <1>2, <1>3, <2>1 DEF IsRollout
<1>5. Expected(q) = Expected(r)
  BY <1>1 DEF Expected
<1>. QED
  BY <1>1, <1>4, <1>5 DEF Bettered

\* What was needed raises the share of the needed transforms by its own.
LEMMA NeededRaises ==
    ASSUME NEW r, IsRollout(r), NEW t \in CoreOps, t \notin r.used, t \in Expected(r),
           NEW runs \in Nat
    PROVE  /\ Mandatory(Better(r, t, IF t = "crop" THEN {One} ELSE {}, runs))
                 = Mandatory(r) + One \div Cardinality(Expected(r))
           /\ One \div Cardinality(Expected(r)) \in Nat \ {0}
<1>. DEFINE ious == IF t = "crop" THEN {One} ELSE {}
            q == Better(r, t, ious, runs)
            need == Expected(r)
            c == Cardinality((need \ {"crop"}) \cap r.used)
            d == Cardinality((need \ {"crop"}) \cap q.used)
            a == IF "crop" \in need \cap r.used THEN BestIou(r) ELSE 0
            b == IF "crop" \in need \cap q.used THEN BestIou(q) ELSE 0
            n == Cardinality(need)
<1>1. ious \in {{}, {One}}
  OBVIOUS
<1>2. IsRollout(q) /\ q.used = r.used \cup {t} /\ q.ious = r.ious \cup ious /\ Expected(q) = need
  <2>1. Bettered(r, t, ious, runs, q)
    BY <1>1, BetterFields
  <2>. HIDE DEF q, ious
  <2>. QED
    BY <2>1 DEF Bettered
<1>3. IsFiniteSet(need) /\ n \in 1..4 /\ need # {}
  BY ExpectedFinite
<1>4. Mandatory(r) = (c * One + a) \div n /\ Mandatory(q) = (d * One + b) \div n
  BY <1>2, <1>3 DEF Mandatory
<1>5. BestIou(r) \in 0..One /\ BestIou(q) \in 0..One
  BY <1>2, BestIouBounds DEF BestIou, IsRollout
<1>. HIDE DEF ious, q, n
<1>6. c \in Nat /\ IsFiniteSet((need \ {"crop"}) \cap r.used)
  <2>1. (need \ {"crop"}) \cap r.used \in SUBSET need
    OBVIOUS
  <2>. QED
    BY <1>3, <2>1, FS_Subset, FS_CardinalityType
<1>7. a \in 0..One
  BY <1>5 DEF One
<1>8. d * One + b = (c * One + a) + One
  <2>1. CASE t = "crop"
    <3>1. (need \ {"crop"}) \cap q.used = (need \ {"crop"}) \cap r.used
      BY <1>2, <2>1
    <3>2. a = 0
      BY <2>1
    <3>3. "crop" \in need \cap q.used /\ One \in q.ious
      BY <1>2, <2>1 DEF ious
    <3>4. BestIou(q) >= One
      BY <1>2, <3>3, BestIouBounds DEF BestIou, IsRollout
    <3>5. b = One /\ d = c
      BY <1>5, <3>1, <3>3, <3>4 DEF One
    <3>. HIDE DEF a, b, c, d
    <3>. QED
      BY <1>6, <3>2, <3>5 DEF One
  <2>2. CASE t # "crop"
    <3>1. (need \ {"crop"}) \cap q.used = ((need \ {"crop"}) \cap r.used) \cup {t}
      BY <1>2, <2>2
    <3>2. t \notin (need \ {"crop"}) \cap r.used
      OBVIOUS
    <3>3. d = c + 1
      BY <1>6, <3>1, <3>2, FS_AddElement
    <3>4. a = b
      <4>1. BestIou(q) = BestIou(r)
        BY <1>2, <2>2 DEF BestIou, ious
      <4>2. "crop" \in need \cap q.used <=> "crop" \in need \cap r.used
        BY <1>2, <2>2
      <4>. QED
        BY <4>1, <4>2
    <3>. HIDE DEF a, b, c, d
    <3>. QED
      BY <1>6, <1>7, <3>3, <3>4 DEF One
  <2>. QED
    BY <2>1, <2>2
<1>9. c * One + a \in Nat
  <2>. HIDE DEF a, c
  <2>. QED
    BY <1>6, <1>7 DEF One
<1>. HIDE DEF a, b, c, d
<1>10. /\ ((c * One + a) + One) \div n = (c * One + a) \div n + One \div n
       /\ One \div n \in Nat \ {0}
  BY <1>3, <1>9, DivisionGrows
<1>11. Mandatory(q) = Mandatory(r) + One \div n
  BY <1>4, <1>8, <1>10
<1>. QED
  BY <1>10, <1>11 DEF q, ious, n

\* A batch of rollouts.
IsBatch(batch) == IsFiniteSet(DOMAIN batch) /\ \A j \in DOMAIN batch : IsRollout(batch[j])

\* What is paid is never negative.
LEMMA MaxWithZero ==
    ASSUME NEW x \in Int
    PROVE  Max({0, x}) = IF x > 0 THEN x ELSE 0
<1>1. CASE x > 0
  <2>1. \A m \in {0, x} : (\A y \in {0, x} : m >= y) => m = x
    BY <1>1
  <2>2. \A y \in {0, x} : x >= y
    BY <1>1
  <2>. QED
    BY <1>1, <2>1, <2>2 DEF Max
<1>2. CASE ~(x > 0)
  <2>1. \A m \in {0, x} : (\A y \in {0, x} : m >= y) => m = 0
    BY <1>2
  <2>2. \A y \in {0, x} : 0 >= y
    BY <1>2
  <2>. QED
    BY <1>2, <2>1, <2>2 DEF Max
<1>. QED
  BY <1>1, <1>2

\* A share is between nothing and all.
LEMMA ShareBounds ==
    ASSUME NEW all, IsFiniteSet(all), NEW part \in SUBSET all
    PROVE  Share(part, all) \in 0..One /\ (part = all /\ all # {} => Share(part, all) = One)
<1>. DEFINE c == Cardinality(part)
            n == Cardinality(all)
<1>1. n \in Nat /\ (n = 0 <=> all = {})
  BY FS_CardinalityType, FS_EmptySet
<1>2. c \in Nat /\ c <= n
  BY FS_Subset, FS_CardinalityType
<1>3. Share(part, all) = IF all = {} THEN 0 ELSE (c * One) \div n
  BY DEF Share
<1>4. CASE all = {}
  BY <1>3, <1>4 DEF One
<1>5. CASE all # {}
  <2>1. part = all => c = n
    OBVIOUS
  <2>. HIDE DEF c, n
  <2>2. n \in Nat \ {0}
    BY <1>1, <1>5
  <2>3. (c * One) \div n \in 0..One
    <3>1. c * One \in Nat /\ c * One <= n * One
      BY <1>2, <2>2 DEF One
    <3>. DEFINE x == c * One
                d == x \div n
    <3>. HIDE DEF x
    <3>2. d \in Nat /\ d * n <= x
      BY <2>2, <3>1 DEF x
    <3>. HIDE DEF d
    <3>3. d * n <= n * One
      BY <2>2, <3>1, <3>2 DEF x, One
    <3>4. d > One => d * n >= n * One + n
      BY <2>2, <3>2 DEF One
    <3>5. d <= One
      BY <2>2, <3>2, <3>3, <3>4 DEF One
    <3>. QED
      BY <3>2, <3>5 DEF d, x, One
  <2>4. (n * One) \div n = One
    BY <2>2 DEF One
  <2>. QED
    BY <1>3, <1>5, <2>1, <2>3, <2>4
<1>. QED
  BY <1>4, <1>5

\* The two halves of a group, and those of them that are right.
ToolUsers(batch, i) == {j \in GroupOf(batch, i) : UsedTool(batch[j])}
\* The group's rollouts without tools, and those of a set that are right.
Others(batch, i) == GroupOf(batch, i) \ ToolUsers(batch, i)
\* Those of a set that are right.
RightOf(batch, all) == {j \in all : batch[j].correct}

\* Where a bonus may be paid, and how far the tool users are ahead.
Needed(batch, i) ==
    /\ i \in RightOf(batch, ToolUsers(batch, i)) /\ Others(batch, i) # {}
    /\ Cardinality(RightOf(batch, Others(batch, i))) < 2
\* How far the tool users are ahead.
Ahead(batch, i) ==
    Share(RightOf(batch, ToolUsers(batch, i)), ToolUsers(batch, i))
        - Share(RightOf(batch, Others(batch, i)), Others(batch, i))

\* The bonus, in these terms.
LEMMA NecessityParts ==
    ASSUME NEW batch, NEW i
    PROVE  Necessity(batch, i) = IF Needed(batch, i) THEN Max({0, Ahead(batch, i)}) ELSE 0
BY DEF Necessity, Needed, Ahead, ToolUsers, Others, RightOf

\* A group is finite.
LEMMA GroupFinite ==
    ASSUME NEW batch, IsBatch(batch), NEW i
    PROVE  /\ IsFiniteSet(ToolUsers(batch, i)) /\ IsFiniteSet(Others(batch, i))
           /\ RightOf(batch, ToolUsers(batch, i)) \in SUBSET ToolUsers(batch, i)
           /\ RightOf(batch, Others(batch, i)) \in SUBSET Others(batch, i)
<1>1. ToolUsers(batch, i) \in SUBSET DOMAIN batch /\ Others(batch, i) \in SUBSET DOMAIN batch
  BY DEF ToolUsers, Others, GroupOf
<1>2. IsFiniteSet(ToolUsers(batch, i)) /\ IsFiniteSet(Others(batch, i))
  BY <1>1, FS_Subset DEF IsBatch
<1>. QED
  BY <1>2 DEF RightOf

\* The bonus is a number, and paid only if the tool users are ahead.
LEMMA NecessityBounds ==
    ASSUME NEW batch, IsBatch(batch), NEW i
    PROVE  /\ Ahead(batch, i) \in Int
           /\ Necessity(batch, i) = IF Needed(batch, i) /\ Ahead(batch, i) > 0
                                    THEN Ahead(batch, i) ELSE 0
           /\ Necessity(batch, i) \in Nat
<1>1. /\ Share(RightOf(batch, ToolUsers(batch, i)), ToolUsers(batch, i)) \in 0..One
      /\ Share(RightOf(batch, Others(batch, i)), Others(batch, i)) \in 0..One
  BY GroupFinite, ShareBounds
<1>2. Ahead(batch, i) \in Int
  BY <1>1 DEF Ahead, One
<1>3. Max({0, Ahead(batch, i)}) = IF Ahead(batch, i) > 0 THEN Ahead(batch, i) ELSE 0
  BY <1>2, MaxWithZero
<1>. QED
  BY <1>2, <1>3, NecessityParts

\* The bonus is paid only where some rollout without tools was wrong.
LEMMA WitnessNeeded ==
    ASSUME NEW batch, IsBatch(batch), NEW i, Necessity(batch, i) > 0
    PROVE  \E j \in GroupOf(batch, i) : ~UsedTool(batch[j]) /\ ~batch[j].correct
<1>. DEFINE W == ToolUsers(batch, i)
            V == Others(batch, i)
<1>1. Needed(batch, i) /\ Ahead(batch, i) > 0
  BY NecessityBounds
<1>2. IsFiniteSet(V) /\ V # {} /\ RightOf(batch, V) \in SUBSET V
  BY <1>1, GroupFinite DEF Needed
<1>3. Share(RightOf(batch, W), W) \in 0..One
  BY GroupFinite, ShareBounds
<1>4. RightOf(batch, V) # V
  <2>1. SUFFICES ASSUME RightOf(batch, V) = V PROVE FALSE
    OBVIOUS
  <2>2. Share(RightOf(batch, V), V) = One
    BY <1>2, <2>1, ShareBounds
  <2>. QED
    BY <1>1, <1>3, <2>2 DEF Ahead, One
<1>5. PICK j \in V : ~batch[j].correct
  BY <1>2, <1>4 DEF RightOf
<1>. QED
  BY <1>5 DEF Others, ToolUsers

\* The reward for the answer, and the bonus that is paid.
Acc(r) == IF ~r.correct THEN 0 ELSE IF Missed(r) THEN Mandatory(r) ELSE One
\* The bonus that is paid.
Paid(batch, i) == IF Missed(batch[i]) THEN 0 ELSE Necessity(batch, i)

\* The reward as the sum of its parts.
LEMMA RewardParts ==
    ASSUME NEW batch, NEW i
    PROVE  Reward(batch, i) =
              10 * Acc(batch[i]) + FmtWeight * batch[i].fmt
              + Alpha * Mandatory(batch[i]) + Beta * Paid(batch, i)
              + 10 * Exact(batch[i]) + Emerging(batch[i])
              - Gamma * (Usage(batch[i]) + Spurious(batch[i]))
BY DEF Reward, Acc, Paid

\* The free runs are counted.
LEMMA FreeRunsTyped ==
    ASSUME NEW r, IsRollout(r)
    PROVE  FreeRuns(r) \in Nat
<1>. DEFINE c == Cardinality(Expected(r))
<1>1. c \in Nat
  BY ExpectedFinite
<1>2. \E x \in {2, c} : \A y \in {2, c} : x >= y
  BY <1>1
<1>3. FreeRuns(r) \in {2, c}
  BY <1>2 DEF FreeRuns, Max
<1>. QED
  BY <1>1, <1>3

\* More runs cost what they are, and nothing as long as they are free.
LEMMA UsageGrows ==
    ASSUME NEW r, IsRollout(r), NEW q, IsRollout(q), Expected(q) = Expected(r),
           NEW runs \in Nat, q.codes = r.codes + runs
    PROVE  /\ Usage(r) \in Nat /\ Usage(q) \in Nat
           /\ Usage(r) <= Usage(q) /\ Usage(q) <= Usage(r) + runs * One
           /\ r.codes + runs <= FreeRuns(r) => Usage(q) = Usage(r)
<1>. DEFINE m == FreeRuns(r)
            c == r.codes
<1>1. m \in Nat /\ c \in Nat /\ FreeRuns(q) = m
  BY FreeRunsTyped DEF FreeRuns, IsRollout
<1>2. /\ Usage(r) = IF c >= m THEN (c - m) * One ELSE 0
      /\ Usage(q) = IF c + runs >= m THEN (c + runs - m) * One ELSE 0
  BY <1>1 DEF Usage
<1>. HIDE DEF m, c
<1>. QED
  BY <1>1, <1>2 DEF One, m, c

\* The parts are numbers.
LEMMA PartsTyped ==
    ASSUME NEW r, IsRollout(r)
    PROVE  /\ Mandatory(r) \in Nat /\ Acc(r) \in Nat /\ Exact(r) \in {0, 12}
           /\ Emerging(r) \in Nat /\ Usage(r) \in Nat /\ Spurious(r) \in Nat
           /\ (r.correct => Acc(r) <= One) /\ r.fmt \in Int
<1>0. /\ Alpha \in Nat /\ Beta \in Nat /\ Gamma \in Nat /\ FmtWeight \in Nat /\ EmergeWeight \in Nat
      /\ r.correct \in BOOLEAN /\ r.codes \in Nat /\ r.fmt \in Int
  BY ToolRewardsAssumption DEF IsRollout
<1>1. Mandatory(r) \in Nat
  BY MandatoryBounds
<1>2. Acc(r) \in Nat /\ (r.correct => Acc(r) <= One)
  BY <1>0, <1>1 DEF Acc, Missed, One
<1>3. Exact(r) \in {0, 12}
  BY DEF Exact, One
<1>4. Emerging(r) \in Nat
  BY <1>0 DEF Emerging, One
<1>5. Usage(r) \in Nat
  <2>1. r.codes >= FreeRuns(r) => (r.codes - FreeRuns(r)) * One \in Nat
    BY <1>0, FreeRunsTyped DEF One
  <2>. QED
    BY <2>1 DEF Usage
<1>6. Spurious(r) \in Nat
  <2>1. r.used \cap Orientations \in SUBSET r.used /\ IsFiniteSet(r.used)
    BY DEF IsRollout
  <2>2. Cardinality(r.used \cap Orientations) \in Nat
    BY <2>1, FS_Subset, FS_CardinalityType
  <2>. QED
    BY <2>2 DEF Spurious, One
<1>. QED
  BY <1>0, <1>1, <1>2, <1>3, <1>4, <1>5, <1>6

\* The batch with rollout i replaced.
Replaced(batch, i, q) == [batch EXCEPT ![i] = q]

\* Only rollout i changes, and the groups stay.
LEMMA ReplacedFields ==
    ASSUME NEW batch, IsBatch(batch), NEW i \in DOMAIN batch, NEW q, IsRollout(q),
           q.uid = batch[i].uid
    PROVE  /\ IsBatch(Replaced(batch, i, q)) /\ DOMAIN Replaced(batch, i, q) = DOMAIN batch
           /\ Replaced(batch, i, q)[i] = q
           /\ \A j \in DOMAIN batch : j # i => Replaced(batch, i, q)[j] = batch[j]
           /\ \A k \in DOMAIN batch : GroupOf(Replaced(batch, i, q), k) = GroupOf(batch, k)
<1>. DEFINE b == Replaced(batch, i, q)
<1>1. /\ DOMAIN b = DOMAIN batch /\ b[i] = q
      /\ \A j \in DOMAIN batch : j # i => b[j] = batch[j]
  BY DEF Replaced
<1>. HIDE DEF b
<1>2. IsBatch(b)
  BY <1>1 DEF IsBatch
<1>3. \A j \in DOMAIN batch : b[j].uid = batch[j].uid
  BY <1>1
<1>4. \A k \in DOMAIN batch : GroupOf(b, k) = GroupOf(batch, k)
  BY <1>1, <1>3 DEF GroupOf
<1>. QED
  BY <1>1, <1>2, <1>4 DEF b

\* Using a tool never costs the bonus for a necessary one.
LEMMA NecessityKept ==
    ASSUME NEW batch, IsBatch(batch), NEW i \in DOMAIN batch, NEW q, IsRollout(q),
           q.uid = batch[i].uid, q.correct = batch[i].correct, UsedTool(q)
    PROVE  /\ Necessity(Replaced(batch, i, q), i) >= Necessity(batch, i)
           /\ UsedTool(batch[i]) => Necessity(Replaced(batch, i, q), i) = Necessity(batch, i)
<1>. DEFINE b == Replaced(batch, i, q)
<1>1. /\ IsBatch(b) /\ DOMAIN b = DOMAIN batch /\ b[i] = q
      /\ \A j \in DOMAIN batch : j # i => b[j] = batch[j]
      /\ GroupOf(b, i) = GroupOf(batch, i)
  BY ReplacedFields
<1>2. Necessity(b, i) \in Nat /\ Necessity(batch, i) \in Nat
  BY <1>1, NecessityBounds
<1>. HIDE DEF b
<1>3. CASE UsedTool(batch[i])
  <2>1. \A j \in GroupOf(batch, i) : /\ UsedTool(b[j]) <=> UsedTool(batch[j])
                                     /\ b[j].correct = batch[j].correct
    BY <1>1, <1>3 DEF GroupOf
  <2>2. ToolUsers(b, i) = ToolUsers(batch, i)
    BY <1>1, <2>1 DEF ToolUsers
  <2>3. Others(b, i) = Others(batch, i)
    BY <1>1, <2>2 DEF Others
  <2>4. ToolUsers(batch, i) \subseteq GroupOf(batch, i) /\ Others(batch, i) \subseteq GroupOf(batch, i)
    BY DEF ToolUsers, Others
  <2>5. /\ RightOf(b, ToolUsers(b, i)) = RightOf(batch, ToolUsers(batch, i))
        /\ RightOf(b, Others(b, i)) = RightOf(batch, Others(batch, i))
    BY <2>1, <2>2, <2>3, <2>4 DEF RightOf
  <2>6. Needed(b, i) = Needed(batch, i) /\ Ahead(b, i) = Ahead(batch, i)
    BY <2>2, <2>3, <2>5 DEF Needed, Ahead
  <2>7. Necessity(b, i) = Necessity(batch, i)
    BY <2>6, NecessityParts
  <2>. QED
    BY <1>2, <2>7 DEF b
<1>4. CASE ~UsedTool(batch[i])
  <2>1. i \notin RightOf(batch, ToolUsers(batch, i))
    BY <1>4 DEF RightOf, ToolUsers
  <2>2. Necessity(batch, i) = 0
    BY <2>1, NecessityBounds DEF Needed
  <2>. QED
    BY <1>2, <1>4, <2>2 DEF b
<1>. QED
  BY <1>3, <1>4

\* The sum of the parts grows with each of them, as long as the runs cost no more.
LEMMA RewardGrows ==
    ASSUME NEW w, NEW x, IsBatch(w), IsBatch(x), NEW i \in DOMAIN w, i \in DOMAIN x,
           w[i].fmt = x[i].fmt,
           Acc(w[i]) <= Acc(x[i]), Paid(w, i) <= Paid(x, i), Paid(w, i) \in Nat, Paid(x, i) \in Nat,
           Exact(w[i]) <= Exact(x[i]), Emerging(w[i]) = Emerging(x[i]),
           Spurious(w[i]) >= Spurious(x[i]), Mandatory(w[i]) <= Mandatory(x[i])
    PROVE  /\ Gamma * Usage(x[i]) - Gamma * Usage(w[i])
                 <= Alpha * Mandatory(x[i]) - Alpha * Mandatory(w[i])
              => Reward(w, i) <= Reward(x, i)
           /\ Gamma * Usage(x[i]) - Gamma * Usage(w[i])
                 < Alpha * Mandatory(x[i]) - Alpha * Mandatory(w[i])
              => Reward(w, i) < Reward(x, i)
<1>0. Alpha \in Nat /\ Beta \in Nat /\ Gamma \in Nat /\ FmtWeight \in Nat
  BY ToolRewardsAssumption
<1>1. IsRollout(w[i]) /\ IsRollout(x[i])
  BY DEF IsBatch
<1>2. /\ Mandatory(w[i]) \in Nat /\ Acc(w[i]) \in Nat /\ Exact(w[i]) \in Nat
      /\ Emerging(w[i]) \in Nat /\ Usage(w[i]) \in Nat /\ Spurious(w[i]) \in Nat
      /\ Mandatory(x[i]) \in Nat /\ Acc(x[i]) \in Nat /\ Exact(x[i]) \in Nat
      /\ Emerging(x[i]) \in Nat /\ Usage(x[i]) \in Nat /\ Spurious(x[i]) \in Nat
      /\ w[i].fmt \in Int
  BY <1>1, PartsTyped
<1>. DEFINE m == Mandatory(w[i])
            n == Mandatory(x[i])
            p == Paid(w, i)
            q == Paid(x, i)
            s == Spurious(w[i])
            t == Spurious(x[i])
            j == Usage(w[i])
            k == Usage(x[i])
            f == FmtWeight * w[i].fmt
            v == Acc(w[i])
            u == Acc(x[i])
            e == Exact(w[i])
            d == Exact(x[i])
            g == Emerging(w[i])
<1>3. /\ Reward(w, i) = 10 * v + f + Alpha * m + Beta * p + 10 * e + g - Gamma * (j + s)
      /\ Reward(x, i) = 10 * u + f + Alpha * n + Beta * q + 10 * d + g - Gamma * (k + t)
  BY RewardParts
<1>4. /\ m \in Nat /\ n \in Nat /\ p \in Nat /\ q \in Nat /\ s \in Nat /\ t \in Nat /\ f \in Int
      /\ v \in Nat /\ u \in Nat /\ e \in Nat /\ d \in Nat /\ g \in Nat
      /\ j \in Nat /\ k \in Nat /\ m <= n /\ p <= q /\ s >= t /\ v <= u /\ e <= d
  BY <1>0, <1>2
<1>. HIDE DEF m, n, p, q, s, t, j, k, f, v, u, e, d, g
<1>5. /\ Alpha * m \in Int /\ Alpha * n \in Int
      /\ Gamma * j \in Int /\ Gamma * k \in Int
      /\ Gamma * (j + s) = Gamma * j + Gamma * s
      /\ Gamma * (k + t) = Gamma * k + Gamma * t
  BY <1>0, <1>4
<1>6. Beta * p <= Beta * q /\ Beta * p \in Int /\ Beta * q \in Int
  BY <1>0, <1>4
<1>7. Gamma * s >= Gamma * t /\ Gamma * s \in Int /\ Gamma * t \in Int
  BY <1>0, <1>4
<1>8. Gamma * k - Gamma * j <= Alpha * n - Alpha * m => Reward(w, i) <= Reward(x, i)
  BY <1>3, <1>4, <1>5, <1>6, <1>7
<1>9. Gamma * k - Gamma * j < Alpha * n - Alpha * m => Reward(w, i) < Reward(x, i)
  BY <1>3, <1>4, <1>5, <1>6, <1>7
<1>. QED
  BY <1>8, <1>9 DEF m, n, j, k

\* q is the rollout r with the transform t used too, these boxes cropped, and more runs.
LEMMA BetterParts ==
    ASSUME NEW r, IsRollout(r), NEW t \in CoreOps, t \notin r.used, NEW ious \in {{}, {One}},
           NEW runs \in Nat, NEW q, Bettered(r, t, ious, runs, q)
    PROVE  /\ UsedTool(q) /\ Emerging(q) = Emerging(r)
           /\ t \in Expected(r) => Exact(r) = 0 /\ Spurious(q) = Spurious(r)
           /\ t \notin Expected(r) => Exact(q) = 0 /\ Spurious(q) >= Spurious(r)
           /\ t \notin Expected(r) /\ ious = {} => Mandatory(q) = Mandatory(r)
<1>1. /\ q.used = r.used \cup {t} /\ q.ious = r.ious \cup ious /\ q.correct = r.correct
      /\ Expected(q) = Expected(r) /\ IsRollout(q)
  BY DEF Bettered
<1>2. UsedTool(q)
  BY <1>1 DEF UsedTool
<1>3. Emerging(q) = Emerging(r)
  <2>1. q.used \ CoreOps = r.used \ CoreOps
    BY <1>1
  <2>. QED
    BY <1>1, <2>1 DEF Emerging
<1>5. ASSUME t \in Expected(r) PROVE Exact(r) = 0 /\ Spurious(q) = Spurious(r)
  <2>1. Expected(r) \cap CoreOps # r.used \cap CoreOps
    BY <1>5
  <2>2. Exact(r) = 0
    BY <2>1 DEF Exact
  <2>3. CASE Expected(r) \cap Orientations = {}
    <3>1. t \notin Orientations
      BY <1>5, <2>3
    <3>2. q.used \cap Orientations = r.used \cap Orientations
      BY <1>1, <3>1
    <3>. QED
      BY <1>1, <2>2, <3>2 DEF Spurious
  <2>4. CASE Expected(r) \cap Orientations # {}
    BY <1>1, <2>2, <2>4 DEF Spurious
  <2>. QED
    BY <2>3, <2>4
<1>6. ASSUME t \notin Expected(r) PROVE Exact(q) = 0 /\ Spurious(q) >= Spurious(r)
  <2>1. Expected(q) \cap CoreOps # q.used \cap CoreOps
    BY <1>1, <1>6
  <2>2. Exact(q) = 0
    BY <2>1 DEF Exact
  <2>. DEFINE U == q.used \cap Orientations
              V == r.used \cap Orientations
  <2>3. IsFiniteSet(q.used) /\ U \in SUBSET q.used /\ V \in SUBSET U
    BY <1>1 DEF IsRollout
  <2>4. IsFiniteSet(U) /\ IsFiniteSet(V)
    BY <2>3, FS_Subset
  <2>5. Cardinality(V) <= Cardinality(U) /\ Cardinality(U) \in Nat /\ Cardinality(V) \in Nat
    BY <2>3, <2>4, FS_Subset, FS_CardinalityType
  <2>6. Spurious(q) >= Spurious(r)
    <3>1. /\ Spurious(q) = IF Expected(r) \cap Orientations = {} THEN Cardinality(U) * One ELSE 0
          /\ Spurious(r) = IF Expected(r) \cap Orientations = {} THEN Cardinality(V) * One ELSE 0
      BY <1>1 DEF Spurious
    <3>. HIDE DEF U, V
    <3>. QED
      BY <2>5, <3>1 DEF One
  <2>. QED
    BY <2>2, <2>6
<1>7. ASSUME t \notin Expected(r), ious = {} PROVE Mandatory(q) = Mandatory(r)
  <2>1. (Expected(r) \ {"crop"}) \cap q.used = (Expected(r) \ {"crop"}) \cap r.used
    BY <1>1, <1>7
  <2>2. "crop" \in Expected(r) \cap q.used <=> "crop" \in Expected(r) \cap r.used
    BY <1>1, <1>7
  <2>3. BestIou(q) = BestIou(r)
    BY <1>1, <1>7 DEF BestIou
  <2>. QED
    BY <1>1, <2>1, <2>2, <2>3 DEF Mandatory
<1>. QED
  BY <1>2, <1>3, <1>5, <1>6, <1>7

\* The rollout CorrectingPays compares with is a better one.
LEMMA WithIsReplaced ==
    ASSUME NEW i \in DOMAIN rollouts, IsRollout(rollouts[i]), NEW t, NEW ious, NEW runs
    PROVE  With(i, {t}, ious, runs) = Replaced(rollouts, i, Better(rollouts[i], t, ious, runs))
<1>. DEFINE r == rollouts[i]
            p == [r EXCEPT !.used = @ \cup {t}, !.ious = @ \cup ious, !.codes = @ + runs]
<1>1. r = [uid |-> r.uid, required |-> r.required, used |-> r.used, correct |-> r.correct,
            ious |-> r.ious, codes |-> r.codes, fmt |-> r.fmt]
  BY DEF IsRollout
<1>2. p = Better(r, t, ious, runs)
  <2>. HIDE DEF r
  <2>1. DOMAIN r = {"uid", "required", "used", "correct", "ious", "codes", "fmt"}
    BY <1>1
  <2>2. \A f \in DOMAIN r : p[f] = Better(r, t, ious, runs)[f]
    <3>1. /\ p["used"] = r["used"] \cup {t} /\ p["ious"] = r["ious"] \cup ious
          /\ p["codes"] = r["codes"] + runs
          /\ \A f \in DOMAIN r \ {"used", "ious", "codes"} : p[f] = r[f]
      BY <2>1
    <3>2. /\ Better(r, t, ious, runs)["used"] = r["used"] \cup {t}
          /\ Better(r, t, ious, runs)["ious"] = r["ious"] \cup ious
          /\ Better(r, t, ious, runs)["codes"] = r["codes"] + runs
          /\ \A f \in DOMAIN r \ {"used", "ious", "codes"} : Better(r, t, ious, runs)[f] = r[f]
      BY <2>1 DEF Better
    <3>. HIDE DEF p
    <3>. QED
      BY <2>1, <3>1, <3>2
  <2>3. DOMAIN p = DOMAIN r /\ p = [f \in DOMAIN r |-> p[f]]
    OBVIOUS
  <2>4. /\ DOMAIN Better(r, t, ious, runs) = DOMAIN r
        /\ Better(r, t, ious, runs) = [f \in DOMAIN r |-> Better(r, t, ious, runs)[f]]
    BY <2>1 DEF Better
  <2>. HIDE DEF p
  <2>. QED
    BY <2>2, <2>3, <2>4
<1>3. With(i, {t}, ious, runs) = [rollouts EXCEPT ![i] = p]
  BY DEF With
<1>. QED
  BY <1>2, <1>3 DEF Replaced

\* A rollout with a greater share is not paid less for its answer.
LEMMA AccGrows ==
    ASSUME NEW r, IsRollout(r), NEW q, IsRollout(q), q.correct = r.correct,
           Expected(q) = Expected(r), Mandatory(q) >= Mandatory(r)
    PROVE  Acc(r) <= Acc(q) /\ (Missed(q) => Missed(r))
<1>1. Mandatory(r) \in Nat /\ Mandatory(q) \in Nat
  BY PartsTyped
<1>2. Missed(q) => Missed(r)
  BY <1>1 DEF Missed, One
<1>. QED
  BY <1>1, <1>2 DEF Acc, Missed, One

\* A rollout that has also used a transform it was expected to use is paid more, as
\* long as the runs are free or cost less than the transform's share is worth.
LEMMA CorrectingPaysAny ==
    ASSUME IsBatch(rollouts), Alpha # 0
    PROVE  CorrectingPays
<1>1. SUFFICES ASSUME NEW i \in DOMAIN rollouts, NEW t \in CoreOps \ rollouts[i].used, NEW runs \in 0..2,
                      Affordable(rollouts[i], runs), NEW need \in rollouts[i].required, Corrects(t, need)
               PROVE  Reward(With(i, {t}, IF t = "crop" THEN {One} ELSE {}, runs), i)
                         > Reward(rollouts, i)
  BY DEF CorrectingPays
<1>. DEFINE r == rollouts[i]
            ious == IF t = "crop" THEN {One} ELSE {}
            q == Better(r, t, ious, runs)
            b == Replaced(rollouts, i, q)
<1>2. IsRollout(r) /\ t \in CoreOps /\ t \notin r.used /\ runs \in Nat
  BY DEF IsBatch
<1>3. t \in Expected(r)
  BY <1>1, CorrectsIsUndo DEF Expected
<1>4. With(i, {t}, ious, runs) = b
  BY <1>2, WithIsReplaced
<1>. DEFINE share == One \div Cardinality(Expected(r))
<1>5. Mandatory(q) = Mandatory(r) + share /\ share \in Nat \ {0}
  BY <1>2, <1>3, NeededRaises
<1>6. ious \in {{}, {One}}
  OBVIOUS
<1>7. Bettered(r, t, ious, runs, q)
  BY <1>2, <1>6, BetterFields
<1>. HIDE DEF ious, q
<1>8. /\ IsRollout(q) /\ q.uid = r.uid /\ q.correct = r.correct /\ q.fmt = r.fmt
      /\ q.codes = r.codes + runs /\ Expected(q) = Expected(r)
  BY <1>7 DEF Bettered
<1>9. /\ UsedTool(q) /\ Emerging(q) = Emerging(r)
      /\ Exact(r) = 0 /\ Spurious(q) = Spurious(r)
  BY <1>2, <1>3, <1>6, <1>7, BetterParts
<1>10. IsBatch(b) /\ i \in DOMAIN b /\ b[i] = q
  BY <1>8, ReplacedFields
<1>11. Necessity(b, i) >= Necessity(rollouts, i)
  BY <1>8, <1>9, NecessityKept
<1>. HIDE DEF b
<1>12. Necessity(b, i) \in Nat /\ Necessity(rollouts, i) \in Nat
  BY <1>10, NecessityBounds
<1>a. /\ Mandatory(r) \in Nat /\ Mandatory(q) \in Nat /\ Exact(q) \in {0, 12}
      /\ Spurious(r) \in Nat /\ Usage(r) \in Nat /\ Usage(q) \in Nat
  BY <1>2, <1>8, PartsTyped
<1>13. Acc(r) <= Acc(q) /\ (Missed(q) => Missed(r))
  BY <1>2, <1>5, <1>8, <1>a, AccGrows
<1>14. Paid(rollouts, i) <= Paid(b, i) /\ Paid(rollouts, i) \in Nat /\ Paid(b, i) \in Nat
  BY <1>10, <1>11, <1>12, <1>13 DEF Paid
<1>c. Gamma * Usage(q) - Gamma * Usage(r) < Alpha * Mandatory(q) - Alpha * Mandatory(r)
  <2>. DEFINE x == Usage(r)
              y == Usage(q)
              m == Mandatory(r)
              n == Mandatory(q)
  <2>1. Alpha \in Nat \ {0} /\ Gamma \in Nat
    BY ToolRewardsAssumption
  <2>2. /\ x <= y /\ y <= x + runs * One /\ (r.codes + runs <= FreeRuns(r) => y = x)
    BY <1>2, <1>8, UsageGrows
  <2>3. r.codes + runs <= FreeRuns(r) \/ Gamma * runs * One < Alpha * share
    BY <1>1 DEF Affordable
  <2>4. /\ x \in Nat /\ y \in Nat /\ m \in Nat /\ n \in Nat /\ n = m + share
        /\ share \in Nat \ {0} /\ runs \in Nat /\ One \in Nat
    BY <1>2, <1>5, <1>a DEF One
  <2>. HIDE DEF x, y, m, n, share
  <2>5. Alpha * n = Alpha * m + Alpha * share /\ Alpha * m \in Nat /\ Alpha * share \in Nat \ {0}
    BY <2>1, <2>4
  <2>6. CASE r.codes + runs <= FreeRuns(r)
    <3>1. Gamma * y = Gamma * x /\ Gamma * x \in Nat
      BY <2>1, <2>2, <2>4, <2>6
    <3>2. Gamma * y - Gamma * x < Alpha * n - Alpha * m
      BY <2>5, <3>1
    <3>. QED
      BY <3>2 DEF x, y, m, n
  <2>7. CASE Gamma * runs * One < Alpha * share
    <3>. DEFINE z == runs * One
    <3>1. z \in Nat /\ Gamma * runs * One = Gamma * z /\ y - x \in Nat /\ y - x <= z
      BY <2>1, <2>2, <2>4 DEF One
    <3>2. /\ Gamma * z \in Nat /\ Gamma * x \in Nat /\ Gamma * y \in Nat
          /\ Gamma * y - Gamma * x = Gamma * (y - x) /\ Gamma * (y - x) <= Gamma * z
      <4>. HIDE DEF z
      <4>. QED
        BY <2>1, <2>4, <3>1
    <3>3. Gamma * z < Alpha * share
      BY <2>7, <3>1
    <3>. HIDE DEF z
    <3>4. Gamma * y - Gamma * x < Alpha * n - Alpha * m
      BY <2>5, <3>2, <3>3
    <3>. QED
      BY <3>4 DEF x, y, m, n
  <2>. QED
    BY <2>3, <2>6, <2>7
<1>d. Mandatory(r) <= Mandatory(q)
  BY <1>5, <1>a
<1>. HIDE DEF share
<1>15. Reward(rollouts, i) < Reward(b, i)
  <2>1. /\ rollouts[i].fmt = b[i].fmt /\ Acc(rollouts[i]) <= Acc(b[i])
        /\ Exact(rollouts[i]) <= Exact(b[i]) /\ Emerging(rollouts[i]) = Emerging(b[i])
        /\ Spurious(rollouts[i]) >= Spurious(b[i])
        /\ Mandatory(rollouts[i]) <= Mandatory(b[i])
        /\ Gamma * Usage(b[i]) - Gamma * Usage(rollouts[i])
              < Alpha * Mandatory(b[i]) - Alpha * Mandatory(rollouts[i])
    BY <1>8, <1>9, <1>10, <1>13, <1>a, <1>c, <1>d
  <2>. QED
    BY <1>10, <1>14, <2>1, RewardGrows
<1>16. Reward(b, i) \in Int /\ Reward(rollouts, i) \in Int
  <2>1. \A w : IsBatch(w) /\ i \in DOMAIN w /\ Paid(w, i) \in Nat => Reward(w, i) \in Int
    <3>1. SUFFICES ASSUME NEW w, IsBatch(w), i \in DOMAIN w, Paid(w, i) \in Nat
                   PROVE  Reward(w, i) \in Int
      OBVIOUS
    <3>2. IsRollout(w[i])
      BY <3>1 DEF IsBatch
    <3>3. /\ Alpha \in Nat /\ Beta \in Nat /\ Gamma \in Nat /\ FmtWeight \in Nat
          /\ Acc(w[i]) \in Nat /\ w[i].fmt \in Int /\ Mandatory(w[i]) \in Nat
          /\ Exact(w[i]) \in Int /\ Emerging(w[i]) \in Nat
          /\ Usage(w[i]) \in Nat /\ Spurious(w[i]) \in Nat
      BY <3>2, PartsTyped, ToolRewardsAssumption
    <3>. QED
      BY <3>1, <3>3, RewardParts
  <2>. QED
    BY <1>10, <1>14, <2>1
<1>. QED
  BY <1>4, <1>15, <1>16 DEF ious

\* Turning or flipping without need pays nothing.
LEMMA SpuriousNeverPaysAny ==
    ASSUME IsBatch(rollouts)
    PROVE  SpuriousNeverPays
<1>1. SUFFICES ASSUME NEW i \in DOMAIN rollouts, NEW t \in Orientations \ rollouts[i].used,
                      NEW runs \in 0..2,
                      UsedTool(rollouts[i]),
                      \A need \in rollouts[i].required : ~Corrects(t, need)
               PROVE  Reward(With(i, {t}, {}, runs), i) <= Reward(rollouts, i)
  BY DEF SpuriousNeverPays
<1>. DEFINE r == rollouts[i]
            q == Better(r, t, {}, runs)
            b == Replaced(rollouts, i, q)
<1>2. IsRollout(r) /\ t \in CoreOps /\ t \notin r.used /\ runs \in Nat
  BY DEF IsBatch, CoreOps
<1>3. t \notin Expected(r)
  BY <1>1, <1>2, CorrectsIsUndo DEF Expected
<1>4. With(i, {t}, {}, runs) = b
  BY <1>2, WithIsReplaced
<1>6. {} \in {{}, {One}}
  OBVIOUS
<1>7. Bettered(r, t, {}, runs, q)
  BY <1>2, <1>6, BetterFields
<1>. HIDE DEF q
<1>8. /\ IsRollout(q) /\ q.uid = r.uid /\ q.correct = r.correct /\ q.fmt = r.fmt
      /\ q.codes = r.codes + runs /\ Expected(q) = Expected(r)
  BY <1>7 DEF Bettered
<1>9. /\ UsedTool(q) /\ Emerging(q) = Emerging(r)
      /\ Exact(q) = 0 /\ Spurious(q) >= Spurious(r) /\ Mandatory(q) = Mandatory(r)
  BY <1>2, <1>3, <1>6, <1>7, BetterParts
<1>10. IsBatch(b) /\ i \in DOMAIN b /\ b[i] = q
  BY <1>8, ReplacedFields
<1>11. Necessity(b, i) = Necessity(rollouts, i)
  BY <1>1, <1>8, <1>9, NecessityKept
<1>. HIDE DEF b
<1>12. Necessity(b, i) \in Nat
  BY <1>10, NecessityBounds
<1>a. Mandatory(r) \in Nat /\ Exact(r) \in {0, 12}
  BY <1>2, PartsTyped
<1>13. Acc(q) = Acc(r) /\ Missed(q) = Missed(r)
  BY <1>8, <1>9 DEF Acc, Missed
<1>14. Paid(b, i) = Paid(rollouts, i) /\ Paid(b, i) \in Nat
  BY <1>10, <1>11, <1>12, <1>13 DEF Paid
<1>b. Acc(r) \in Nat
  BY <1>2, PartsTyped
<1>c. Gamma * Usage(r) - Gamma * Usage(q) <= Alpha * Mandatory(r) - Alpha * Mandatory(q)
  <2>. DEFINE x == Usage(r)
              y == Usage(q)
              m == Mandatory(r)
  <2>1. Alpha \in Nat /\ Gamma \in Nat
    BY ToolRewardsAssumption
  <2>2. x \in Nat /\ y \in Nat /\ x <= y
    BY <1>2, <1>8, UsageGrows
  <2>3. m \in Nat /\ Mandatory(q) = m
    BY <1>9, <1>a
  <2>. HIDE DEF x, y, m
  <2>4. Gamma * x <= Gamma * y /\ Gamma * x \in Nat /\ Gamma * y \in Nat
    BY <2>1, <2>2
  <2>5. Alpha * m - Alpha * m = 0
    BY <2>1, <2>3
  <2>6. Gamma * x - Gamma * y <= Alpha * m - Alpha * m
    BY <2>4, <2>5
  <2>. QED
    BY <2>3, <2>6 DEF x, y, m
<1>15. Reward(b, i) <= Reward(rollouts, i)
  <2>1. /\ b[i].fmt = rollouts[i].fmt /\ Acc(b[i]) <= Acc(rollouts[i])
        /\ Exact(b[i]) <= Exact(rollouts[i]) /\ Emerging(b[i]) = Emerging(rollouts[i])
        /\ Spurious(b[i]) >= Spurious(rollouts[i])
        /\ Mandatory(b[i]) <= Mandatory(rollouts[i])
        /\ Gamma * Usage(rollouts[i]) - Gamma * Usage(b[i])
              <= Alpha * Mandatory(rollouts[i]) - Alpha * Mandatory(b[i])
        /\ Paid(b, i) <= Paid(rollouts, i) /\ Paid(rollouts, i) \in Nat
    BY <1>8, <1>9, <1>10, <1>13, <1>14, <1>a, <1>b, <1>c
  <2>. QED
    BY <1>10, <1>14, <2>1, RewardGrows
<1>. QED
  BY <1>4, <1>15
-----------------------------------------------------------------------------
\* Two sets of places that one bijection takes into each other have one size.
LEMMA SameSize ==
    ASSUME NEW A, NEW B, NEW g \in Bijection(A, B), IsFiniteSet(A),
           NEW X \in SUBSET A, NEW Y \in SUBSET B, \A a \in A : a \in X <=> g[a] \in Y
    PROVE  Cardinality(X) = Cardinality(Y)
<1>. DEFINE h == [a \in X |-> g[a]]
<1>1. /\ g \in [A -> B] /\ \A a, c \in A : g[a] = g[c] => a = c
      /\ \A y \in B : \E a \in A : g[a] = y
  BY DEF Bijection, Injection, Surjection, IsInjective
<1>2. h \in Injection(X, Y)
  BY <1>1 DEF Injection, IsInjective
<1>3. h \in Surjection(X, Y)
  <2>1. h \in [X -> Y]
    BY <1>1
  <2>2. ASSUME NEW y \in Y PROVE \E a \in X : h[a] = y
    <3>1. PICK a \in A : g[a] = y
      BY <1>1
    <3>. QED
      BY <3>1
  <2>. QED
    BY <2>1, <2>2 DEF Surjection
<1>4. ExistsBijection(X, Y)
  BY <1>2, <1>3 DEF ExistsBijection, Bijection
<1>5. IsFiniteSet(X)
  BY FS_Subset
<1>6. Cardinality(X) = Cardinality(Y)
  BY <1>4, <1>5, FS_Bijection
<1>. QED
  BY <1>6

\* A batch of exactly the rollouts of one prompt, in any order, pays them the same.
LEMMA GroupedAny ==
    ASSUME IsBatch(rollouts)
    PROVE  GroupedByPrompt
<1>. DEFINE Own(i) == {j \in DOMAIN rollouts : rollouts[j].uid = rollouts[i].uid}
<1>1. SUFFICES ASSUME NEW i \in DOMAIN rollouts,
                      NEW order \in Bijection(1..Cardinality(Own(i)), Own(i)),
                      NEW k \in DOMAIN order
               PROVE  Reward([n \in DOMAIN order |-> rollouts[order[n]]], k)
                          = Reward(rollouts, order[k])
  BY DEF GroupedByPrompt
<1>. DEFINE O == Own(i)
            D == 1..Cardinality(O)
            b == [n \in DOMAIN order |-> rollouts[order[n]]]
            l == order[k]
<1>2. IsFiniteSet(O) /\ O \in SUBSET DOMAIN rollouts
  BY FS_Subset DEF IsBatch
<1>3. Cardinality(O) \in Nat
  BY <1>2, FS_CardinalityType
<1>4. IsFiniteSet(D)
  <2>1. 1 \in Int /\ Cardinality(O) \in Int
    BY <1>3
  <2>. QED
    BY <2>1, FS_Interval
<1>5. /\ order \in [D -> O] /\ DOMAIN order = D /\ k \in D
      /\ order \in Bijection(D, O)
  BY DEF Bijection, Injection
<1>6. DOMAIN b = D /\ \A n \in D : b[n] = rollouts[order[n]] /\ order[n] \in O
  BY <1>5
<1>7. \A j \in O : rollouts[j].uid = rollouts[i].uid /\ j \in DOMAIN rollouts
  OBVIOUS
<1>8. l \in O
  BY <1>5
<1>9. GroupOf(rollouts, l) = O
  BY <1>7, <1>8 DEF GroupOf
<1>. HIDE DEF b, D, O, Own
<1>10. GroupOf(b, k) = D
  BY <1>5, <1>6, <1>7 DEF GroupOf
<1>11. /\ ToolUsers(b, k) \in SUBSET D /\ ToolUsers(rollouts, l) \in SUBSET O
       /\ \A n \in D : n \in ToolUsers(b, k) <=> order[n] \in ToolUsers(rollouts, l)
  BY <1>6, <1>9, <1>10 DEF ToolUsers
<1>12. /\ Others(b, k) \in SUBSET D /\ Others(rollouts, l) \in SUBSET O
       /\ \A n \in D : n \in Others(b, k) <=> order[n] \in Others(rollouts, l)
  BY <1>6, <1>9, <1>10, <1>11 DEF Others
<1>13. /\ RightOf(b, ToolUsers(b, k)) \in SUBSET D
       /\ RightOf(rollouts, ToolUsers(rollouts, l)) \in SUBSET O
       /\ \A n \in D : n \in RightOf(b, ToolUsers(b, k))
                          <=> order[n] \in RightOf(rollouts, ToolUsers(rollouts, l))
  BY <1>6, <1>11 DEF RightOf
<1>14. /\ RightOf(b, Others(b, k)) \in SUBSET D
       /\ RightOf(rollouts, Others(rollouts, l)) \in SUBSET O
       /\ \A n \in D : n \in RightOf(b, Others(b, k))
                          <=> order[n] \in RightOf(rollouts, Others(rollouts, l))
  BY <1>6, <1>12 DEF RightOf
<1>a. \A y \in O : \E n \in D : order[n] = y
  BY <1>5 DEF Bijection, Surjection
<1>15. /\ Cardinality(ToolUsers(b, k)) = Cardinality(ToolUsers(rollouts, l))
       /\ ToolUsers(b, k) = {} <=> ToolUsers(rollouts, l) = {}
  <2>1. Cardinality(ToolUsers(b, k)) = Cardinality(ToolUsers(rollouts, l))
    BY <1>4, <1>5, <1>11, SameSize
  <2>2. ToolUsers(b, k) = {} <=> ToolUsers(rollouts, l) = {}
    BY <1>5, <1>11, <1>a
  <2>. QED
    BY <2>1, <2>2
<1>16. /\ Cardinality(Others(b, k)) = Cardinality(Others(rollouts, l))
       /\ Others(b, k) = {} <=> Others(rollouts, l) = {}
  <2>1. Cardinality(Others(b, k)) = Cardinality(Others(rollouts, l))
    BY <1>4, <1>5, <1>12, SameSize
  <2>2. Others(b, k) = {} <=> Others(rollouts, l) = {}
    BY <1>5, <1>12, <1>a
  <2>. QED
    BY <2>1, <2>2
<1>17. Cardinality(RightOf(b, ToolUsers(b, k)))
          = Cardinality(RightOf(rollouts, ToolUsers(rollouts, l)))
  BY <1>4, <1>5, <1>13, SameSize
<1>18. Cardinality(RightOf(b, Others(b, k))) = Cardinality(RightOf(rollouts, Others(rollouts, l)))
  BY <1>4, <1>5, <1>14, SameSize
<1>19. Ahead(b, k) = Ahead(rollouts, l)
  BY <1>15, <1>16, <1>17, <1>18 DEF Ahead, Share
<1>20. k \in RightOf(b, ToolUsers(b, k)) <=> l \in RightOf(rollouts, ToolUsers(rollouts, l))
  BY <1>5, <1>13
<1>21. Needed(b, k) <=> Needed(rollouts, l)
  BY <1>16, <1>18, <1>20 DEF Needed
<1>22. Necessity(b, k) = Necessity(rollouts, l)
  BY <1>19, <1>21, NecessityParts
<1>23. b[k] = rollouts[l]
  BY <1>5, <1>6
<1>24. Paid(b, k) = Paid(rollouts, l)
  BY <1>22, <1>23 DEF Paid
<1>25. Reward(b, k) = Reward(rollouts, l)
  BY <1>23, <1>24, RewardParts
<1>. QED
  BY <1>25 DEF b

\* BonusIsEarned for every batch.
LEMMA BonusIsEarnedAny ==
    ASSUME IsBatch(rollouts)
    PROVE  BonusIsEarned
<1>1. BonusNeedsWitness
  BY WitnessNeeded DEF BonusNeedsWitness
<1>. QED
  BY <1>1, GroupedAny DEF BonusIsEarned

\* ToolsPayWhenNeeded for every batch.
LEMMA ToolsPayWhenNeededAny ==
    ASSUME IsBatch(rollouts), Alpha # 0
    PROVE  ToolsPayWhenNeeded
BY CorrectingPaysAny, SpuriousNeverPaysAny DEF ToolsPayWhenNeeded

\* The ids of one round: paths of one length.
IdsOf(n) == {a \in Seq(Nat) : Len(a) = n}

\* Two of them differ at a first place.
LEMMA IdsDiffer ==
    ASSUME NEW n \in Nat, NEW a \in IdsOf(n), NEW b \in IdsOf(n), a # b
    PROVE  IdLess(a, b) \/ IdLess(b, a)
<1>. DEFINE D == {i \in 1..n : a[i] # b[i]}
<1>1. a \in Seq(Nat) /\ b \in Seq(Nat) /\ Len(a) = n /\ Len(b) = n
  BY DEF IdsOf
<1>2. D # {} /\ D \subseteq Nat
  BY <1>1
<1>3. PICK i \in D : \A j \in D : i <= j
  BY <1>2, Least
<1>4. i \in 1..n /\ a[i] # b[i] /\ \A j \in 1..(i - 1) : a[j] = b[j]
  BY <1>3
<1>5. a[i] \in Nat /\ b[i] \in Nat
  BY <1>1, <1>4
<1>6. Lesser(Len(a), Len(b)) = n /\ Lesser(Len(b), Len(a)) = n
  BY <1>1 DEF Lesser
<1>7. a[i] < b[i] \/ b[i] < a[i]
  BY <1>4, <1>5
<1>. QED
  BY <1>4, <1>6, <1>7 DEF IdLess

\* Their order is transitive, and none is less than itself.
LEMMA IdsOrdered ==
    ASSUME NEW n \in Nat, NEW a \in IdsOf(n), NEW b \in IdsOf(n), NEW c \in IdsOf(n)
    PROVE  /\ IdLess(a, b) /\ IdLess(b, c) => IdLess(a, c)
           /\ ~IdLess(a, a)
<1>1. /\ a \in Seq(Nat) /\ b \in Seq(Nat) /\ c \in Seq(Nat)
      /\ Len(a) = n /\ Len(b) = n /\ Len(c) = n
  BY DEF IdsOf
<1>2. Lesser(n, n) = n
  BY DEF Lesser
<1>3. \A k \in 1..n : a[k] \in Nat /\ b[k] \in Nat /\ c[k] \in Nat
  BY <1>1
<1>4. ~IdLess(a, a)
  BY <1>1, <1>2, <1>3 DEF IdLess
<1>5. ASSUME IdLess(a, b), IdLess(b, c) PROVE IdLess(a, c)
  <2>1. PICK i \in 1..n : a[i] < b[i] /\ \A k \in 1..(i - 1) : a[k] = b[k]
    BY <1>1, <1>2, <1>5 DEF IdLess
  <2>2. PICK j \in 1..n : b[j] < c[j] /\ \A k \in 1..(j - 1) : b[k] = c[k]
    BY <1>1, <1>2, <1>5 DEF IdLess
  <2>3. CASE i <= j
    <3>1. a[i] < c[i]
      BY <1>3, <2>1, <2>2, <2>3
    <3>2. \A k \in 1..(i - 1) : a[k] = c[k]
      BY <2>1, <2>2, <2>3
    <3>. QED
      BY <1>1, <1>2, <3>1, <3>2 DEF IdLess
  <2>4. CASE j < i
    <3>1. a[j] < c[j]
      BY <1>3, <2>1, <2>2, <2>4
    <3>2. \A k \in 1..(j - 1) : a[k] = c[k]
      BY <2>1, <2>2, <2>4
    <3>. QED
      BY <1>1, <1>2, <3>1, <3>2 DEF IdLess
  <2>. QED
    BY <2>3, <2>4
<1>. QED
  BY <1>4, <1>5

\* The candidates of one round, no two of them the same suggestion's.
AreCandidates(T, n) ==
    /\ \A x \in T : x.id \in IdsOf(n) /\ x.score \in Int /\ x.order \in Nat
    /\ \A x, y \in T : x.id = y.id /\ x.order = y.order => x = y

\* The sort key orders them strictly and totally.
StrictlyRanked(T) ==
    /\ \A x \in T : ~Before(x, x)
    /\ \A x, y, z \in T : Before(x, y) /\ Before(y, z) => Before(x, z)
    /\ \A x, y \in T : x # y => Before(x, y) \/ Before(y, x)

\* The ids have one length, so the key tells candidates apart.
LEMMA CandidatesRanked ==
    ASSUME NEW n \in Nat, NEW T, AreCandidates(T, n)
    PROVE  StrictlyRanked(T)
<1>1. \A x \in T : x.id \in IdsOf(n) /\ x.score \in Int /\ x.order \in Nat
  BY DEF AreCandidates
<1>2. ASSUME NEW x \in T PROVE ~Before(x, x)
  <2>1. ~IdLess(x.id, x.id)
    BY <1>1, IdsOrdered
  <2>. QED
    BY <1>1, <2>1 DEF Before
<1>3. ASSUME NEW x \in T, NEW y \in T, NEW z \in T, Before(x, y), Before(y, z)
      PROVE  Before(x, z)
  <2>1. IdLess(x.id, y.id) /\ IdLess(y.id, z.id) => IdLess(x.id, z.id)
    BY <1>1, IdsOrdered
  <2>. QED
    BY <1>1, <1>3, <2>1 DEF Before
<1>4. ASSUME NEW x \in T, NEW y \in T, x # y PROVE Before(x, y) \/ Before(y, x)
  <2>1. x.id # y.id => IdLess(x.id, y.id) \/ IdLess(y.id, x.id)
    BY <1>1, IdsDiffer
  <2>2. x.id # y.id \/ x.order # y.order
    BY <1>4 DEF AreCandidates
  <2>. QED
    BY <1>1, <2>1, <2>2 DEF Before
<1>. QED
  BY <1>2, <1>3, <1>4 DEF StrictlyRanked
-----------------------------------------------------------------------------
\* t lists T in the order of the sort key.
IsRanking(t, T) ==
    /\ t \in Seq(T) /\ ToSet(t) = T /\ Distinct(t)
    /\ \A i, j \in 1..Len(t) : i < j => Before(t[i], t[j])

\* Sorting lists without repetition gives such a list.
LEMMA SortedRanking ==
    ASSUME NEW S, NEW list \in Seq(S), Distinct(list), StrictlyRanked(ToSet(list))
    PROVE  IsRanking(Sorted(list), ToSet(list))
<1>. DEFINE T == ToSet(list)
            less == {xy \in T \X T : Before(xy[1], xy[2])}
            t == SortedBy(list, less)
<1>1. list \in Seq(T)
  BY ElementsType
<1>2. Sorted(list) = t
  BY DEF Sorted, Sort
<1>. HIDE DEF T
<1>3. \A x, y \in T : <<x, y>> \in less <=> Before(x, y)
  OBVIOUS
<1>4. WeakOrder(less, T)
  <2>1. ASSUME NEW x \in T, NEW y \in T, Before(x, y) PROVE ~Before(y, x)
    BY <2>1 DEF StrictlyRanked, T
  <2>2. ASSUME NEW x \in T, NEW y \in T, NEW z \in T, Before(x, z)
        PROVE  Before(x, y) \/ Before(y, z)
    <3>1. CASE x = y
      BY <2>2, <3>1
    <3>2. CASE x # y
      BY <2>2, <3>2 DEF StrictlyRanked, T
    <3>. QED
      BY <3>1, <3>2
  <2>. HIDE DEF less
  <2>. QED
    BY <1>3, <2>1, <2>2 DEF WeakOrder
<1>. HIDE DEF less
<1>5. t \in Seq(T) /\ Rearranged(list, t) /\ Ascends(t, less)
  BY <1>1, <1>4, SortedType, SortedRearranges, SortedAscends
<1>. HIDE DEF t
<1>6. Distinct(t) /\ ToSet(t) = T
  BY <1>5, RearrangedDistinct DEF Rearranged, T
<1>7. ASSUME NEW i \in 1..Len(t), NEW j \in 1..Len(t), i < j PROVE Before(t[i], t[j])
  <2>1. t[i] \in T /\ t[j] \in T
    BY <1>5, ElementOfSeq
  <2>2. t[i] # t[j]
    <3>1. i # j
      BY <1>7
    <3>. QED
      BY <1>6, <3>1 DEF Distinct
  <2>3. ~Before(t[j], t[i])
    BY <1>3, <1>5, <1>7, <2>1 DEF Ascends
  <2>. QED
    BY <2>1, <2>2, <2>3 DEF StrictlyRanked, T
<1>. QED
  BY <1>2, <1>5, <1>6, <1>7 DEF IsRanking, T

\* The first n of a ranking are the n best.
LEMMA SliceIsBest ==
    ASSUME NEW T, StrictlyRanked(T), NEW t, IsRanking(t, T), NEW n \in Nat
    PROVE  /\ ToSet(Slice(t, n)) = Best(T, n)
           /\ Slice(t, n) \in Seq(T) /\ Distinct(Slice(t, n))
           /\ Len(Slice(t, n)) = Lesser(n, Len(t))
           /\ \A i \in 1..Lesser(n, Len(t)) : Slice(t, n)[i] = t[i]
<1>. DEFINE L == Len(t)
            k == Lesser(n, L)
            u == Slice(t, n)
<1>1. /\ t \in Seq(T) /\ ToSet(t) = T /\ Distinct(t) /\ L \in Nat /\ DOMAIN t = 1..L
      /\ \A i, j \in 1..L : i < j => Before(t[i], t[j])
      /\ \A i \in 1..L : t[i] \in T
  BY LenProperties, ElementOfSeq DEF IsRanking
<1>3. u = SubSeq(t, 1, k)
  BY DEF Slice
<1>. HIDE DEF L, u
<1>2. k \in Nat /\ k <= L /\ k <= n /\ (k < n => k = L)
  BY <1>1 DEF Lesser
<1>. HIDE DEF k
<1>4. u \in Seq(T) /\ IsPiece(u, t, 0, k)
  <2>1. 0 \in Nat /\ 0 + k <= Len(t)
    BY <1>2 DEF L
  <2>2. SubSeq(t, 0 + 1, 0 + k) \in Seq(T) /\ IsPiece(SubSeq(t, 0 + 1, 0 + k), t, 0, k)
    BY <1>1, <1>2, <2>1, PieceOf
  <2>3. 0 + 1 = 1 /\ 0 + k = k
    BY <1>2
  <2>. QED
    BY <1>3, <2>2, <2>3
<1>5. Len(u) = k /\ Distinct(u) /\ ToSet(u) = {t[j] : j \in 1..k}
  <2>1. (0 + 1)..(0 + k) = 1..k
    BY <1>2
  <2>. QED
    BY <1>4, <2>1 DEF IsPiece
<1>6. \A i \in 1..k : u[i] = t[i]
  <2>1. SubSeq(t, 1, k) = [i \in 1..k |-> t[i]]
    BY <1>1, <1>2
  <2>. QED
    BY <1>3, <2>1
<1>7. ASSUME NEW i \in 1..L
      PROVE  Cardinality({y \in T : Before(y, t[i])}) = i - 1
  <2>. DEFINE v == SubSeq(t, 1, i - 1)
  <2>1. i - 1 \in Nat /\ 0 + (i - 1) <= Len(t) /\ 0 + (i - 1) = i - 1 /\ 0 \in Nat
        /\ (0 + 1)..(0 + (i - 1)) = 1..(i - 1)
    BY <1>1 DEF L
  <2>2. v \in Seq(T) /\ IsPiece(v, t, 0, i - 1)
    <3>. DEFINE h == i - 1
    <3>1. h \in Nat /\ 0 + h <= Len(t)
      BY <2>1
    <3>. HIDE DEF h
    <3>2. SubSeq(t, 0 + 1, 0 + h) \in Seq(T) /\ IsPiece(SubSeq(t, 0 + 1, 0 + h), t, 0, h)
      BY <1>1, <3>1, PieceOf
    <3>3. 0 + h = h /\ 0 + 1 = 1
      BY <3>1
    <3>. QED
      BY <3>2, <3>3 DEF h
  <2>3. Len(v) = i - 1 /\ Distinct(v) /\ ToSet(v) = {t[j] : j \in 1..(i - 1)}
    BY <2>1, <2>2 DEF IsPiece
  <2>. HIDE DEF v
  <2>4. {y \in T : Before(y, t[i])} = {t[j] : j \in 1..(i - 1)}
    <3>1. ASSUME NEW j \in 1..(i - 1) PROVE t[j] \in T /\ Before(t[j], t[i])
      <4>1. j \in 1..L /\ j < i
        BY <1>1
      <4>. QED
        BY <1>1, <4>1
    <3>2. ASSUME NEW y \in T, Before(y, t[i]) PROVE \E j \in 1..(i - 1) : y = t[j]
      <4>1. PICK j \in 1..L : y = t[j]
        BY <1>1 DEF ToSet
      <4>2. j < i
        <5>1. SUFFICES ASSUME ~(j < i) PROVE FALSE
          OBVIOUS
        <5>2. j = i \/ i < j
          BY <1>1, <5>1
        <5>3. y = t[i] \/ Before(t[i], y)
          BY <1>1, <4>1, <5>2
        <5>. QED
          BY <1>1, <3>2, <5>3 DEF StrictlyRanked
      <4>3. j \in 1..(i - 1)
        BY <1>1, <4>2
      <4>. QED
        BY <4>1, <4>3
    <3>. QED
      BY <3>1, <3>2
  <2>5. Cardinality(ToSet(v)) = Len(v)
    BY <2>2, <2>3, DistinctSize
  <2>. QED
    BY <2>3, <2>4, <2>5
<1>8. Best(T, n) = {t[j] : j \in 1..k}
  <2>1. ASSUME NEW j \in 1..k PROVE t[j] \in Best(T, n)
    <3>1. j \in 1..L /\ j - 1 < n
      BY <1>1, <1>2
    <3>2. t[j] \in T /\ Cardinality({y \in T : Before(y, t[j])}) < n
      BY <1>1, <1>7, <3>1
    <3>. QED
      BY <3>2 DEF Best
  <2>2. ASSUME NEW x \in Best(T, n) PROVE \E j \in 1..k : x = t[j]
    <3>1. x \in T /\ Cardinality({y \in T : Before(y, x)}) < n
      BY DEF Best
    <3>2. PICK j \in 1..L : x = t[j]
      BY <1>1, <3>1 DEF ToSet
    <3>3. j - 1 < n
      BY <1>7, <3>1, <3>2
    <3>4. j \in 1..k
      BY <1>1, <1>2, <3>3
    <3>. QED
      BY <3>2, <3>4
  <2>. QED
    BY <2>1, <2>2
<1>. QED
  BY <1>4, <1>5, <1>6, <1>8 DEF u, k, L

\* What was planned in one round: different paths of n places.
IsRound(cs, n) ==
    /\ cs \in Seq({cs[i] : i \in 1..Len(cs)})
    /\ \A i \in 1..Len(cs) :
          cs[i].id \in IdsOf(n) /\ cs[i].score \in Int /\ Len(cs[i].sugg) \in Nat
    /\ \A i, j \in 1..Len(cs) : cs[i].id = cs[j].id => i = j

\* The k-th suggestion of c as a candidate.
Cand(c, k) == [id |-> c.id, order |-> k, score |-> c.score, suggestion |-> c.sugg[k]]
\* How many of its suggestions can be selected.
Usable(c) == Lesser(Len(c.sugg), EffectiveSuggestionCount)

\* The fields of a candidate the key is made of.
LEMMA CandFields ==
    ASSUME NEW c, NEW k
    PROVE  Cand(c, k).id = c.id /\ Cand(c, k).order = k /\ Cand(c, k).score = c.score
BY DEF Cand

\* It is a number, and these are the orders.
LEMMA UsableNumber ==
    ASSUME NEW c, Len(c.sugg) \in Nat
    PROVE  Usable(c) \in Nat /\ UsableOrders(c) = 1..Usable(c)
<1>1. EffectiveSuggestionCount \in Nat
  BY SelectionAssumption DEF EffectiveSuggestionCount, Lesser, MAX_PLANNER_SUGGESTIONS
<1>. QED
  BY <1>1 DEF Usable, UsableOrders, Lesser

\* Of the candidates of c, those with an order from lo to hi.
Orders(c, lo, hi) == {Cand(c, k) : k \in lo..hi}

\* A piece of a context's list of candidates.
LEMMA CandidatePart ==
    ASSUME NEW c, Len(c.sugg) \in Nat, NEW lo \in Nat, NEW k \in Nat, lo + k <= Usable(c)
    PROVE  /\ SubSeq(CandidateList(c), lo + 1, lo + k) \in Seq(Orders(c, 1, Usable(c)))
           /\ Distinct(SubSeq(CandidateList(c), lo + 1, lo + k))
           /\ ToSet(SubSeq(CandidateList(c), lo + 1, lo + k)) = Orders(c, lo + 1, lo + k)
<1>. DEFINE n == Usable(c)
            s == CandidateList(c)
            S == Orders(c, 1, n)
            t == SubSeq(s, lo + 1, lo + k)
<1>1. n \in Nat /\ UsableOrders(c) = 1..n
  BY UsableNumber
<1>2. s = [j \in 1..n |-> Cand(c, j)]
  BY <1>1 DEF CandidateList, Cand
<1>. HIDE DEF s, n
<1>3. \A j \in 1..n : s[j] = Cand(c, j) /\ Cand(c, j) \in S
  BY <1>2 DEF Orders
<1>. HIDE DEF S
<1>4. s = [j \in 1..n |-> s[j]] /\ \A j \in 1..n : s[j] \in S
  BY <1>2, <1>3
<1>5. s \in Seq(S) /\ Len(s) = n
  BY <1>1, <1>4, SequenceOf
<1>6. Distinct(s)
  BY <1>3, <1>5, CandFields DEF Distinct
<1>7. lo + k <= Len(s)
  BY <1>5 DEF n
<1>8. t \in Seq(S) /\ IsPiece(t, s, lo, k)
  BY <1>5, <1>6, <1>7, PieceOf
<1>9. {s[j] : j \in (lo + 1)..(lo + k)} = {Cand(c, j) : j \in (lo + 1)..(lo + k)}
  <2>1. lo + k <= n
    BY DEF n
  <2>2. \A j \in (lo + 1)..(lo + k) : j \in 1..n
    BY <1>1, <2>1
  <2>3. \A j \in (lo + 1)..(lo + k) : s[j] = Cand(c, j)
    BY <1>3, <2>2
  <2>. QED
    BY <2>3
<1>10. Distinct(t) /\ ToSet(t) = Orders(c, lo + 1, lo + k)
  BY <1>8, <1>9 DEF IsPiece, Orders
<1>. QED
  BY <1>8, <1>10 DEF S, t, s, n

\* The two lists: the parts of all contexts from lo to hi(c), one after the other.
IsPart(t, c, lo, hi, S) ==
    t \in Seq(S) /\ Distinct(t) /\ ToSet(t) = Orders(c, lo, hi)

\* A context's part of the first list: its first candidate, if it has one.
LEMMA FirstPart ==
    ASSUME NEW c, Len(c.sugg) \in Nat
    PROVE  IsPart(SubSeq(CandidateList(c), 1, Lesser(1, Len(CandidateList(c)))),
                  c, 1, Lesser(1, Usable(c)), Orders(c, 1, Usable(c)))
<1>. DEFINE n == Usable(c)
            s == CandidateList(c)
            k == Lesser(1, n)
<1>1. n \in Nat /\ UsableOrders(c) = 1..n
  BY UsableNumber
<1>. HIDE DEF n
<1>2. Len(s) = n
  BY <1>1 DEF CandidateList
<1>3. k \in Nat /\ 0 \in Nat /\ 0 + k <= n /\ 0 + 1 = 1 /\ 0 + k = k
  BY <1>1 DEF Lesser
<1>. HIDE DEF k, s
<1>4. 0 + k <= Usable(c)
  BY <1>3 DEF n
<1>5. /\ SubSeq(s, 0 + 1, 0 + k) \in Seq(Orders(c, 1, n))
      /\ Distinct(SubSeq(s, 0 + 1, 0 + k))
      /\ ToSet(SubSeq(s, 0 + 1, 0 + k)) = Orders(c, 0 + 1, 0 + k)
  BY <1>3, <1>4, CandidatePart DEF s, n
<1>. QED
  BY <1>2, <1>3, <1>5 DEF IsPart, s, k, n

\* A context's part of the other list: all but the first.
LEMMA OtherPart ==
    ASSUME NEW c, Len(c.sugg) \in Nat
    PROVE  IsPart(SubSeq(CandidateList(c), 2, Len(CandidateList(c))),
                  c, 2, Usable(c), Orders(c, 1, Usable(c)))
<1>. DEFINE n == Usable(c)
            s == CandidateList(c)
<1>1. n \in Nat /\ UsableOrders(c) = 1..n
  BY UsableNumber
<1>. HIDE DEF n
<1>2. Len(s) = n
  BY <1>1 DEF CandidateList
<1>. HIDE DEF s
<1>3. CASE n = 0
  <2>1. SubSeq(s, 2, n) = <<>>
    BY <1>3, SubSeqEmpty
  <2>2. Orders(c, 2, n) = {}
    BY <1>3 DEF Orders
  <2>3. <<>> \in Seq(Orders(c, 1, n)) /\ Distinct(<<>>)
    BY DEF Distinct
  <2>. QED
    BY <1>2, <2>1, <2>2, <2>3, ElementsEmpty DEF IsPart, s, n
<1>4. CASE n # 0
  <2>. DEFINE k == n - 1
  <2>1. k \in Nat /\ 1 \in Nat /\ 1 + k <= n /\ 1 + k = n
    BY <1>1, <1>4
  <2>. HIDE DEF k
  <2>2. 1 + k <= Usable(c)
    BY <2>1 DEF n
  <2>3. /\ SubSeq(s, 1 + 1, 1 + k) \in Seq(Orders(c, 1, n))
        /\ Distinct(SubSeq(s, 1 + 1, 1 + k))
        /\ ToSet(SubSeq(s, 1 + 1, 1 + k)) = Orders(c, 1 + 1, 1 + k)
    BY <2>1, <2>2, CandidatePart DEF s, n
  <2>4. 1 + 1 = 2
    OBVIOUS
  <2>. QED
    BY <1>2, <2>1, <2>3, <2>4 DEF IsPart, s, n
<1>. QED
  BY <1>3, <1>4
-----------------------------------------------------------------------------
\* Joined over the contexts of a round, parts of their candidates are the candidates
\* of these parts, each once.
ArePart(s, cs, C, lo, hi) ==
    /\ DOMAIN s = 1..Len(cs) /\ Len(s) = Len(cs)
    /\ \A i \in 1..Len(cs) : IsPart(s[i], cs[i], lo, hi[i], C)
\* The elements of t are those of the parts.
HoldsParts(t, cs, lo, hi) ==
    \A x : x \in ToSet(t) <=> \E i \in 1..Len(cs) : x \in Orders(cs[i], lo, hi[i])

\* The joined parts repeat nothing, as no two contexts have one id.
LEMMA PartsJoined ==
    ASSUME NEW n \in Nat, NEW cs, IsRound(cs, n), NEW C, NEW s \in Seq(Seq(C)),
           NEW lo, NEW hi, ArePart(s, cs, C, lo, hi)
    PROVE  /\ FlattenSeq(s) \in Seq(C) /\ Distinct(FlattenSeq(s))
           /\ HoldsParts(FlattenSeq(s), cs, lo, hi)
<1>. DEFINE N == Len(cs)
<1>1. N \in Nat /\ DOMAIN s = 1..N /\ Len(s) = N
  BY LenProperties DEF IsRound, ArePart
<1>2. \A i \in 1..N : s[i] \in Seq(C) /\ Distinct(s[i]) /\ ToSet(s[i]) = Orders(cs[i], lo, hi[i])
  BY DEF ArePart, IsPart
<1>. HIDE DEF N
<1>3. ASSUME NEW i \in 1..N, NEW j \in 1..N, i # j
      PROVE  ToSet(s[i]) \cap ToSet(s[j]) = {}
  <2>1. SUFFICES ASSUME NEW x, x \in Orders(cs[i], lo, hi[i]), x \in Orders(cs[j], lo, hi[j])
                 PROVE  FALSE
    BY <1>2
  <2>. DEFINE c == cs[i]
              d == cs[j]
  <2>2. PICK k : x = Cand(c, k)
    BY <2>1 DEF Orders
  <2>3. PICK l : x = Cand(d, l)
    BY <2>1 DEF Orders
  <2>. HIDE DEF c, d
  <2>4. Cand(c, k).id = c.id /\ Cand(d, l).id = d.id
    BY CandFields
  <2>5. x.id = c.id /\ x.id = d.id
    BY <2>2, <2>3, <2>4
  <2>. QED
    BY <1>3, <2>5 DEF IsRound, c, d, N
<1>4. Apart(s)
  BY <1>1, <1>2, <1>3 DEF Apart, Distinct
<1>5. FlattenSeq(s) \in Seq(C) /\ Distinct(FlattenSeq(s))
  BY <1>4, FlatType, FlatDistinct
<1>6. ToSet(FlattenSeq(s)) = UNION {ToSet(t) : t \in ToSet(s)}
  BY FlatElements
<1>7. ToSet(s) = {s[i] : i \in 1..N}
  BY <1>1 DEF ToSet
<1>8. ASSUME NEW x
      PROVE  x \in ToSet(FlattenSeq(s)) <=> \E i \in 1..N : x \in ToSet(s[i])
  BY <1>6, <1>7
<1>. QED
  BY <1>2, <1>5, <1>8 DEF N, HoldsParts

\* The candidates of a round.
LEMMA CandidatesAre ==
    ASSUME NEW n \in Nat, NEW cs, IsRound(cs, n)
    PROVE  /\ AreCandidates(Candidates(cs), n)
           /\ \A x : x \in Candidates(cs) <=>
                 \E i \in 1..Len(cs) : \E k \in 1..Usable(cs[i]) : x = Cand(cs[i], k)
<1>1. DOMAIN cs = 1..Len(cs)
  BY LenProperties DEF IsRound
<1>2. \A i \in 1..Len(cs) : UsableOrders(cs[i]) = 1..Usable(cs[i]) /\ Usable(cs[i]) \in Nat
  BY UsableNumber DEF IsRound
<1>3. ASSUME NEW x
      PROVE  x \in Candidates(cs) <=>
                 \E i \in 1..Len(cs) : \E k \in 1..Usable(cs[i]) : x = Cand(cs[i], k)
  BY <1>1, <1>2 DEF Candidates, Cand
<1>4. ASSUME NEW x \in Candidates(cs)
      PROVE  \E i \in 1..Len(cs) : \E k \in 1..Usable(cs[i]) :
                x = Cand(cs[i], k) /\ x.id = cs[i].id /\ x.order = k /\ x.score = cs[i].score
  <2>1. PICK i \in 1..Len(cs) : \E k \in 1..Usable(cs[i]) : x = Cand(cs[i], k)
    BY <1>3
  <2>2. PICK k \in 1..Usable(cs[i]) : x = Cand(cs[i], k)
    BY <2>1
  <2>. QED
    BY <2>2, CandFields
<1>5. ASSUME NEW x \in Candidates(cs)
      PROVE  x.id \in IdsOf(n) /\ x.score \in Int /\ x.order \in Nat
  <2>1. PICK i \in 1..Len(cs) : \E k \in 1..Usable(cs[i]) :
                x = Cand(cs[i], k) /\ x.id = cs[i].id /\ x.order = k /\ x.score = cs[i].score
    BY <1>4
  <2>2. x.order \in Nat
    BY <1>2, <2>1
  <2>. QED
    BY <2>1, <2>2 DEF IsRound
<1>6. ASSUME NEW x \in Candidates(cs), NEW y \in Candidates(cs), x.id = y.id, x.order = y.order
      PROVE  x = y
  <2>1. PICK i \in 1..Len(cs) : \E k \in 1..Usable(cs[i]) :
                x = Cand(cs[i], k) /\ x.id = cs[i].id /\ x.order = k
    BY <1>4
  <2>2. PICK j \in 1..Len(cs) : \E k \in 1..Usable(cs[j]) :
                y = Cand(cs[j], k) /\ y.id = cs[j].id /\ y.order = k
    BY <1>4
  <2>3. i = j
    BY <1>6, <2>1, <2>2 DEF IsRound
  <2>. QED
    BY <1>6, <2>1, <2>2, <2>3
<1>. QED
  BY <1>3, <1>5, <1>6 DEF AreCandidates

\* The first list holds the first candidates of a round, the other one the others.
LEMMA ListsHold ==
    ASSUME NEW n \in Nat, NEW cs, IsRound(cs, n)
    PROVE  LET C == Candidates(cs) IN
           /\ FirstCandidates(cs) \in Seq(C) /\ Distinct(FirstCandidates(cs))
           /\ ToSet(FirstCandidates(cs)) = Top1(cs)
           /\ OtherCandidates(cs) \in Seq(C) /\ Distinct(OtherCandidates(cs))
           /\ ToSet(OtherCandidates(cs)) = Remaining(cs)
<1>. DEFINE C == Candidates(cs)
            N == Len(cs)
            first == [i \in DOMAIN cs |->
                        SubSeq(CandidateList(cs[i]), 1, Lesser(1, Len(CandidateList(cs[i]))))]
            other == [i \in DOMAIN cs |-> SubSeq(CandidateList(cs[i]), 2, Len(CandidateList(cs[i])))]
            hi1 == [i \in 1..N |-> Lesser(1, Usable(cs[i]))]
            hi2 == [i \in 1..N |-> Usable(cs[i])]
<1>1. N \in Nat /\ DOMAIN cs = 1..N /\ \A i \in 1..N : Len(cs[i].sugg) \in Nat
  BY LenProperties DEF IsRound
<1>2. \A x : x \in C <=> \E i \in 1..N : \E k \in 1..Usable(cs[i]) : x = Cand(cs[i], k)
  BY CandidatesAre
<1>3. \A i \in 1..N : Usable(cs[i]) \in Nat
  BY <1>1, UsableNumber
<1>. HIDE DEF C, N
<1>4. \A i \in 1..N : Orders(cs[i], 1, Usable(cs[i])) \subseteq C
  BY <1>2 DEF Orders
<1>5. ASSUME NEW i \in 1..N
      PROVE  IsPart(first[i], cs[i], 1, hi1[i], C) /\ IsPart(other[i], cs[i], 2, hi2[i], C)
  <2>. DEFINE c == cs[i]
              u == Usable(c)
              S == Orders(c, 1, u)
              a == first[i]
              b == other[i]
  <2>1. /\ a = SubSeq(CandidateList(c), 1, Lesser(1, Len(CandidateList(c))))
        /\ b = SubSeq(CandidateList(c), 2, Len(CandidateList(c)))
        /\ hi1[i] = Lesser(1, u) /\ hi2[i] = u
    BY <1>1
  <2>2. S \subseteq C /\ Len(c.sugg) \in Nat
    BY <1>1, <1>4
  <2>. HIDE DEF a, b, c, first, other, hi1, hi2
  <2>3. IsPart(a, c, 1, Lesser(1, u), S)
    BY <2>1, <2>2, FirstPart
  <2>4. IsPart(b, c, 2, u, S)
    BY <2>1, <2>2, OtherPart
  <2>. HIDE DEF S, u
  <2>5. \A t \in Seq(S) : t \in Seq(C)
    BY <2>2
  <2>. QED
    BY <2>1, <2>3, <2>4, <2>5 DEF IsPart, a, b, c
<1>6. /\ first = [i \in 1..N |-> first[i]] /\ \A i \in 1..N : first[i] \in Seq(C)
      /\ other = [i \in 1..N |-> other[i]] /\ \A i \in 1..N : other[i] \in Seq(C)
  BY <1>1, <1>5 DEF IsPart
<1>. HIDE DEF first, other, hi1, hi2
<1>7. first \in Seq(Seq(C)) /\ Len(first) = N /\ DOMAIN first = 1..N
  BY <1>1, <1>6, SequenceOf
<1>8. other \in Seq(Seq(C)) /\ Len(other) = N /\ DOMAIN other = 1..N
  BY <1>1, <1>6, SequenceOf
<1>9. ArePart(first, cs, C, 1, hi1) /\ ArePart(other, cs, C, 2, hi2)
  BY <1>5, <1>7, <1>8 DEF ArePart, N
<1>10. /\ FlattenSeq(first) \in Seq(C) /\ Distinct(FlattenSeq(first))
       /\ HoldsParts(FlattenSeq(first), cs, 1, hi1)
  BY <1>7, <1>9, PartsJoined
<1>11. /\ FlattenSeq(other) \in Seq(C) /\ Distinct(FlattenSeq(other))
       /\ HoldsParts(FlattenSeq(other), cs, 2, hi2)
  BY <1>8, <1>9, PartsJoined
<1>12. ASSUME NEW i \in 1..N, NEW x
       PROVE  /\ x \in Orders(cs[i], 1, hi1[i]) <=>
                    \E k \in 1..Usable(cs[i]) : x = Cand(cs[i], k) /\ x.order = 1
              /\ x \in Orders(cs[i], 2, hi2[i]) <=>
                    \E k \in 1..Usable(cs[i]) : x = Cand(cs[i], k) /\ x.order # 1
  <2>. DEFINE c == cs[i]
              u == Usable(c)
  <2>1. u \in Nat /\ hi1[i] = Lesser(1, u) /\ hi2[i] = u
    BY <1>3 DEF hi1, hi2
  <2>. HIDE DEF c, u
  <2>2. \A k \in 1..u : Cand(c, k).order = k
    BY CandFields
  <2>3. x \in Orders(c, 1, Lesser(1, u)) <=> \E k \in 1..u : x = Cand(c, k) /\ x.order = 1
    <3>1. 1..Lesser(1, u) = {k \in 1..u : k = 1}
      BY <2>1 DEF Lesser
    <3>. QED
      BY <2>2, <3>1 DEF Orders
  <2>4. x \in Orders(c, 2, u) <=> \E k \in 1..u : x = Cand(c, k) /\ x.order # 1
    <3>1. 2..u = {k \in 1..u : k # 1}
      BY <2>1
    <3>. QED
      BY <2>2, <3>1 DEF Orders
  <2>. QED
    BY <2>1, <2>3, <2>4 DEF c, u
<1>13. ASSUME NEW x
       PROVE  /\ x \in ToSet(FlattenSeq(first)) <=> x \in C /\ x.order = 1
              /\ x \in ToSet(FlattenSeq(other)) <=> x \in C /\ x.order # 1
  <2>1. x \in ToSet(FlattenSeq(first)) <=> \E i \in 1..N : x \in Orders(cs[i], 1, hi1[i])
    BY <1>10 DEF HoldsParts, N
  <2>2. x \in ToSet(FlattenSeq(other)) <=> \E i \in 1..N : x \in Orders(cs[i], 2, hi2[i])
    BY <1>11 DEF HoldsParts, N
  <2>3. x \in C <=> \E i \in 1..N : \E k \in 1..Usable(cs[i]) : x = Cand(cs[i], k)
    BY <1>2
  <2>4. x \in ToSet(FlattenSeq(first)) <=>
            \E i \in 1..N : \E k \in 1..Usable(cs[i]) : x = Cand(cs[i], k) /\ x.order = 1
    BY <1>12, <2>1
  <2>5. x \in ToSet(FlattenSeq(other)) <=>
            \E i \in 1..N : \E k \in 1..Usable(cs[i]) : x = Cand(cs[i], k) /\ x.order # 1
    BY <1>12, <2>2
  <2>. QED
    BY <2>3, <2>4, <2>5
<1>14. ToSet(FlattenSeq(first)) = Top1(cs) /\ ToSet(FlattenSeq(other)) = Remaining(cs)
  BY <1>13 DEF Top1, Remaining, C
<1>15. FirstCandidates(cs) = FlattenSeq(first) /\ OtherCandidates(cs) = FlattenSeq(other)
  BY DEF FirstCandidates, OtherCandidates, first, other
<1>. QED
  BY <1>10, <1>11, <1>14, <1>15 DEF C

\* Both lists are sorted as the sets of FrontierSelection are ranked.
LEMMA ListsRanked ==
    ASSUME NEW n \in Nat, NEW cs, IsRound(cs, n)
    PROVE  /\ IsRanking(Top1List(cs), Top1(cs)) /\ StrictlyRanked(Top1(cs))
           /\ IsRanking(RemainingList(cs), Remaining(cs)) /\ StrictlyRanked(Remaining(cs))
<1>. DEFINE C == Candidates(cs)
            a == FirstCandidates(cs)
            b == OtherCandidates(cs)
<1>1. /\ a \in Seq(C) /\ Distinct(a) /\ ToSet(a) = Top1(cs)
      /\ b \in Seq(C) /\ Distinct(b) /\ ToSet(b) = Remaining(cs)
  BY ListsHold
<1>2. StrictlyRanked(C)
  BY CandidatesAre, CandidatesRanked
<1>3. StrictlyRanked(Top1(cs)) /\ StrictlyRanked(Remaining(cs))
  BY <1>2 DEF StrictlyRanked, Top1, Remaining
<1>. HIDE DEF C, a, b
<1>4. IsRanking(Sorted(a), ToSet(a)) /\ IsRanking(Sorted(b), ToSet(b))
  BY <1>1, <1>3, SortedRanking
<1>. QED
  BY <1>1, <1>3, <1>4 DEF Top1List, RemainingList, a, b

\* There are as many first candidates as the first list is long.
LEMMA RankingSize ==
    ASSUME NEW t, NEW T, IsRanking(t, T)
    PROVE  Len(t) \in Nat /\ Cardinality(T) = Len(t)
<1>1. t \in Seq(T) /\ ToSet(t) = T /\ Distinct(t)
  BY DEF IsRanking
<1>. QED
  BY <1>1, DistinctSize, LenProperties

\* The suggestion before one that has one, of the same trajectory, and how it ranks.
LEMMA EarlierSuggestion ==
    ASSUME NEW n \in Nat, NEW cs, IsRound(cs, n), NEW x \in Candidates(cs), x.order > 1
    PROVE  \E y \in Candidates(cs) : y.id = x.id /\ y.order = x.order - 1 /\ Before(y, x)
<1>1. PICK i \in 1..Len(cs) : \E k \in 1..Usable(cs[i]) : x = Cand(cs[i], k)
  BY CandidatesAre
<1>. DEFINE c == cs[i]
            u == Usable(c)
<1>2. Len(c.sugg) \in Nat /\ c.score \in Int
  BY DEF IsRound
<1>3. u \in Nat
  BY <1>2, UsableNumber
<1>4. PICK k \in 1..u : x = Cand(c, k)
  BY <1>1
<1>. DEFINE h == k - 1
            y == Cand(c, h)
<1>. HIDE DEF u
<1>5. Cand(c, k).id = c.id /\ Cand(c, k).order = k /\ Cand(c, k).score = c.score
  BY CandFields
<1>6. h \in 1..u /\ h < k
  BY <1>3, <1>4, <1>5
<1>7. y \in Candidates(cs)
  BY <1>6, CandidatesAre DEF u
<1>. HIDE DEF h
<1>8. y.id = c.id /\ y.order = h /\ y.score = c.score
  BY CandFields
<1>. HIDE DEF y, c
<1>9. y.id = x.id /\ y.order = x.order - 1
  BY <1>4, <1>5, <1>8 DEF h
<1>10. Before(y, x)
  BY <1>2, <1>4, <1>5, <1>6, <1>8 DEF Before
<1>. QED
  BY <1>7, <1>9, <1>10

\* The list for a round: whom the ranking selects, each once, and a suggestion behind
\* the one before it.
InPlannersOrder(list) ==
    \A i \in DOMAIN list : list[i].order > 1 =>
        \E j \in 1..(i - 1) : list[j].id = list[i].id /\ list[j].order = list[i].order - 1

\* The selected list, for every round of paths of one length.
LEMMA ListOfRound ==
    ASSUME NEW n \in Nat, NEW cs, IsRound(cs, n)
    PROVE  /\ ToSet(SelectedList(cs)) = SelectCandidates(cs) /\ IsInjective(SelectedList(cs))
           /\ InPlannersOrder(SelectedList(cs))
<1>. DEFINE top == Top1List(cs)
            rest == RemainingList(cs)
            T == Top1(cs)
            R == Remaining(cs)
            C == Candidates(cs)
            slots == MaxChild - Len(top)
            list == SelectedList(cs)
<1>1. /\ IsRanking(top, T) /\ StrictlyRanked(T)
      /\ IsRanking(rest, R) /\ StrictlyRanked(R)
  BY ListsRanked
<1>2. Len(top) \in Nat /\ Cardinality(T) = Len(top) /\ Len(rest) \in Nat /\ MaxChild \in Nat
  BY <1>1, RankingSize, SelectionAssumption
<1>3. /\ \A x \in T : x \in C /\ x.order = 1
      /\ \A x \in R : x \in C /\ x.order # 1
      /\ \A x \in C : x \in T \/ x \in R
  BY DEF Top1, Remaining
<1>4. /\ list = IF Len(top) >= MaxChild THEN Slice(top, MaxChild) ELSE top \o Slice(rest, slots)
      /\ SelectCandidates(cs) = IF MaxChild - Cardinality(T) <= 0 THEN Best(T, MaxChild)
                                ELSE T \cup Best(R, MaxChild - Cardinality(T))
  BY DEF SelectedList, SelectCandidates
<1>. HIDE DEF top, rest, T, R, C, list
<1>5. CASE Len(top) >= MaxChild
  <2>1. list = Slice(top, MaxChild) /\ SelectCandidates(cs) = Best(T, MaxChild)
    BY <1>2, <1>4, <1>5
  <2>2. /\ ToSet(Slice(top, MaxChild)) = Best(T, MaxChild)
        /\ Slice(top, MaxChild) \in Seq(T) /\ Distinct(Slice(top, MaxChild))
    BY <1>1, <1>2, SliceIsBest
  <2>3. DOMAIN list = 1..Len(list) /\ \A i \in DOMAIN list : list[i] \in T
    BY <2>1, <2>2, LenProperties, ElementOfSeq
  <2>4. IsInjective(list)
    BY <2>1, <2>2, <2>3 DEF IsInjective, Distinct
  <2>5. InPlannersOrder(list)
    <3>1. \A i \in DOMAIN list : ~(list[i].order > 1)
      BY <1>3, <2>3
    <3>. QED
      BY <3>1 DEF InPlannersOrder
  <2>. QED
    BY <2>1, <2>2, <2>4, <2>5 DEF list
<1>6. CASE Len(top) < MaxChild
  <2>. DEFINE s == Slice(rest, slots)
              k == Lesser(slots, Len(rest))
              m == Len(top)
  <2>1. slots \in Nat /\ slots > 0
    BY <1>2, <1>6
  <2>. HIDE DEF slots
  <2>2. list = top \o s /\ SelectCandidates(cs) = T \cup Best(R, slots)
    BY <1>2, <1>4, <1>6, <2>1 DEF slots
  <2>3. /\ ToSet(s) = Best(R, slots) /\ s \in Seq(R) /\ Distinct(s)
        /\ Len(s) = k /\ \A i \in 1..k : s[i] = rest[i]
    BY <1>1, <2>1, SliceIsBest
  <2>4. top \in Seq(T) /\ ToSet(top) = T /\ Distinct(top)
    BY <1>1 DEF IsRanking
  <2>5. top \in Seq(C) /\ s \in Seq(C)
    BY <1>3, <2>3, <2>4
  <2>6. k \in Nat /\ k <= Len(rest)
    BY <1>2, <2>1 DEF Lesser
  <2>. HIDE DEF s, k
  <2>7. ToSet(list) = SelectCandidates(cs)
    BY <2>2, <2>3, <2>4, <2>5, ElementsJoined
  <2>8. ToSet(top) \cap ToSet(s) = {}
    <3>1. ToSet(s) \subseteq R
      BY <2>3, ElementsType
    <3>. QED
      BY <1>3, <2>4, <3>1
  <2>9. Distinct(list) /\ list \in Seq(C)
    BY <2>2, <2>3, <2>4, <2>5, <2>8, DistinctJoined, ConcatProperties
  <2>10. IsInjective(list)
    <3>1. DOMAIN list = 1..Len(list)
      BY <2>9, LenProperties
    <3>. QED
      BY <2>9, <3>1 DEF IsInjective, Distinct
  <2>11. /\ Len(list) = m + k /\ DOMAIN list = 1..(m + k)
         /\ \A i \in 1..m : list[i] = top[i]
         /\ \A i \in 1..k : list[m + i] = s[i]
    <3>1. /\ top \o s \in Seq(C) /\ Len(top \o s) = Len(top) + Len(s)
          /\ \A i \in 1..Len(top) : (top \o s)[i] = top[i]
          /\ \A i \in 1..Len(s) : (top \o s)[Len(top) + i] = s[i]
      BY <2>5, JoinedAt
    <3>. QED
      BY <2>2, <2>3, <3>1, LenProperties
  <2>12. ASSUME NEW i \in DOMAIN list, list[i].order > 1
         PROVE  \E j \in 1..(i - 1) : list[j].id = list[i].id /\ list[j].order = list[i].order - 1
    <3>. DEFINE x == list[i]
    <3>1. x \in C /\ x.order > 1
      BY <2>9, <2>12, ElementOfSeq, LenProperties
    <3>2. i \in 1..(m + k) /\ m \in Nat
      BY <1>2, <2>11
    <3>3. ~(i <= m)
      <4>1. SUFFICES ASSUME i <= m PROVE FALSE
        OBVIOUS
      <4>2. i \in 1..m
        BY <3>2, <4>1
      <4>3. x = top[i] /\ top[i] \in T
        BY <2>4, <2>11, <4>2, ElementOfSeq
      <4>4. x.order = 1
        BY <1>3, <4>3
      <4>. QED
        BY <3>1, <4>4
    <3>. DEFINE p == i - m
    <3>4. p \in 1..k /\ m + p = i
      BY <2>6, <3>2, <3>3
    <3>. HIDE DEF p
    <3>5. x = rest[p] /\ p \in 1..Len(rest)
      <4>1. list[m + p] = s[p] /\ s[p] = rest[p]
        BY <2>3, <2>11, <3>4
      <4>. QED
        BY <2>6, <3>4, <4>1
    <3>6. PICK y \in C : y.id = x.id /\ y.order = x.order - 1 /\ Before(y, x)
      BY <3>1, EarlierSuggestion DEF C
    <3>7. CASE y \in T
      <4>1. PICK j \in DOMAIN top : top[j] = y
        BY <2>4, <3>7 DEF ToSet
      <4>2. j \in 1..m
        BY <2>4, <4>1, LenProperties
      <4>3. j \in 1..(i - 1) /\ list[j] = y
        BY <2>11, <3>2, <3>3, <4>1, <4>2
      <4>. QED
        BY <3>6, <4>3
    <3>8. CASE y \in R
      <4>0. rest \in Seq(R) /\ ToSet(rest) = R
            /\ \A a, b \in 1..Len(rest) : a < b => Before(rest[a], rest[b])
        BY <1>1 DEF IsRanking
      <4>1. PICK j \in DOMAIN rest : rest[j] = y
        BY <3>8, <4>0 DEF ToSet
      <4>2. j \in 1..Len(rest)
        BY <4>0, <4>1, LenProperties
      <4>3. x \in R
        BY <3>5, <4>0, ElementOfSeq
      <4>4. j < p
        <5>1. SUFFICES ASSUME ~(j < p) PROVE FALSE
          OBVIOUS
        <5>2. j = p \/ p < j
          BY <1>2, <3>5, <4>2, <5>1
        <5>3. x = y \/ Before(x, y)
          BY <3>5, <4>0, <4>1, <4>2, <5>2
        <5>. QED
          BY <1>1, <3>6, <3>8, <4>3, <5>3 DEF StrictlyRanked
      <4>5. j \in 1..k /\ m + j \in 1..(i - 1)
        BY <1>2, <2>6, <3>2, <3>4, <4>2, <4>4
      <4>6. list[m + j] = y
        BY <2>3, <2>11, <4>1, <4>5
      <4>. QED
        BY <3>6, <4>5, <4>6
    <3>. QED
      BY <1>3, <3>6, <3>7, <3>8
  <2>13. InPlannersOrder(list)
    BY <2>12 DEF InPlannersOrder
  <2>. QED
    BY <2>7, <2>10, <2>13 DEF list
<1>7. Len(top) >= MaxChild \/ Len(top) < MaxChild
  BY <1>2
<1>. QED
  BY <1>5, <1>6, <1>7
-----------------------------------------------------------------------------
(* Rows for supervised fine tuning: conversations. *)

\* What a place of a row holds: a token of a prompt or of a response, an image or
\* the end.
PromptAt(o, kept, off, p, k, j) ==
    /\ k \in 1..Len(kept) /\ j \in 1..kept[k].source
    /\ p = PartsFrom(o.prefix, o) + (off[k - 1] + j)
ResponseAt(o, kept, off, p, k, j) ==
    /\ k \in 1..Len(kept) /\ j \in 1..kept[k].target
    /\ p = PartsFrom(o.prefix, o) + (off[k - 1] + (kept[k].source + j))
ImageAt(o, kept, off, p, j) ==
    j \in 1..o.prefix /\ p = PrefixFrom(off[Len(kept)], o) + j
EndAt(o, kept, off, p) == o.efficient_eos /\ p = off[Len(kept)] + o.prefix + 1

\* Numbers about an encoded row.
Numbers(row, o, kept, off) ==
    /\ Len(kept) \in Nat /\ DOMAIN row.ids = 1..Len(row.ids)
    /\ off[0] = 0 /\ \A k \in 0..Len(kept) : off[k] \in Nat
    /\ \A k \in 1..Len(kept) :
          /\ kept[k].source \in Nat /\ kept[k].target \in Nat /\ kept[k].source # 0
          /\ off[k] = off[k - 1] + (kept[k].source + kept[k].target)
          /\ off[k - 1] \in Nat
    /\ \A k, l \in 0..Len(kept) : k <= l => off[k] <= off[l]
    /\ Len(Mapped(Size, kept)) = Len(kept)
    /\ \A k \in 1..Len(kept) : Mapped(Size, kept)[k] = kept[k].source + kept[k].target
    /\ PartsFrom(o.prefix, o) \in Nat /\ PrefixFrom(off[Len(kept)], o) \in Nat
    /\ Len(row.ids) = off[Len(kept)] + o.prefix + Len(EosIds(o))
    /\ Len(EosIds(o)) = IF o.efficient_eos THEN 1 ELSE 0

\* They are what they should be.
LEMMA EncodedNumbers ==
    ASSUME NEW row, NEW o, o.prefix \in Nat, NEW lo \in Nat, NEW kept, NEW off,
           Encoded(row, o, lo, kept, off)
    PROVE  Numbers(row, o, kept, off)
<1>. DEFINE ls == Mapped(Size, kept)
            c == Len(kept)
<1>1. kept \in Seq(Cut) /\ ls \in Seq(Nat) /\ StepsBy(ls, off) /\ row.ids \in Seq(TokenSet)
      /\ Len(row.ids) = off[c] + o.prefix + Len(EosIds(o))
      /\ \A k \in 1..c : kept[k].source # 0
  BY DEF Encoded
<1>2. Size \in [Cut -> Nat] /\ \A x \in Cut : Size[x] = x.source + x.target
  BY DEF Size, Cut
<1>3. Len(ls) = c /\ \A k \in 1..c : ls[k] = Size[kept[k]]
  BY <1>1, <1>2, MappedType DEF Maps
<1>4. c \in Nat /\ \A k \in 1..c : kept[k] \in Cut
  BY <1>1, LenProperties, ElementOfSeq
<1>5. \A k \in 1..c : kept[k].source \in Nat /\ kept[k].target \in Nat
                      /\ ls[k] = kept[k].source + kept[k].target
  BY <1>2, <1>3, <1>4 DEF Cut
<1>. HIDE DEF ls
<1>6. /\ \A k, l \in 0..c : k <= l => off[k] <= off[l]
      /\ \A k \in 0..c : off[k] \in Nat
  BY <1>1, <1>3, StepsGrow
<1>7. off[0] = 0 /\ \A k \in 1..c : off[k] = off[k - 1] + ls[k]
  BY <1>1, <1>3 DEF StepsBy
<1>8. \A k \in 1..c : off[k - 1] \in Nat
  BY <1>4, <1>6
<1>9. PartsFrom(o.prefix, o) \in Nat /\ PrefixFrom(off[c], o) \in Nat
  BY <1>4, <1>6 DEF PartsFrom, PrefixFrom
<1>10. DOMAIN row.ids = 1..Len(row.ids)
  BY <1>1, LenProperties
<1>11. Len(EosIds(o)) = IF o.efficient_eos THEN 1 ELSE 0
  BY EosIdsAre
<1>. QED
  BY <1>1, <1>3, <1>4, <1>5, <1>6, <1>7, <1>8, <1>9, <1>10, <1>11 DEF ls, Numbers

\* Every place of a row holds one of these.
LEMMA PlaceKinds ==
    ASSUME NEW row, NEW o, o.prefix \in Nat, NEW lo \in Nat, NEW kept, NEW off,
           Encoded(row, o, lo, kept, off), NEW p \in 1..Len(row.ids)
    PROVE  \/ \E k, j : PromptAt(o, kept, off, p, k, j)
           \/ \E k, j : ResponseAt(o, kept, off, p, k, j)
           \/ \E j : ImageAt(o, kept, off, p, j)
           \/ EndAt(o, kept, off, p)
<1>. DEFINE ls == Mapped(Size, kept)
            c == Len(kept)
            P == o.prefix
<1>0. Numbers(row, o, kept, off)
  BY EncodedNumbers
<1>1. /\ ls \in Seq(Nat) /\ StepsBy(ls, off) /\ Len(ls) = c
      /\ \A k \in 1..c : ls[k] = kept[k].source + kept[k].target
      /\ \A k \in 1..c : kept[k].source \in Nat /\ kept[k].target \in Nat
      /\ p \in 1..(off[c] + P + Len(EosIds(o)))
  <2>1. ls \in Seq(Nat) /\ StepsBy(ls, off)
    BY DEF Encoded
  <2>2. Len(ls) = c /\ \A k \in 1..c : ls[k] = kept[k].source + kept[k].target
    BY <1>0 DEF Numbers
  <2>3. \A k \in 1..c : kept[k].source \in Nat /\ kept[k].target \in Nat
    BY <1>0 DEF Numbers
  <2>4. Len(row.ids) = off[c] + P + Len(EosIds(o))
    BY <1>0 DEF Numbers
  <2>. QED
    BY <2>1, <2>2, <2>3, <2>4
<1>. HIDE DEF ls, c
<1>2. \/ \E k \in 1..c : \E j \in 1..ls[k] : p = PartsFrom(P, o) + (off[k - 1] + j)
      \/ \E j \in 1..P : p = PrefixFrom(off[c], o) + j
      \/ o.efficient_eos /\ p = off[c] + P + 1
  <2>. DEFINE m == off[Len(ls)] + P + Len(EosIds(o))
  <2>1. ls \in Seq(Nat) /\ StepsBy(ls, off) /\ p \in 1..m
    BY <1>1
  <2>2. P \in Nat /\ m = off[Len(ls)] + P + Len(EosIds(o))
    OBVIOUS
  <2>. HIDE DEF P, m
  <2>3. InRow(p, ls, off, P, o)
    BY <2>1, <2>2, RowCovered
  <2>. QED
    BY <1>1, <2>3 DEF InRow
<1>3. ASSUME NEW k \in 1..c, NEW j \in 1..ls[k], p = PartsFrom(P, o) + (off[k - 1] + j)
      PROVE  (\E m : PromptAt(o, kept, off, p, k, m)) \/ \E m : ResponseAt(o, kept, off, p, k, m)
  <2>. DEFINE x == kept[k].source
              y == kept[k].target
  <2>1. x \in Nat /\ y \in Nat /\ ls[k] = x + y
    BY <1>1
  <2>. HIDE DEF x, y
  <2>2. CASE j <= x
    <3>1. j \in 1..x
      BY <2>1, <2>2
    <3>2. PromptAt(o, kept, off, p, k, j)
      BY <1>3, <3>1 DEF PromptAt, c, x
    <3>. QED
      BY <3>2
  <2>3. CASE ~(j <= x)
    <3>1. j - x \in 1..y /\ x + (j - x) = j
      BY <2>1, <2>3
    <3>2. ResponseAt(o, kept, off, p, k, j - x)
      BY <1>3, <3>1 DEF ResponseAt, c, x, y
    <3>. QED
      BY <3>2
  <2>. QED
    BY <2>2, <2>3
<1>4. ASSUME NEW j \in 1..P, p = PrefixFrom(off[c], o) + j
      PROVE  ImageAt(o, kept, off, p, j)
  BY <1>4 DEF ImageAt, c
<1>5. ASSUME o.efficient_eos /\ p = off[c] + P + 1 PROVE EndAt(o, kept, off, p)
  BY <1>5 DEF EndAt, c
<1>. QED
  BY <1>2, <1>3, <1>4, <1>5

\* What a place of a prompt or of a response has as token and as label.
PromptIs(row, o, lo, kept, p, k, j) ==
    /\ row.ids[p] = Token(lo + k, "source", j) /\ lo + k \in Nat /\ lo + k # 0
    /\ row.labels[p] = PromptLabel(o, PartAt(k, Len(kept), o), j, Token(lo + k, "source", j))
ResponseIs(row, o, lo, kept, p, k, j) ==
    /\ row.ids[p] = Token(lo + k, "target", j) /\ lo + k \in Nat /\ lo + k # 0
    /\ row.labels[p] = ResponseLabel(o, PartAt(k, Len(kept), o), Token(lo + k, "target", j))

\* What a place of a prompt has as token and as label.
LEMMA PromptHolds ==
    ASSUME NEW row, NEW o, o.prefix \in Nat, NEW lo \in Nat, NEW kept, NEW off,
           Encoded(row, o, lo, kept, off), NEW p, NEW k, NEW j, PromptAt(o, kept, off, p, k, j)
    PROVE  PromptIs(row, o, lo, kept, p, k, j)
<1>1. k \in 1..Len(kept) /\ Len(kept) \in Nat
  BY EncodedNumbers DEF PromptAt, Numbers
<1>. QED
  BY <1>1 DEF PromptAt, Encoded, PromptIs

\* What a place of a response has as token and as label.
LEMMA ResponseHolds ==
    ASSUME NEW row, NEW o, o.prefix \in Nat, NEW lo \in Nat, NEW kept, NEW off,
           Encoded(row, o, lo, kept, off), NEW p, NEW k, NEW j, ResponseAt(o, kept, off, p, k, j)
    PROVE  ResponseIs(row, o, lo, kept, p, k, j)
<1>1. k \in 1..Len(kept) /\ Len(kept) \in Nat
  BY EncodedNumbers DEF ResponseAt, Numbers
<1>. QED
  BY <1>1 DEF ResponseAt, Encoded, ResponseIs

\* What the place of an image has.
LEMMA ImageHolds ==
    ASSUME NEW row, NEW o, NEW lo, NEW kept, NEW off,
           Encoded(row, o, lo, kept, off), NEW p, NEW j, ImageAt(o, kept, off, p, j)
    PROVE  row.ids[p] = Token(0, "image", j) /\ row.labels[p] = Ignore
BY DEF ImageAt, Encoded

\* What the end of a row has.
LEMMA EndHolds ==
    ASSUME NEW row, NEW o, NEW lo, NEW kept, NEW off,
           Encoded(row, o, lo, kept, off), NEW p, EndAt(o, kept, off, p)
    PROVE  row.ids[p] = Eos /\ row.labels[p] = Eos
BY DEF EndAt, Encoded

\* Token fields.
LEMMA TokenFields ==
    ASSUME NEW t, NEW side, NEW k
    PROVE  Token(t, side, k).turn = t /\ Token(t, side, k).side = side /\ Token(t, side, k).at = k
BY DEF Token

\* Different tokens.
LEMMA TokensDiffer ==
    ASSUME NEW t, NEW k
    PROVE  /\ Token(t, "source", k) # Eos /\ Token(t, "source", k) # Ignore
           /\ Token(t, "target", k) # Eos /\ Token(t, "target", k) # Ignore
           /\ Token(t, "image", k) # Eos /\ Token(t, "image", k) # Ignore
           /\ Eos # Ignore /\ Eos.turn = 0
           /\ ~IsTarget(Eos) /\ ~IsTarget(Token(t, "source", k)) /\ ~IsTarget(Token(t, "image", k))
           /\ IsTarget(Token(t, "target", k))
<1>1. Eos = Token(0, "eos", 0) /\ Ignore = Token(0, "ignore", 0)
  BY TokensTyped
<1>2. Eos.side = "eos" /\ Ignore.side = "ignore" /\ Eos.turn = 0
  BY <1>1, TokenFields
<1>3. /\ Token(t, "source", k).side = "source" /\ Token(t, "target", k).side = "target"
      /\ Token(t, "image", k).side = "image"
  BY TokenFields
<1>. QED
  BY <1>2, <1>3 DEF IsTarget

\* The token before the k-th part, if there is one, is of the turn before, and is the
\* end of its response if it has one.
BeforeIs(row, lo, kept, i, k) ==
    /\ row.ids[i].turn = (lo + k) - 1
    /\ kept[k - 1].target # 0 => IsTarget(row.ids[i])

\* That holds of the encoded rows.
LEMMA PartBefore ==
    ASSUME NEW row, NEW o, o.prefix \in Nat, NEW lo \in Nat, NEW kept, NEW off,
           Encoded(row, o, lo, kept, off), NEW k \in 1..Len(kept), k # 1,
           NEW i, i = PartsFrom(o.prefix, o) + off[k - 1]
    PROVE  BeforeIs(row, lo, kept, i, k)
<1>. DEFINE l == k - 1
            x == kept[l].source
            y == kept[l].target
<1>0. Numbers(row, o, kept, off)
  BY EncodedNumbers
<1>1. l \in 1..Len(kept) /\ k = l + 1 /\ l \in Nat
  <2>1. Len(kept) \in Nat
    BY <1>0 DEF Numbers
  <2>. QED
    BY <2>1
<1>2. /\ x \in Nat /\ y \in Nat /\ x # 0 /\ off[l - 1] \in Nat /\ off[l] = off[l - 1] + (x + y)
      /\ PartsFrom(o.prefix, o) \in Nat
  <2>. HIDE DEF l
  <2>. QED
    BY <1>0, <1>1 DEF Numbers
<1>2a. i = PartsFrom(o.prefix, o) + off[l]
  OBVIOUS
<1>2b. x = kept[l].source /\ y = kept[l].target
  OBVIOUS
<1>. HIDE DEF l, x, y
<1>3. CASE y = 0
  <2>1. x \in 1..x /\ off[l] = off[l - 1] + x
    BY <1>2, <1>3
  <2>2. PromptAt(o, kept, off, i, l, x)
    BY <1>1, <1>2a, <1>2b, <2>1 DEF PromptAt
  <2>2a. PromptIs(row, o, lo, kept, i, l, x)
    BY <2>2, PromptHolds
  <2>3. row.ids[i] = Token(lo + l, "source", x)
    BY <2>2a DEF PromptIs
  <2>4. row.ids[i].turn = lo + l
    BY <2>3, TokenFields
  <2>. QED
    BY <1>1, <1>3, <2>4 DEF l, y, BeforeIs
<1>4. CASE y # 0
  <2>1. y \in 1..y
    BY <1>2, <1>4
  <2>2. ResponseAt(o, kept, off, i, l, y)
    BY <1>1, <1>2, <1>2a, <1>2b, <2>1 DEF ResponseAt
  <2>2a. ResponseIs(row, o, lo, kept, i, l, y)
    BY <2>2, ResponseHolds
  <2>3. row.ids[i] = Token(lo + l, "target", y)
    BY <2>2a DEF ResponseIs
  <2>4. row.ids[i].turn = lo + l /\ IsTarget(row.ids[i])
    BY <2>3, TokenFields, TokensDiffer
  <2>. QED
    BY <1>1, <2>4 DEF l, BeforeIs
<1>. QED
  BY <1>3, <1>4

\* A row of a conversation, as cut and encoded.
RowOf(ts, o, row, lo, kept, off) ==
    /\ Encoded(row, o, lo, kept, off)
    /\ lo = LeftOut(Len(ts), Len(kept), o) /\ lo \in Nat
    /\ Len(ts) \in Nat /\ Len(kept) \in 0..Len(ts)
    /\ \A k \in 1..Len(kept) : k # Len(kept) /\ ~o.mask_history => kept[k].target # 0
    /\ \A k \in 1..Len(kept) :
          kept[k].source \in 1..ts[lo + k].source /\ kept[k].target \in 0..ts[lo + k].target
    /\ o.prefix + Len(EosIds(o)) + off[Len(kept)] < o.cutoff =>
          Len(kept) = Len(ts) /\ \A k \in 1..Len(ts) : Whole(kept[k], ts[k])
    /\ IF o.prefix + Len(EosIds(o)) >= o.cutoff THEN Len(kept) = 0
       ELSE o.prefix + Len(EosIds(o)) + off[Len(kept)] <= o.cutoff

\* What encoding gives.
LEMMA RowExists ==
    ASSUME NEW ts \in Seq(Turn), NEW o, o.prefix \in Nat, o.cutoff \in Nat
    PROVE  \E off : RowOf(ts, o, Encode(ts, o), LowOf(ts, o), KeptOf(ts, o), off)
<1>. DEFINE n == Len(ts)
            cuts == CutsOf(ts, o)
            c == Len(cuts)
            pairs == Pairs(ts, o)
            kept == KeptOf(ts, o)
            lo == LowOf(ts, o)
            used == o.prefix + Len(EosIds(o))
<1>1. WellCut(cuts, pairs, used, o)
  BY EncodeIs
<1>2. PICK off : /\ Encoded(Encode(ts, o), o, lo, kept, off)
                 /\ off[c] = Sum(Mapped(Size, cuts))
  BY EncodeIs
<1>3. pairs \in Seq(Turn) /\ Len(pairs) = n
      /\ \A idx \in 1..n : TurnAt(idx, n, o) \in 1..n /\ pairs[idx] = ts[TurnAt(idx, n, o)]
  BY PairsTyped
<1>4. /\ cuts \in Seq(Cut) /\ c <= n
      /\ \A i \in 1..c : Trimmed(cuts[i], pairs[i])
      /\ \A i \in 1..c : i < c => cuts[i].target # 0
      /\ used + off[c] < o.cutoff => c = n /\ \A i \in 1..n : Whole(cuts[i], pairs[i])
      /\ IF used >= o.cutoff THEN cuts = <<>> ELSE used + off[c] <= o.cutoff
  BY <1>1, <1>2, <1>3 DEF WellCut
<1>5. /\ Len(kept) = c
      /\ \A k \in 1..c : PartAt(k, c, o) \in 1..c /\ kept[k] = cuts[PartAt(k, c, o)]
  BY <1>4, OrderedParts DEF KeptOf
<1>6. n \in Nat /\ c \in 0..n
  BY <1>4, LenProperties
<1>7. lo = LeftOut(n, c, o)
  BY DEF LowOf
<1>8. lo \in Nat
  BY <1>6, <1>7 DEF LeftOut
<1>. HIDE DEF pairs, cuts, c, n, lo, kept, used
<1>9. \A k \in 1..c : TurnAt(PartAt(k, c, o), n, o) = lo + k
  BY <1>6, <1>7, PartsInStep
<1>10. ASSUME NEW k \in 1..c
       PROVE  /\ kept[k].source \in 1..ts[lo + k].source
              /\ kept[k].target \in 0..ts[lo + k].target
  <2>1. PartAt(k, c, o) \in 1..c /\ kept[k] = cuts[PartAt(k, c, o)]
    BY <1>5
  <2>2. PartAt(k, c, o) \in 1..n
    BY <1>6, <2>1
  <2>3. pairs[PartAt(k, c, o)] = ts[lo + k]
    BY <1>3, <1>9, <2>2
  <2>. QED
    BY <1>4, <2>1, <2>3 DEF Trimmed
<1>11. ASSUME NEW k \in 1..c, k # c, ~o.mask_history PROVE kept[k].target # 0
  <2>1. PartAt(k, c, o) = k
    BY <1>11 DEF PartAt
  <2>2. k < c
    BY <1>6, <1>11
  <2>. QED
    BY <1>4, <1>5, <2>1, <2>2
<1>12. ASSUME used + off[c] < o.cutoff PROVE c = n /\ \A k \in 1..n : Whole(kept[k], ts[k])
  <2>1. c = n /\ \A i \in 1..n : Whole(cuts[i], pairs[i])
    BY <1>4, <1>12
  <2>2. lo = 0
    BY <1>6, <1>7, <2>1 DEF LeftOut
  <2>3. ASSUME NEW k \in 1..n PROVE Whole(kept[k], ts[k])
    <3>1. PartAt(k, c, o) \in 1..n /\ kept[k] = cuts[PartAt(k, c, o)]
      BY <1>5, <2>1
    <3>2. TurnAt(PartAt(k, c, o), n, o) = k
      <4>1. TurnAt(PartAt(k, c, o), n, o) = 0 + k
        BY <1>9, <2>1, <2>2
      <4>2. 0 + k = k
        BY <1>6
      <4>. QED
        BY <4>1, <4>2
    <3>3. pairs[PartAt(k, c, o)] = ts[k]
      BY <1>3, <3>1, <3>2
    <3>. QED
      BY <2>1, <3>1, <3>3
  <2>. QED
    BY <2>1, <2>3
<1>13. IF used >= o.cutoff THEN c = 0 ELSE used + off[c] <= o.cutoff
  BY <1>4, EmptySeq DEF c
<1>14. RowOf(ts, o, Encode(ts, o), lo, kept, off)
  BY <1>2, <1>5, <1>6, <1>7, <1>8, <1>10, <1>11, <1>12, <1>13 DEF RowOf, n, used
<1>. QED
  BY <1>14 DEF lo, kept

\* Every token of a row has the label it is to have.
LEMMA RowLabelled ==
    ASSUME NEW ts, turns = ts, NEW o, o.prefix \in Nat, NEW row, NEW lo, NEW kept, NEW off,
           RowOf(ts, o, row, lo, kept, off)
    PROVE  Labelled(row, o)
<1>. DEFINE c == Len(kept)
            n == Len(ts)
<1>1. /\ Encoded(row, o, lo, kept, off) /\ lo \in Nat /\ lo = LeftOut(n, c, o)
      /\ n \in Nat /\ c \in 0..n
      /\ \A k \in 1..c : k # c /\ ~o.mask_history => kept[k].target # 0
  BY DEF RowOf
<1>2. Numbers(row, o, kept, off)
  BY <1>1, EncodedNumbers
<1>3. /\ DOMAIN row.ids = 1..Len(row.ids) /\ Len(row.labels) = Len(row.ids) /\ off[0] = 0
      /\ \A k \in 1..c : off[k - 1] \in Nat
      /\ PartsFrom(o.prefix, o) \in Nat
  BY <1>1, <1>2 DEF Encoded, Numbers
<1>4. ASSUME NEW i \in DOMAIN row.ids
      PROVE  /\ row.labels[i] = LabelFor(row.ids[i], o)
             /\ AsksForEnd(row.ids[i], o) => FollowsTurn(row, i, o)
  <2>1. /\ ToBeTrained(row.ids[i], o) => LabelFor(row.ids[i], o) = row.ids[i]
        /\ ~ToBeTrained(row.ids[i], o) /\ AsksForEnd(row.ids[i], o) =>
              LabelFor(row.ids[i], o) = Eos
        /\ ~ToBeTrained(row.ids[i], o) /\ ~AsksForEnd(row.ids[i], o) =>
              LabelFor(row.ids[i], o) = Ignore
    BY DEF LabelFor
  <2>2. ToBeTrained(row.ids[i], o) <=>
            \/ IsTarget(row.ids[i]) /\ (o.mask_history => row.ids[i].turn = n)
            \/ o.train_on_prompt /\ row.ids[i].side = "source"
            \/ row.ids[i] = Eos
    BY DEF ToBeTrained
  <2>3. i \in 1..Len(row.ids)
    BY <1>3
  <2>3a. AsksForEnd(row.ids[i], o) <=>
            /\ o.efficient_eos /\ ~o.train_on_prompt
            /\ row.ids[i].side = "source" /\ row.ids[i].at = 1
            /\ row.ids[i].turn # (IF o.mask_history THEN n ELSE 1)
    BY DEF AsksForEnd
  <2>4. CASE \E k, j : PromptAt(o, kept, off, i, k, j)
    <3>1. PICK k, j : PromptAt(o, kept, off, i, k, j)
      BY <2>4
    <3>. DEFINE id == Token(lo + k, "source", j)
                idx == PartAt(k, c, o)
    <3>1a. PromptIs(row, o, lo, kept, i, k, j)
      BY <1>1, <3>1, PromptHolds
    <3>2. row.ids[i] = id /\ row.labels[i] = PromptLabel(o, idx, j, id) /\ lo + k \in Nat
      BY <3>1a DEF PromptIs
    <3>3. /\ id # Eos /\ id # Ignore /\ Eos # Ignore /\ ~IsTarget(id)
          /\ id.side = "source" /\ id.turn = lo + k /\ id.at = j
      BY TokensDiffer, TokenFields
    <3>3a. lo + k = (IF o.mask_history THEN n ELSE 1) <=> idx = 1
      <4>1. k \in 1..c
        BY <3>1 DEF PromptAt
      <4>. QED
        BY <1>1, <4>1 DEF PartAt, LeftOut
    <3>. HIDE DEF id
    <3>4. AsksForEnd(row.ids[i], o) <=> o.efficient_eos /\ ~o.train_on_prompt /\ j = 1 /\ idx # 1
      <4>. HIDE DEF n, idx
      <4>. QED
        BY <2>3a, <3>2, <3>3, <3>3a
    <3>5. ToBeTrained(row.ids[i], o) <=> o.train_on_prompt
      BY <2>2, <3>2, <3>3
    <3>6. ASSUME AsksForEnd(row.ids[i], o) PROVE FollowsTurn(row, i, o)
      <4>1. idx # 1 /\ j = 1
        BY <3>4, <3>6
      <4>2. k \in 1..c /\ i = PartsFrom(o.prefix, o) + (off[k - 1] + 1)
        BY <3>1, <4>1 DEF PromptAt
      <4>3. ASSUME i > 1
            PROVE  /\ row.ids[i - 1].turn = row.ids[i].turn - 1
                   /\ ~o.mask_history => IsTarget(row.ids[i - 1])
        <5>1. k # 1
          <6>1. SUFFICES ASSUME k = 1 PROVE FALSE
            OBVIOUS
          <6>2. o.mask_history
            BY <4>1, <6>1 DEF PartAt
          <6>3. PartsFrom(o.prefix, o) = 0 /\ off[k - 1] = 0
            BY <1>3, <6>1, <6>2 DEF PartsFrom
          <6>. QED
            BY <4>2, <4>3, <6>3
        <5>2. /\ off[k - 1] \in Nat
              /\ i - 1 = PartsFrom(o.prefix, o) + off[k - 1]
          <6>1. off[k - 1] \in Nat /\ PartsFrom(o.prefix, o) \in Nat
            BY <1>3, <4>2
          <6>. QED
            BY <4>2, <6>1
        <5>3. BeforeIs(row, lo, kept, i - 1, k)
          <6>. DEFINE h == i - 1
          <6>1. h = PartsFrom(o.prefix, o) + off[k - 1]
            BY <5>2
          <6>. HIDE DEF h
          <6>2. BeforeIs(row, lo, kept, h, k)
            BY <1>1, <4>2, <5>1, <6>1, PartBefore
          <6>. QED
            BY <6>2 DEF h
        <5>4. ~o.mask_history => kept[k - 1].target # 0
          <6>1. k - 1 \in 1..c /\ k - 1 # c
            BY <1>1, <4>2, <5>1
          <6>. QED
            BY <1>1, <6>1
        <5>5. row.ids[i].turn = lo + k /\ lo + k \in Nat
          BY <3>2, <3>3
        <5>6. row.ids[i].turn - 1 = (lo + k) - 1
          BY <5>5
        <5>. QED
          BY <5>3, <5>4, <5>6 DEF BeforeIs
      <4>. QED
        BY <4>3 DEF FollowsTurn
    <3>7. row.labels[i] = LabelFor(row.ids[i], o)
      <4>. HIDE DEF idx
      <4>. QED
        BY <2>1, <3>2, <3>4, <3>5 DEF PromptLabel
    <3>. QED
      BY <3>6, <3>7
  <2>5. CASE \E k, j : ResponseAt(o, kept, off, i, k, j)
    <3>1. PICK k, j : ResponseAt(o, kept, off, i, k, j)
      BY <2>5
    <3>. DEFINE id == Token(lo + k, "target", j)
                idx == PartAt(k, c, o)
    <3>1a. ResponseIs(row, o, lo, kept, i, k, j)
      BY <1>1, <3>1, ResponseHolds
    <3>2. row.ids[i] = id /\ row.labels[i] = ResponseLabel(o, idx, id)
      BY <3>1a DEF ResponseIs
    <3>3. /\ id # Eos /\ id # Ignore /\ IsTarget(id) /\ id.side = "target" /\ id.turn = lo + k
      BY TokensDiffer, TokenFields
    <3>4. o.mask_history => (idx = 1 <=> lo + k = n)
      <4>1. k \in 1..c
        BY <3>1 DEF ResponseAt
      <4>. QED
        BY <1>1, <4>1 DEF PartAt, LeftOut
    <3>. HIDE DEF id
    <3>6. ToBeTrained(row.ids[i], o) <=> ~(o.mask_history /\ idx # 1)
      <4>1. ToBeTrained(row.ids[i], o) <=> (o.mask_history => lo + k = n)
        <5>. HIDE DEF n
        <5>. QED
          BY <2>2, <3>2, <3>3
      <4>. QED
        BY <3>4, <4>1
    <3>7. ~AsksForEnd(row.ids[i], o)
      BY <2>3a, <3>2, <3>3
    <3>. QED
      BY <2>1, <3>2, <3>6, <3>7 DEF ResponseLabel
  <2>6. CASE \E j : ImageAt(o, kept, off, i, j)
    <3>1. PICK j : ImageAt(o, kept, off, i, j)
      BY <2>6
    <3>. DEFINE id == Token(0, "image", j)
    <3>2. row.ids[i] = id /\ row.labels[i] = Ignore
      BY <1>1, <3>1, ImageHolds
    <3>3. /\ id # Eos /\ id # Ignore /\ ~IsTarget(id) /\ id.side = "image"
      BY TokensDiffer, TokenFields
    <3>. HIDE DEF id
    <3>4. ~ToBeTrained(row.ids[i], o)
      BY <2>2, <3>2, <3>3
    <3>5. ~AsksForEnd(row.ids[i], o)
      BY <2>3a, <3>2, <3>3
    <3>. QED
      BY <2>1, <3>2, <3>4, <3>5
  <2>7. CASE EndAt(o, kept, off, i)
    <3>1. row.ids[i] = Eos /\ row.labels[i] = Eos
      BY <1>1, <2>7, EndHolds
    <3>2. ToBeTrained(row.ids[i], o)
      BY <2>2, <3>1
    <3>3. ~AsksForEnd(row.ids[i], o)
      <4>1. Eos.side = "eos"
        BY DEF Eos, Special
      <4>. QED
        BY <2>3a, <3>1, <4>1
    <3>. QED
      BY <2>1, <3>1, <3>2, <3>3
  <2>. QED
    BY <1>1, <2>3, <2>4, <2>5, <2>6, <2>7, PlaceKinds
<1>. QED
  BY <1>3, <1>4 DEF Labelled

\* How many places a run has.
LEMMA RunSize ==
    ASSUME NEW a \in Nat, NEW n \in Nat
    PROVE  IsFiniteSet((a + 1)..(a + n)) /\ Cardinality((a + 1)..(a + n)) = n
<1>. DEFINE b == a + 1
            d == a + n
<1>1. b \in Int /\ d \in Int /\ (b > d <=> n = 0) /\ d - b + 1 = n
  OBVIOUS
<1>. HIDE DEF b, d
<1>2. IsFiniteSet(b..d)
  BY <1>1, FS_Interval
<1>3. Cardinality(b..d) = IF b > d THEN 0 ELSE d - b + 1
  BY <1>1, FS_Interval
<1>4. IsFiniteSet(b..d) /\ Cardinality(b..d) = n
  BY <1>1, <1>2, <1>3
<1>. QED
  BY <1>4 DEF b, d

\* The place before the k-th part, and the length of this.
PartFrom(o, off, k) == PartsFrom(o.prefix, o) + off[k - 1]
PartSize(kept, k) == kept[k].source + kept[k].target

\* Where a row has the tokens of its turns.
TurnPlaces(row, o, lo, kept, off) ==
    /\ \A k \in 1..Len(kept) :
          /\ PartFrom(o, off, k) \in Nat /\ PartSize(kept, k) \in Nat /\ PartSize(kept, k) # 0
          /\ PartFrom(o, off, k) + PartSize(kept, k) <= Len(row.ids)
          /\ \A i \in 1..PartSize(kept, k) : row.ids[PartFrom(o, off, k) + i].turn = lo + k
    /\ \A p \in 1..Len(row.ids) :
          \/ row.ids[p].turn = 0
          \/ \E k \in 1..Len(kept) : \E i \in 1..PartSize(kept, k) : p = PartFrom(o, off, k) + i
    /\ \A k, l \in 1..Len(kept) : k < l =>
          PartFrom(o, off, k) + PartSize(kept, k) <= PartFrom(o, off, l)

\* An encoded row has them there.
LEMMA TurnPlacesAre ==
    ASSUME NEW row, NEW o, o.prefix \in Nat, NEW lo \in Nat, NEW kept, NEW off,
           Encoded(row, o, lo, kept, off)
    PROVE  TurnPlaces(row, o, lo, kept, off)
<1>. DEFINE c == Len(kept)
            F == PartsFrom(o.prefix, o)
            L == Len(row.ids)
<1>0. Numbers(row, o, kept, off)
  BY EncodedNumbers
<1>1. ASSUME NEW k \in 1..c
      PROVE  /\ PartFrom(o, off, k) \in Nat /\ PartSize(kept, k) \in Nat /\ PartSize(kept, k) # 0
             /\ PartFrom(o, off, k) + PartSize(kept, k) <= L
             /\ PartFrom(o, off, k) + PartSize(kept, k) = F + off[k]
  <2>1. /\ kept[k].source \in Nat /\ kept[k].target \in Nat /\ kept[k].source # 0
        /\ off[k] = off[k - 1] + (kept[k].source + kept[k].target) /\ off[k - 1] \in Nat
        /\ F \in Nat
    BY <1>0 DEF Numbers
  <2>2. off[k] <= off[c] /\ off[k] \in Nat /\ off[c] \in Nat
    <3>1. k \in 0..c /\ c \in 0..c /\ k <= c
      <4>1. c \in Nat
        BY <1>0 DEF Numbers
      <4>. QED
        BY <4>1
    <3>. QED
      BY <1>0, <3>1 DEF Numbers
  <2>3. F <= o.prefix /\ L = off[c] + o.prefix + Len(EosIds(o)) /\ Len(EosIds(o)) \in Nat
    BY <1>0 DEF Numbers, PartsFrom
  <2>. DEFINE x == kept[k].source
              y == kept[k].target
              a == off[k - 1]
              b == off[k]
              d == off[c]
              e == Len(EosIds(o))
              P == o.prefix
  <2>4. /\ x \in Nat /\ y \in Nat /\ x # 0 /\ a \in Nat /\ b = a + (x + y) /\ b \in Nat
        /\ d \in Nat /\ b <= d /\ F <= P /\ F \in Nat /\ L = d + P + e /\ e \in Nat /\ P \in Nat
    BY <2>1, <2>2, <2>3
  <2>5. PartFrom(o, off, k) = F + a /\ PartSize(kept, k) = x + y
    BY DEF PartFrom, PartSize
  <2>. HIDE DEF x, y, a, b, d, e, P, F, L
  <2>6. /\ F + a \in Nat /\ x + y \in Nat /\ x + y # 0 /\ (F + a) + (x + y) <= L
        /\ (F + a) + (x + y) = F + b
    BY <2>4
  <2>. QED
    BY <2>5, <2>6 DEF b
<1>2. ASSUME NEW k \in 1..c, NEW i \in 1..PartSize(kept, k)
      PROVE  row.ids[PartFrom(o, off, k) + i].turn = lo + k
  <2>. DEFINE x == kept[k].source
              y == kept[k].target
              a == off[k - 1]
              p == PartFrom(o, off, k) + i
  <2>1. x \in Nat /\ y \in Nat /\ a \in Nat /\ F \in Nat
    BY <1>0 DEF Numbers
  <2>2. PartFrom(o, off, k) = F + a /\ PartSize(kept, k) = x + y
    BY DEF PartFrom, PartSize
  <2>3. i \in 1..(x + y)
    BY <2>2
  <2>4. p = F + (a + i)
    <3>. HIDE DEF F, a, x, y
    <3>. QED
      BY <2>1, <2>2, <2>3
  <2>5. CASE i <= x
    <3>1. i \in 1..x
      BY <2>1, <2>3, <2>5
    <3>2. PromptAt(o, kept, off, p, k, i)
      BY <2>4, <3>1 DEF PromptAt
    <3>3. PromptIs(row, o, lo, kept, p, k, i)
      <4>. HIDE DEF p
      <4>. QED
        BY <3>2, PromptHolds
    <3>. QED
      BY <3>3, TokenFields DEF PromptIs
  <2>6. CASE ~(i <= x)
    <3>. DEFINE j == i - x
    <3>1. j \in 1..y /\ x + j = i
      BY <2>1, <2>3, <2>6
    <3>. HIDE DEF j
    <3>2. ResponseAt(o, kept, off, p, k, j)
      BY <2>4, <3>1 DEF ResponseAt
    <3>3. ResponseIs(row, o, lo, kept, p, k, j)
      <4>. HIDE DEF p
      <4>. QED
        BY <3>2, ResponseHolds
    <3>. QED
      BY <3>3, TokenFields DEF ResponseIs
  <2>. QED
    BY <2>5, <2>6
<1>3. ASSUME NEW p \in 1..L
      PROVE  \/ row.ids[p].turn = 0
             \/ \E k \in 1..c : \E i \in 1..PartSize(kept, k) : p = PartFrom(o, off, k) + i
  <2>1. CASE \E k, j : PromptAt(o, kept, off, p, k, j)
    <3>1. PICK k, j : PromptAt(o, kept, off, p, k, j)
      BY <2>1
    <3>2. k \in 1..c /\ j \in 1..kept[k].source /\ p = F + (off[k - 1] + j)
      BY <3>1 DEF PromptAt
    <3>. DEFINE x == kept[k].source
                y == kept[k].target
                a == off[k - 1]
    <3>3. x \in Nat /\ y \in Nat /\ a \in Nat /\ F \in Nat
      BY <1>0, <3>2 DEF Numbers
    <3>4. PartFrom(o, off, k) = F + a /\ PartSize(kept, k) = x + y
      BY DEF PartFrom, PartSize
    <3>5. j \in 1..x /\ p = F + (a + j)
      BY <3>2
    <3>. HIDE DEF F, a, x, y
    <3>6. j \in 1..(x + y) /\ p = (F + a) + j
      BY <3>3, <3>5
    <3>. QED
      BY <3>2, <3>4, <3>6
  <2>2. CASE \E k, j : ResponseAt(o, kept, off, p, k, j)
    <3>1. PICK k, j : ResponseAt(o, kept, off, p, k, j)
      BY <2>2
    <3>2. k \in 1..c /\ j \in 1..kept[k].target /\ p = F + (off[k - 1] + (kept[k].source + j))
      BY <3>1 DEF ResponseAt
    <3>. DEFINE x == kept[k].source
                y == kept[k].target
                a == off[k - 1]
                m == x + j
    <3>3. x \in Nat /\ y \in Nat /\ a \in Nat /\ F \in Nat
      BY <1>0, <3>2 DEF Numbers
    <3>4. PartFrom(o, off, k) = F + a /\ PartSize(kept, k) = x + y
      BY DEF PartFrom, PartSize
    <3>5. j \in 1..y /\ p = F + (a + (x + j))
      BY <3>2
    <3>. HIDE DEF F, a, x, y
    <3>6. m \in 1..(x + y) /\ p = (F + a) + m
      BY <3>3, <3>5
    <3>. QED
      BY <3>2, <3>4, <3>6
  <2>3. CASE \E j : ImageAt(o, kept, off, p, j)
    BY <2>3, ImageHolds, TokenFields
  <2>4. CASE EndAt(o, kept, off, p)
    BY <2>4, EndHolds, TokensDiffer
  <2>. QED
    BY <2>1, <2>2, <2>3, <2>4, PlaceKinds
<1>4. ASSUME NEW k \in 1..c, NEW l \in 1..c, k < l
      PROVE  PartFrom(o, off, k) + PartSize(kept, k) <= PartFrom(o, off, l)
  <2>. DEFINE m == l - 1
  <2>1. m \in 0..c /\ k \in 0..c /\ k <= m
    <3>1. c \in Nat
      BY <1>0 DEF Numbers
    <3>. QED
      BY <1>4, <3>1
  <2>2. off[k] <= off[m] /\ off[k] \in Nat /\ off[m] \in Nat /\ F \in Nat
    <3>. HIDE DEF m
    <3>. QED
      BY <1>0, <2>1 DEF Numbers
  <2>3. PartFrom(o, off, k) + PartSize(kept, k) = F + off[k] /\ PartFrom(o, off, l) = F + off[m]
    BY <1>1 DEF PartFrom
  <2>. HIDE DEF F, m
  <2>. QED
    BY <2>2, <2>3
<1>. QED
  BY <1>1, <1>2, <1>3, <1>4 DEF TurnPlaces

\* Where a row has the tokens of its k-th turn.
TurnAtPlaces(row, o, lo, kept, off, k) ==
    TokensOf(row, lo + k) =
        (PartFrom(o, off, k) + 1)..(PartFrom(o, off, k) + PartSize(kept, k))

\* A row has the tokens of a turn there and nowhere else.
LEMMA TokensOfTurn ==
    ASSUME NEW row, DOMAIN row.ids = 1..Len(row.ids), Len(row.ids) \in Nat,
           NEW o, NEW lo \in Nat, NEW kept, Len(kept) \in Nat, NEW off,
           TurnPlaces(row, o, lo, kept, off), NEW k \in 1..Len(kept)
    PROVE  TurnAtPlaces(row, o, lo, kept, off, k)
<1>. DEFINE L == Len(row.ids)
            F == PartFrom(o, off, k)
            z == PartSize(kept, k)
            T == TokensOf(row, lo + k)
            R == (F + 1)..(F + z)
<1>1. /\ F \in Nat /\ z \in Nat /\ z # 0 /\ F + z <= L
      /\ \A i \in 1..z : row.ids[F + i].turn = lo + k
  BY DEF TurnPlaces
<1>2. ASSUME NEW p \in T PROVE p \in R
  <2>1. p \in 1..L /\ row.ids[p].turn = lo + k
    BY DEF TokensOf
  <2>2. lo + k # 0
    OBVIOUS
  <2>3. \E l \in 1..Len(kept) : \E i \in 1..PartSize(kept, l) : p = PartFrom(o, off, l) + i
    BY <2>1, <2>2 DEF TurnPlaces
  <2>4. PICK l \in 1..Len(kept) : \E i \in 1..PartSize(kept, l) : p = PartFrom(o, off, l) + i
    BY <2>3
  <2>5. PICK i \in 1..PartSize(kept, l) : p = PartFrom(o, off, l) + i
    BY <2>4
  <2>6. row.ids[PartFrom(o, off, l) + i].turn = lo + l
    BY <2>5 DEF TurnPlaces
  <2>7. lo + l = lo + k
    BY <2>1, <2>5, <2>6
  <2>8. l = k
    BY <2>4, <2>7
  <2>9. i \in 1..z /\ p = F + i
    BY <2>5, <2>8
  <2>. HIDE DEF F, z
  <2>. QED
    BY <1>1, <2>9
<1>3. ASSUME NEW p \in R PROVE p \in T
  <2>. DEFINE i == p - F
  <2>1. i \in 1..z /\ p = F + i /\ p \in 1..L
    <3>1. L \in Nat
      OBVIOUS
    <3>. HIDE DEF F, z, L
    <3>. QED
      BY <1>1, <3>1
  <2>2. row.ids[F + i].turn = lo + k
    <3>. HIDE DEF i, F, z
    <3>. QED
      BY <1>1, <2>1
  <2>3. row.ids[p].turn = lo + k
    BY <2>1, <2>2
  <2>. QED
    BY <2>1, <2>3 DEF TokensOf
<1>4. T = R
  <2>. HIDE DEF T, R
  <2>. QED
    BY <1>2, <1>3
<1>. QED
  BY <1>4 DEF TurnAtPlaces

\* Which turns a row has.
TurnsKept(row, lo, c) ==
    /\ \A t \in Kept(row) : \E k \in 1..c : t = lo + k
    /\ Kept(row) = (lo + 1)..(lo + c) /\ Cardinality(Kept(row)) = c

\* They are the kept ones.
LEMMA KeptTurns ==
    ASSUME NEW row, DOMAIN row.ids = 1..Len(row.ids), Len(row.ids) \in Nat,
           NEW o, NEW lo \in Nat, NEW kept, Len(kept) \in Nat, NEW off,
           TurnPlaces(row, o, lo, kept, off)
    PROVE  TurnsKept(row, lo, Len(kept))
<1>. DEFINE c == Len(kept)
            R == (lo + 1)..(lo + c)
<1>1. ASSUME NEW t \in Kept(row) PROVE \E k \in 1..c : t = lo + k
  <2>1. PICK p \in 1..Len(row.ids) : t = row.ids[p].turn /\ t # 0
    BY DEF Kept
  <2>2. \E k \in 1..c : \E i \in 1..PartSize(kept, k) : p = PartFrom(o, off, k) + i
    BY <2>1 DEF TurnPlaces
  <2>3. PICK k \in 1..c : \E i \in 1..PartSize(kept, k) : p = PartFrom(o, off, k) + i
    BY <2>2
  <2>4. PICK i \in 1..PartSize(kept, k) : p = PartFrom(o, off, k) + i
    BY <2>3
  <2>5. row.ids[PartFrom(o, off, k) + i].turn = lo + k
    BY <2>4 DEF TurnPlaces
  <2>. QED
    BY <2>1, <2>4, <2>5
<1>2. ASSUME NEW t \in R PROVE t \in Kept(row)
  <2>. DEFINE k == t - lo
              p == PartFrom(o, off, k) + 1
  <2>1. k \in 1..c /\ t = lo + k /\ t # 0
    BY Len(kept) \in Nat
  <2>. HIDE DEF k
  <2>2. /\ PartFrom(o, off, k) \in Nat /\ PartSize(kept, k) \in Nat /\ PartSize(kept, k) # 0
        /\ PartFrom(o, off, k) + PartSize(kept, k) <= Len(row.ids)
        /\ \A i \in 1..PartSize(kept, k) : row.ids[PartFrom(o, off, k) + i].turn = lo + k
    BY <2>1 DEF TurnPlaces
  <2>3. 1 \in 1..PartSize(kept, k) /\ p \in 1..Len(row.ids)
    BY <2>2
  <2>4. row.ids[p].turn = t
    BY <2>1, <2>2, <2>3
  <2>. HIDE DEF p
  <2>. QED
    BY <2>1, <2>3, <2>4 DEF Kept
<1>3. ASSUME NEW t \in Kept(row) PROVE t \in R
  <2>1. PICK k \in 1..c : t = lo + k
    BY <1>1
  <2>. QED
    BY <2>1
<1>4. Kept(row) = R
  <2>. HIDE DEF R
  <2>. QED
    BY <1>2, <1>3
<1>5. Cardinality(R) = c
  <2>1. c \in Nat
    OBVIOUS
  <2>. HIDE DEF c
  <2>. QED
    BY <2>1, RunSize
<1>. QED
  BY <1>1, <1>4, <1>5 DEF TurnsKept

\* The tokens of the k-th turn are those of its prompt, and then those of its response.
LEMMA TurnSlice ==
    ASSUME NEW row, NEW o, o.prefix \in Nat, NEW lo \in Nat, NEW kept, NEW off,
           Encoded(row, o, lo, kept, off), NEW k \in 1..Len(kept)
    PROVE  KeptInOrder(row, lo + k)
<1>. DEFINE L == Len(row.ids)
            F == PartFrom(o, off, k)
            x == kept[k].source
            y == kept[k].target
            t == lo + k
            a == Ids(t, "source", x)
            b == Ids(t, "target", y)
            u == SubSeq(row.ids, F + 1, F + x + y)
<1>0. TurnPlaces(row, o, lo, kept, off) /\ Numbers(row, o, kept, off)
  BY TurnPlacesAre, EncodedNumbers
<1>1. DOMAIN row.ids = 1..L /\ L \in Nat /\ row.ids \in Seq(TokenSet) /\ Len(kept) \in Nat
  <2>1. row.ids \in Seq(TokenSet)
    BY DEF Encoded
  <2>. QED
    BY <1>0, <2>1, LenProperties DEF Numbers
<1>2. TurnAtPlaces(row, o, lo, kept, off, k)
  BY <1>0, <1>1, TokensOfTurn
<1>3. F \in Nat /\ x \in Nat /\ y \in Nat /\ x # 0 /\ t \in Nat /\ t # 0
  <2>1. F \in Nat
    BY <1>0 DEF TurnPlaces
  <2>2. x \in Nat /\ y \in Nat /\ x # 0
    BY <1>0 DEF Numbers
  <2>3. t \in Nat /\ t # 0
    BY <1>1
  <2>. QED
    BY <2>1, <2>2, <2>3
<1>4. F + (x + y) <= L /\ TokensOf(row, t) = (F + 1)..(F + (x + y))
  <2>1. PartSize(kept, k) = x + y
    BY DEF PartSize
  <2>. QED
    BY <1>0, <1>2, <2>1 DEF TurnPlaces, TurnAtPlaces
<1>5. ASSUME NEW j \in 1..x PROVE row.ids[F + j] = Token(t, "source", j)
  <2>. DEFINE p == F + j
              A == PartsFrom(o.prefix, o)
              B == off[k - 1]
  <2>1. A \in Nat /\ B \in Nat /\ F = A + B
    BY <1>0 DEF Numbers, PartFrom
  <2>2. p = A + (B + j)
    <3>. HIDE DEF A, B, F
    <3>. QED
      BY <1>3, <2>1
  <2>3. PromptAt(o, kept, off, p, k, j)
    BY <2>2 DEF PromptAt
  <2>. HIDE DEF p
  <2>4. PromptIs(row, o, lo, kept, p, k, j)
    BY <2>3, PromptHolds
  <2>. QED
    BY <2>4 DEF PromptIs, p
<1>6. ASSUME NEW j \in 1..y PROVE row.ids[F + (x + j)] = Token(t, "target", j)
  <2>. DEFINE p == F + (x + j)
              A == PartsFrom(o.prefix, o)
              B == off[k - 1]
  <2>1. A \in Nat /\ B \in Nat /\ F = A + B
    BY <1>0 DEF Numbers, PartFrom
  <2>2. p = A + (B + (x + j))
    <3>. HIDE DEF A, B, F, x, y
    <3>. QED
      BY <1>3, <2>1
  <2>3. ResponseAt(o, kept, off, p, k, j)
    BY <2>2 DEF ResponseAt
  <2>. HIDE DEF p
  <2>4. ResponseIs(row, o, lo, kept, p, k, j)
    BY <2>3, ResponseHolds
  <2>. QED
    BY <2>4 DEF ResponseIs, p
<1>. HIDE DEF F, x, y, t, L
<1>7. /\ a \in Seq(TokenSet) /\ Len(a) = x /\ \A j \in 1..x : a[j] = Token(t, "source", j)
      /\ b \in Seq(TokenSet) /\ Len(b) = y /\ \A j \in 1..y : b[j] = Token(t, "target", j)
  BY <1>3, IdsAre
<1>. DEFINE d == a \o b
            z == x + y
<1>8. /\ d \in Seq(TokenSet) /\ Len(d) = z
      /\ \A j \in 1..x : d[j] = a[j]
      /\ \A j \in 1..y : d[x + j] = b[j]
  <2>. HIDE DEF a, b
  <2>1. a \o b \in Seq(TokenSet) /\ Joins(a, b, a \o b)
    BY <1>7, JoinsConcat, JoinedAt
  <2>. QED
    BY <1>7, <2>1 DEF Joins
<1>9. z \in Nat /\ F + z <= Len(row.ids) /\ F + x + y = F + z
  BY <1>3, <1>4 DEF L
<1>. HIDE DEF d, a, b
<1>10. u = SubSeq(row.ids, F + 1, F + z)
  BY <1>9
<1>. HIDE DEF u, z
<1>11. u \in Seq(TokenSet) /\ IsSlice(u, row.ids, F, z)
  BY <1>1, <1>3, <1>9, <1>10, SliceOf
<1>12. ASSUME NEW i \in 1..z PROVE u[i] = d[i]
  <2>1. u[i] = row.ids[F + i]
    BY <1>11 DEF IsSlice
  <2>2. CASE i <= x
    <3>1. i \in 1..x
      BY <1>3, <1>9, <2>2
    <3>. QED
      BY <1>5, <1>7, <1>8, <2>1, <3>1
  <2>3. CASE ~(i <= x)
    <3>. DEFINE j == i - x
    <3>1. j \in 1..y /\ i = x + j
      BY <1>3, <2>3 DEF z
    <3>. HIDE DEF j
    <3>2. d[i] = b[j] /\ row.ids[F + i] = Token(t, "target", j) /\ b[j] = Token(t, "target", j)
      BY <1>6, <1>7, <1>8, <3>1
    <3>. QED
      BY <2>1, <3>2
  <2>. QED
    BY <2>2, <2>3
<1>13. u = d
  BY <1>8, <1>11, <1>12, SeqEqual DEF IsSlice
<1>14. /\ F \in 0..L /\ x \in 0..L /\ y \in 0..L /\ x > 0
       /\ TokensOf(row, t) = (F + 1)..(F + x + y)
       /\ SubSeq(row.ids, F + 1, F + x + y) = Ids(t, "source", x) \o Ids(t, "target", y)
  <2>1. F \in 0..L /\ x \in 0..L /\ y \in 0..L /\ x > 0
    BY <1>1, <1>3, <1>4
  <2>2. F + (x + y) = F + x + y
    BY <1>3
  <2>3. u = SubSeq(row.ids, F + 1, F + x + y) /\ d = Ids(t, "source", x) \o Ids(t, "target", y)
    BY DEF u, d, a, b
  <2>. QED
    BY <1>4, <1>13, <2>1, <2>2, <2>3
<1>15. KeptInOrder(row, t)
  BY <1>14 DEF KeptInOrder, L
<1>. QED
  BY <1>15 DEF t

\* A row stays within cutoff_len, unless what it begins with is longer.
LEMMA RowLength ==
    ASSUME NEW ts, NEW o, o.prefix \in Nat, o.cutoff \in Nat, NEW row, NEW lo, NEW kept, NEW off,
           RowOf(ts, o, row, lo, kept, off)
    PROVE  Len(row.ids) <= Max({o.cutoff, Cardinality(TokensOf(row, 0))})
<1>. DEFINE L == Len(row.ids)
            T == TokensOf(row, 0)
            m == Cardinality(T)
            used == o.prefix + Len(EosIds(o))
            top == Max({o.cutoff, m})
<1>1. /\ Encoded(row, o, lo, kept, off) /\ lo \in Nat
      /\ IF used >= o.cutoff THEN Len(kept) = 0 ELSE used + off[Len(kept)] <= o.cutoff
  BY DEF RowOf
<1>2. Numbers(row, o, kept, off) /\ TurnPlaces(row, o, lo, kept, off)
  BY <1>1, EncodedNumbers, TurnPlacesAre
<1>3. L \in Nat /\ DOMAIN row.ids = 1..L
  <2>1. row.ids \in Seq(TokenSet)
    BY <1>1 DEF Encoded
  <2>. QED
    BY <2>1, LenProperties
<1>4. T \subseteq 1..L /\ IsFiniteSet(1..L) /\ Cardinality(1..L) = L
  <2>1. T \subseteq 1..L
    BY <1>3 DEF TokensOf
  <2>2. IsFiniteSet(1..L) /\ Cardinality(1..L) = L
    <3>. HIDE DEF L
    <3>1. 0 \in Nat /\ L \in Nat /\ 0 + 1 = 1 /\ 0 + L = L
      BY <1>3
    <3>2. IsFiniteSet((0 + 1)..(0 + L)) /\ Cardinality((0 + 1)..(0 + L)) = L
      BY <3>1, RunSize
    <3>. QED
      BY <3>1, <3>2
  <2>. QED
    BY <2>1, <2>2
<1>5. m \in Nat
  <2>1. IsFiniteSet(T)
    BY <1>4, FS_Subset
  <2>. QED
    BY <2>1, FS_CardinalityType
<1>6. top >= o.cutoff /\ top >= m
  <2>. DEFINE q == o.cutoff
  <2>1. q \in Int /\ m \in Int
    BY <1>5
  <2>. HIDE DEF m, q
  <2>2. Max({q, m}) = IF q >= m THEN q ELSE m
    BY <2>1, MaxOfTwo
  <2>3. Max({q, m}) >= q /\ Max({q, m}) >= m
    BY <2>1, <2>2
  <2>. QED
    BY <2>3 DEF q
<1>7. CASE used >= o.cutoff
  <2>1. Len(kept) = 0
    BY <1>1, <1>7
  <2>2. \A k : k \notin 1..Len(kept)
    BY <2>1
  <2>3. \A p \in 1..L : row.ids[p].turn = 0
    BY <1>2, <2>2 DEF TurnPlaces
  <2>4. T = 1..L
    BY <1>3, <2>3 DEF TokensOf
  <2>5. m = L
    BY <1>4, <2>4
  <2>. QED
    BY <1>6, <2>5
<1>8. CASE ~(used >= o.cutoff)
  <2>1. used + off[Len(kept)] <= o.cutoff
    BY <1>1, <1>8
  <2>. DEFINE d == off[Len(kept)]
              e == Len(EosIds(o))
              P == o.prefix
  <2>2. d \in Nat /\ e \in Nat /\ P \in Nat /\ L = d + P + e /\ P + e + d <= o.cutoff
    <3>1. Len(kept) \in 0..Len(kept)
      BY <1>2 DEF Numbers
    <3>. QED
      BY <1>2, <2>1, <3>1 DEF Numbers
  <2>. HIDE DEF d, e, P
  <2>3. L <= o.cutoff
    BY <2>2
  <2>4. top \in Int
    <3>. DEFINE q == o.cutoff
    <3>1. q \in Int /\ m \in Int
      BY <1>5
    <3>. HIDE DEF m, q
    <3>2. Max({q, m}) = IF q >= m THEN q ELSE m
      BY <3>1, MaxOfTwo
    <3>3. Max({q, m}) \in Int
      BY <3>1, <3>2
    <3>. QED
      BY <3>3 DEF q
  <2>. QED
    <3>1. L <= top
      <4>. HIDE DEF L, top
      <4>. QED
        BY <1>3, <1>6, <2>3, <2>4
    <3>. QED
      BY <3>1
<1>. QED
  BY <1>7, <1>8

\* Turns stand in their order.
LEMMA TurnsInOrder ==
    ASSUME NEW row, DOMAIN row.ids = 1..Len(row.ids), Len(row.ids) \in Nat,
           NEW o, NEW lo \in Nat, NEW kept, Len(kept) \in Nat, NEW off,
           TurnPlaces(row, o, lo, kept, off),
           NEW i \in 1..Len(row.ids), NEW j \in 1..Len(row.ids), i < j,
           row.ids[i].turn # 0, row.ids[j].turn # 0
    PROVE  row.ids[i].turn <= row.ids[j].turn
<1>1. ASSUME NEW p \in 1..Len(row.ids), row.ids[p].turn # 0
      PROVE  \E k \in 1..Len(kept) :
                /\ row.ids[p].turn = lo + k
                /\ p > PartFrom(o, off, k) /\ p <= PartFrom(o, off, k) + PartSize(kept, k)
  <2>1. \E k \in 1..Len(kept) : \E q \in 1..PartSize(kept, k) : p = PartFrom(o, off, k) + q
    BY <1>1 DEF TurnPlaces
  <2>2. PICK k \in 1..Len(kept) : \E q \in 1..PartSize(kept, k) : p = PartFrom(o, off, k) + q
    BY <2>1
  <2>3. PICK q \in 1..PartSize(kept, k) : p = PartFrom(o, off, k) + q
    BY <2>2
  <2>4. row.ids[PartFrom(o, off, k) + q].turn = lo + k /\ PartFrom(o, off, k) \in Nat
        /\ PartSize(kept, k) \in Nat
    BY <2>3 DEF TurnPlaces
  <2>5. p > PartFrom(o, off, k) /\ p <= PartFrom(o, off, k) + PartSize(kept, k)
    BY <2>3, <2>4
  <2>. QED
    BY <2>3, <2>4, <2>5
<1>2. PICK k \in 1..Len(kept) :
            /\ row.ids[i].turn = lo + k
            /\ i > PartFrom(o, off, k) /\ i <= PartFrom(o, off, k) + PartSize(kept, k)
  BY <1>1
<1>3. PICK l \in 1..Len(kept) :
            /\ row.ids[j].turn = lo + l
            /\ j > PartFrom(o, off, l) /\ j <= PartFrom(o, off, l) + PartSize(kept, l)
  BY <1>1
<1>4. ~(l < k)
  <2>1. SUFFICES ASSUME l < k PROVE FALSE
    OBVIOUS
  <2>2. PartFrom(o, off, l) + PartSize(kept, l) <= PartFrom(o, off, k)
    BY <2>1 DEF TurnPlaces
  <2>3. PartFrom(o, off, l) \in Nat /\ PartSize(kept, l) \in Nat /\ PartFrom(o, off, k) \in Nat
    BY DEF TurnPlaces
  <2>. QED
    BY <1>2, <1>3, <2>2, <2>3
<1>. QED
  BY <1>2, <1>3, <1>4

\* Nothing was cut while there was room.
LEMMA NothingCut ==
    ASSUME NEW ts, NEW o, o.prefix \in Nat, o.cutoff \in Nat, NEW row, NEW lo, NEW kept, NEW off,
           RowOf(ts, o, row, lo, kept, off), ~(Len(row.ids) >= o.cutoff), NEW t \in 1..Len(ts),
           ts[t].source \in Nat, ts[t].target \in Nat
    PROVE  Cardinality(TokensOf(row, t)) = ts[t].source + ts[t].target
<1>. DEFINE n == Len(ts)
            L == Len(row.ids)
<1>1. /\ Encoded(row, o, lo, kept, off) /\ lo \in Nat /\ lo = LeftOut(n, Len(kept), o)
      /\ n \in Nat
      /\ o.prefix + Len(EosIds(o)) + off[Len(kept)] < o.cutoff =>
            Len(kept) = n /\ \A k \in 1..n : Whole(kept[k], ts[k])
  BY DEF RowOf
<1>2. Numbers(row, o, kept, off) /\ TurnPlaces(row, o, lo, kept, off)
  BY <1>1, EncodedNumbers, TurnPlacesAre
<1>3. L \in Nat /\ DOMAIN row.ids = 1..L
  <2>1. row.ids \in Seq(TokenSet)
    BY <1>1 DEF Encoded
  <2>. QED
    BY <2>1, LenProperties
<1>4. o.prefix + Len(EosIds(o)) + off[Len(kept)] < o.cutoff
  <2>. DEFINE d == off[Len(kept)]
              e == Len(EosIds(o))
              P == o.prefix
              q == o.cutoff
  <2>1. d \in Nat /\ e \in Nat /\ P \in Nat /\ L = d + P + e /\ q \in Nat /\ ~(L >= q)
    <3>1. Len(kept) \in 0..Len(kept)
      BY <1>2 DEF Numbers
    <3>. QED
      BY <1>2, <3>1 DEF Numbers
  <2>. HIDE DEF d, e, P, L, q
  <2>2. P + e + d < q
    BY <2>1
  <2>. QED
    BY <2>2 DEF P, e, d, q
<1>5. Len(kept) = n /\ Whole(kept[t], ts[t])
  BY <1>1, <1>4
<1>6. lo = 0
  BY <1>1, <1>5 DEF LeftOut
<1>7. TurnAtPlaces(row, o, lo, kept, off, t)
  <2>1. t \in 1..Len(kept) /\ Len(kept) \in Nat
    BY <1>1, <1>5
  <2>. QED
    BY <1>1, <1>2, <1>3, <2>1, TokensOfTurn
<1>8. PartFrom(o, off, t) \in Nat /\ PartSize(kept, t) \in Nat
  BY <1>2, <1>5 DEF TurnPlaces
<1>9. TokensOf(row, t) = (PartFrom(o, off, t) + 1)..(PartFrom(o, off, t) + PartSize(kept, t))
  <2>1. lo + t = t
    BY <1>6
  <2>. QED
    BY <1>7, <2>1 DEF TurnAtPlaces
<1>10. Cardinality(TokensOf(row, t)) = PartSize(kept, t)
  BY <1>8, <1>9, RunSize
<1>11. PartSize(kept, t) = ts[t].source + ts[t].target
  BY <1>5 DEF PartSize, Whole
<1>. QED
  BY <1>10, <1>11

\* A row is a run of the turns that stays within cutoff_len.
LEMMA RowIsCut ==
    ASSUME NEW ts \in Seq(Turn), turns = ts, NEW o, o.prefix \in Nat, o.cutoff \in Nat,
           NEW row, NEW lo, NEW kept, NEW off, RowOf(ts, o, row, lo, kept, off)
    PROVE  CutToFit(row, o)
<1>. DEFINE L == Len(row.ids)
            c == Len(kept)
            n == Len(ts)
            C == Cardinality(Kept(row))
<1>1. /\ Encoded(row, o, lo, kept, off) /\ lo \in Nat /\ lo = LeftOut(n, c, o)
      /\ n \in Nat /\ c \in 0..n
  BY DEF RowOf
<1>2. TurnPlaces(row, o, lo, kept, off)
  BY <1>1, TurnPlacesAre
<1>3. L \in Nat /\ DOMAIN row.ids = 1..L /\ c \in Nat
  <2>1. row.ids \in Seq(TokenSet)
    BY <1>1 DEF Encoded
  <2>. QED
    BY <1>1, <2>1, LenProperties
<1>4. L <= Max({o.cutoff, Cardinality(TokensOf(row, 0))})
  BY RowLength
<1>5. ASSUME NEW i \in DOMAIN row.ids, NEW j \in DOMAIN row.ids, i < j,
             0 \notin {row.ids[i].turn, row.ids[j].turn}
      PROVE  row.ids[i].turn <= row.ids[j].turn
  <2>1. i \in 1..L /\ j \in 1..L /\ row.ids[i].turn # 0 /\ row.ids[j].turn # 0
    BY <1>3, <1>5
  <2>. QED
    BY <1>1, <1>2, <1>3, <1>5, <2>1, TurnsInOrder
<1>6. /\ \A t \in Kept(row) : \E k \in 1..c : t = lo + k
      /\ Kept(row) = (lo + 1)..(lo + c) /\ C = c
  <2>1. DOMAIN row.ids = 1..Len(row.ids) /\ Len(row.ids) \in Nat /\ Len(kept) \in Nat /\ lo \in Nat
    BY <1>1, <1>3
  <2>2. TurnsKept(row, lo, Len(kept))
    <3>. HIDE DEF L, c, n, C
    <3>. QED
      BY ONLY <1>2, <2>1, KeptTurns
  <2>. QED
    BY <2>2 DEF TurnsKept
<1>7. ASSUME NEW t \in Kept(row) PROVE KeptInOrder(row, t)
  <2>1. PICK k \in 1..c : t = lo + k
    BY <1>6
  <2>2. KeptInOrder(row, lo + k)
    BY <1>1, TurnSlice
  <2>. QED
    BY <2>1, <2>2
<1>8. Kept(row) = IF o.mask_history THEN (n + 1 - C)..n ELSE 1..C
  <2>1. CASE o.mask_history
    <3>1. lo = n - c
      BY <1>1, <2>1 DEF LeftOut
    <3>2. lo + 1 = n + 1 - c /\ lo + c = n
      BY <1>1, <1>3, <3>1
    <3>. QED
      BY <1>6, <2>1, <3>2
  <2>2. CASE ~o.mask_history
    <3>1. lo = 0
      BY <1>1, <2>2 DEF LeftOut
    <3>2. lo + 1 = 1 /\ lo + c = c
      BY <1>3, <3>1
    <3>. QED
      BY <1>6, <2>2, <3>2
  <2>. QED
    BY <2>1, <2>2
<1>9. ASSUME NEW t \in DOMAIN turns,
             Cardinality(TokensOf(row, t)) < turns[t].source + turns[t].target
      PROVE  L >= o.cutoff
  <2>1. t \in 1..n /\ turns[t] = ts[t]
    BY LenProperties
  <2>2. ts[t] \in Turn
    BY <2>1, ElementOfSeq
  <2>3. ts[t].source \in Nat /\ ts[t].target \in Nat
    BY <2>2 DEF Turn
  <2>4. ~(ts[t].source + ts[t].target < ts[t].source + ts[t].target)
    BY <2>3
  <2>5. ~(L >= o.cutoff) => Cardinality(TokensOf(row, t)) = ts[t].source + ts[t].target
    BY <2>1, <2>3, NothingCut
  <2>. QED
    BY <1>9, <2>1, <2>4, <2>5
<1>. HIDE DEF C
<1>10. /\ Len(row.ids) <= Max({o.cutoff, Cardinality(TokensOf(row, 0))})
       /\ \A i, j \in DOMAIN row.ids :
             i < j /\ 0 \notin {row.ids[i].turn, row.ids[j].turn} =>
                row.ids[i].turn <= row.ids[j].turn
       /\ \A t \in Kept(row) : KeptInOrder(row, t)
       /\ Kept(row) = IF o.mask_history THEN (Len(turns) + 1 - C)..Len(turns) ELSE 1..C
       /\ (\E t \in DOMAIN turns :
             Cardinality(TokensOf(row, t)) < turns[t].source + turns[t].target) =>
                Len(row.ids) >= o.cutoff
  BY <1>4, <1>5, <1>7, <1>8, <1>9
<1>. QED
  BY <1>10 DEF CutToFit, C

\* Whatever the options, the prefix and cutoff_len, a conversation is labelled and cut so.
LEMMA EncodeAny ==
    ASSUME NEW ts \in Seq(Turn), turns = ts, NEW o, o.prefix \in Nat, o.cutoff \in Nat
    PROVE  Labelled(Encode(ts, o), o) /\ CutToFit(Encode(ts, o), o)
<1>1. PICK off : RowOf(ts, o, Encode(ts, o), LowOf(ts, o), KeptOf(ts, o), off)
  BY RowExists
<1>. QED
  BY <1>1, RowLabelled, RowIsCut

\* So it is for the options that are checked.
LEMMA LabelsMatchAny ==
    ASSUME NEW ts \in Seq(Turn), turns = ts PROVE LabelsMatchTargets
<1>. SUFFICES ASSUME NEW o \in Options
              PROVE  Labelled(Encode(turns, o), o) /\ CutToFit(Encode(turns, o), o)
  BY DEF LabelsMatchTargets
<1>1. o.prefix \in Nat /\ o.cutoff \in Nat
  BY DEF Options
<1>. QED
  BY <1>1, EncodeAny
-----------------------------------------------------------------------------
(* Rows for supervised fine tuning: packed datasets. *)

\* Place p is that of token k of the i-th example of a sack, or behind them all.
InPart(lengths, sack, off, p, i, k) ==
    i \in 1..Len(sack) /\ k \in 1..lengths[sack[i]] /\ p = off[i - 1] + k
BehindAll(sack, off, p) == p > off[Len(sack)]

\* What is there.
TokenThere(row, sack, neat, off, p, i, k) ==
    /\ p \in DOMAIN row.ids /\ p <= off[Len(sack)]
    /\ row.ids[p] = <<sack[i], k>> /\ row.position_ids[p] = k - 1
    /\ row.attention_mask[p] = IF neat THEN i ELSE 1
PaddingThere(row, neat, p) ==
    row.ids[p] = PadToken /\ row.attention_mask[p] = IF neat THEN 0 ELSE 1

\* A row packed from a sack of different examples, of which none is empty.
PackedFrom(row, lengths, sack, cutoff, neat, off) ==
    /\ cutoff \in Nat /\ lengths \in Seq(Nat) /\ \A j \in 1..Len(lengths) : lengths[j] # 0
    /\ sack \in Seq(1..Len(lengths)) /\ Distinct(sack)
    /\ StepsBy(SizesOf(lengths, sack), off) /\ off[Len(sack)] <= cutoff
    /\ RowLaid(row, lengths, sack, cutoff, neat, off)

\* Its numbers.
SackNumbers(row, lengths, sack, cutoff, off) ==
    /\ Len(sack) \in Nat /\ DOMAIN sack = 1..Len(sack) /\ cutoff \in Nat
    /\ DOMAIN row.ids = 1..(cutoff + 1)
    /\ off[Len(sack)] \in Nat /\ off[Len(sack)] <= cutoff
    /\ \A i \in 1..Len(sack) :
          /\ sack[i] \in 1..Len(lengths) /\ sack[i] \in Nat /\ sack[i] # 0
          /\ lengths[sack[i]] \in Nat /\ lengths[sack[i]] # 0 /\ off[i - 1] \in Nat
          /\ off[i - 1] + lengths[sack[i]] <= off[Len(sack)]

\* They are what they should be.
LEMMA SackNumbersAre ==
    ASSUME NEW row, NEW lengths, NEW sack, NEW cutoff, NEW neat, NEW off,
           PackedFrom(row, lengths, sack, cutoff, neat, off)
    PROVE  SackNumbers(row, lengths, sack, cutoff, off)
<1>. DEFINE ls == SizesOf(lengths, sack)
            m == Len(sack)
<1>1. /\ cutoff \in Nat /\ lengths \in Seq(Nat) /\ \A j \in 1..Len(lengths) : lengths[j] # 0
      /\ sack \in Seq(1..Len(lengths)) /\ StepsBy(ls, off) /\ off[m] <= cutoff
      /\ DOMAIN row.ids = 1..(cutoff + 1)
  BY DEF PackedFrom, RowLaid
<1>2. /\ ls \in Seq(Nat) /\ Len(ls) = m /\ m \in Nat /\ DOMAIN sack = 1..m
      /\ \A i \in 1..m : /\ sack[i] \in 1..Len(lengths) /\ sack[i] \in Nat /\ sack[i] # 0
                         /\ ls[i] = lengths[sack[i]] /\ lengths[sack[i]] \in Nat
  BY <1>1, SizesTyped
<1>. HIDE DEF ls, m
<1>3. /\ \A k, l \in 0..m : k <= l => off[k] <= off[l]
      /\ \A k \in 0..m : off[k] \in Nat
  BY <1>1, <1>2, StepsGrow
<1>4. \A k \in 1..m : off[k] = off[k - 1] + ls[k]
  BY <1>1, <1>2 DEF StepsBy
<1>5. ASSUME NEW i \in 1..m
      PROVE  off[i - 1] \in Nat /\ off[i - 1] + lengths[sack[i]] <= off[m]
  <2>1. i \in 0..m /\ i - 1 \in 0..m /\ m \in 0..m /\ i <= m
    BY <1>2
  <2>2. off[i - 1] \in Nat /\ off[i] <= off[m]
    BY <1>3, <2>1
  <2>3. off[i] = off[i - 1] + lengths[sack[i]]
    BY <1>2, <1>4
  <2>. QED
    BY <2>2, <2>3
<1>6. off[m] \in Nat
  <2>1. m \in 0..m
    BY <1>2
  <2>. QED
    BY <1>3, <2>1
<1>. QED
  BY <1>1, <1>2, <1>5, <1>6 DEF SackNumbers, m

\* Every place of a row is of one of these kinds.
LEMMA RowPlaces ==
    ASSUME NEW row, NEW lengths, NEW sack, NEW cutoff, NEW neat, NEW off,
           PackedFrom(row, lengths, sack, cutoff, neat, off), NEW p \in DOMAIN row.ids
    PROVE  (\E i, k : InPart(lengths, sack, off, p, i, k)) \/ BehindAll(sack, off, p)
<1>. DEFINE ls == SizesOf(lengths, sack)
            m == Len(sack)
<1>1. /\ lengths \in Seq(Nat) /\ sack \in Seq(1..Len(lengths)) /\ StepsBy(ls, off)
  BY DEF PackedFrom
<1>2. /\ ls \in Seq(Nat) /\ Len(ls) = m /\ \A i \in 1..m : ls[i] = lengths[sack[i]]
  BY <1>1, SizesTyped
<1>3. SackNumbers(row, lengths, sack, cutoff, off)
  BY SackNumbersAre
<1>4. SUFFICES ASSUME ~(p > off[m]) PROVE \E i, k : InPart(lengths, sack, off, p, i, k)
  BY DEF BehindAll
<1>5. p \in 1..off[m] /\ p \in Int
  BY <1>3, <1>4 DEF SackNumbers
<1>6. \E i \in 1..Len(ls) : p - off[i - 1] \in 1..ls[i]
  <2>1. p \in 1..off[Len(ls)]
    BY <1>2, <1>5
  <2>. HIDE DEF ls
  <2>. QED
    BY <1>1, <1>2, <2>1, StepsCover
<1>7. PICK i \in 1..m : p - off[i - 1] \in 1..ls[i]
  BY <1>2, <1>6
<1>8. off[i - 1] \in Nat
  BY <1>3 DEF SackNumbers
<1>. DEFINE a == off[i - 1]
            k == p - a
<1>9. k \in 1..lengths[sack[i]] /\ p = a + k
  <2>1. k \in 1..lengths[sack[i]]
    BY <1>2, <1>7
  <2>2. a \in Int
    BY <1>8
  <2>. HIDE DEF a
  <2>. QED
    BY <1>5, <2>1, <2>2
<1>10. InPart(lengths, sack, off, p, i, k)
  <2>. HIDE DEF k
  <2>. QED
    BY <1>9 DEF InPart
<1>. QED
  BY <1>10

\* A row has the tokens of an example there.
LEMMA PartHolds ==
    ASSUME NEW row, NEW lengths, NEW sack, NEW cutoff, NEW neat, NEW off,
           PackedFrom(row, lengths, sack, cutoff, neat, off),
           NEW p, NEW i, NEW k, InPart(lengths, sack, off, p, i, k)
    PROVE  TokenThere(row, sack, neat, off, p, i, k)
<1>1. i \in 1..Len(sack) /\ k \in 1..lengths[sack[i]] /\ p = off[i - 1] + k
  BY DEF InPart
<1>2. RowLaid(row, lengths, sack, cutoff, neat, off)
  BY DEF PackedFrom
<1>3. /\ row.ids[p] = <<sack[i], k>> /\ row.position_ids[p] = k - 1
      /\ row.attention_mask[p] = IF neat THEN i ELSE 1
  BY <1>1, <1>2 DEF RowLaid
<1>4. SackNumbers(row, lengths, sack, cutoff, off)
  BY SackNumbersAre
<1>. DEFINE a == off[i - 1]
            n == lengths[sack[i]]
            last == off[Len(sack)]
<1>5. /\ a \in Nat /\ n \in Nat /\ a + n <= last /\ last \in Nat /\ last <= cutoff /\ cutoff \in Nat
      /\ DOMAIN row.ids = 1..(cutoff + 1)
  BY <1>1, <1>4 DEF SackNumbers
<1>6. p = a + k /\ k \in 1..n
  BY <1>1
<1>. HIDE DEF a, n, last
<1>7. p \in DOMAIN row.ids /\ p <= last
  BY <1>5, <1>6
<1>. QED
  BY <1>3, <1>7 DEF TokenThere, last

\* Behind them a row is padded.
LEMMA PaddingHolds ==
    ASSUME NEW row, NEW lengths, NEW sack, NEW cutoff, NEW neat, NEW off,
           PackedFrom(row, lengths, sack, cutoff, neat, off),
           NEW p \in DOMAIN row.ids, BehindAll(sack, off, p)
    PROVE  PaddingThere(row, neat, p)
BY DEF PackedFrom, RowLaid, BehindAll, PaddingThere

\* Different examples are in different places, and of one example the later tokens in
\* later ones.
SameOrder(sack, p, i, k, q, j, l) ==
    (sack[i] = sack[j] => i = j) /\ (i = j => (q <= p <=> l <= k))

\* Tokens of one row are in this order.
LEMMA TokensInOrder ==
    ASSUME NEW row, NEW lengths, NEW sack, NEW cutoff, NEW neat, NEW off,
           PackedFrom(row, lengths, sack, cutoff, neat, off),
           NEW p, NEW i, NEW k, InPart(lengths, sack, off, p, i, k),
           NEW q, NEW j, NEW l, InPart(lengths, sack, off, q, j, l)
    PROVE  SameOrder(sack, p, i, k, q, j, l)
<1>1. i \in 1..Len(sack) /\ j \in 1..Len(sack) /\ k \in 1..lengths[sack[i]]
      /\ l \in 1..lengths[sack[j]] /\ p = off[i - 1] + k /\ q = off[j - 1] + l
  BY DEF InPart
<1>2. sack[i] = sack[j] => i = j
  BY <1>1 DEF PackedFrom, Distinct
<1>3. SackNumbers(row, lengths, sack, cutoff, off)
  BY SackNumbersAre
<1>4. lengths[sack[i]] \in Nat /\ lengths[sack[j]] \in Nat /\ off[i - 1] \in Nat
  BY <1>1, <1>3 DEF SackNumbers
<1>5. ASSUME i = j PROVE q <= p <=> l <= k
  <2>. DEFINE a == off[i - 1]
  <2>1. p = a + k /\ q = a + l /\ a \in Int /\ k \in Int /\ l \in Int
    BY <1>1, <1>4, <1>5
  <2>. HIDE DEF a
  <2>. QED
    BY <2>1
<1>. QED
  BY <1>2, <1>5 DEF SameOrder

\* What the row holds of the examples.
HoldsSack(row, lengths, sack, off) ==
    /\ ExamplesIn(row) = ToSet(sack)
    /\ Filled(row) = 1..off[Len(sack)]

\* That are the examples of its sack, and nothing else.
LEMMA SackHeld ==
    ASSUME NEW row, NEW lengths, NEW sack, NEW cutoff, NEW neat, NEW off,
           PackedFrom(row, lengths, sack, cutoff, neat, off)
    PROVE  HoldsSack(row, lengths, sack, off)
<1>. DEFINE last == off[Len(sack)]
<1>1. SackNumbers(row, lengths, sack, cutoff, off)
  BY SackNumbersAre
<1>2. /\ Len(sack) \in Nat /\ DOMAIN sack = 1..Len(sack) /\ DOMAIN row.ids = 1..(cutoff + 1)
      /\ last \in Nat /\ last <= cutoff /\ cutoff \in Nat
      /\ \A i \in 1..Len(sack) : /\ sack[i] \in Nat /\ sack[i] # 0 /\ lengths[sack[i]] \in Nat
                                 /\ lengths[sack[i]] # 0
  BY <1>1 DEF SackNumbers
<1>3. ASSUME NEW x \in ExamplesIn(row) PROVE x \in ToSet(sack)
  <2>1. x # 0 /\ \E p \in DOMAIN row.ids : x = row.ids[p][1]
    BY DEF ExamplesIn
  <2>2. PICK p \in DOMAIN row.ids : x = row.ids[p][1]
    BY <2>1
  <2>3. CASE \E i, k : InPart(lengths, sack, off, p, i, k)
    <3>1. PICK i, k : InPart(lengths, sack, off, p, i, k)
      BY <2>3
    <3>2. TokenThere(row, sack, neat, off, p, i, k)
      BY <3>1, PartHolds
    <3>3. row.ids[p] = <<sack[i], k>> /\ i \in 1..Len(sack)
      BY <3>1, <3>2 DEF TokenThere, InPart
    <3>4. x = sack[i]
      BY <2>2, <3>3
    <3>. QED
      BY <1>2, <3>3, <3>4 DEF ToSet
  <2>4. CASE BehindAll(sack, off, p)
    <3>1. PaddingThere(row, neat, p)
      BY <2>4, PaddingHolds
    <3>2. x = 0
      BY <2>2, <3>1 DEF PaddingThere, PadToken
    <3>. QED
      BY <2>1, <3>2
  <2>. QED
    BY <2>3, <2>4, RowPlaces
<1>4. ASSUME NEW x \in ToSet(sack) PROVE x \in ExamplesIn(row)
  <2>1. PICK i \in 1..Len(sack) : x = sack[i]
    BY <1>2 DEF ToSet
  <2>2. 1 \in 1..lengths[sack[i]] /\ x # 0
    BY <1>2, <2>1
  <2>. DEFINE p == off[i - 1] + 1
  <2>3. InPart(lengths, sack, off, p, i, 1)
    BY <2>2 DEF InPart
  <2>. HIDE DEF p
  <2>4. TokenThere(row, sack, neat, off, p, i, 1)
    BY <2>3, PartHolds
  <2>5. p \in DOMAIN row.ids /\ row.ids[p] = <<sack[i], 1>>
    BY <2>4 DEF TokenThere
  <2>6. row.ids[p][1] = x
    BY <2>1, <2>5
  <2>. QED
    BY <2>2, <2>5, <2>6 DEF ExamplesIn
<1>5. ASSUME NEW p \in Filled(row) PROVE p \in 1..last
  <2>1. p \in DOMAIN row.ids /\ row.ids[p] # PadToken
    BY DEF Filled
  <2>2. ~BehindAll(sack, off, p)
    BY <2>1, PaddingHolds DEF PaddingThere
  <2>. QED
    BY <1>2, <2>1, <2>2 DEF BehindAll
<1>6. ASSUME NEW p \in 1..last PROVE p \in Filled(row)
  <2>1. p \in DOMAIN row.ids
    <3>. HIDE DEF last
    <3>. QED
      BY <1>2
  <2>2. ~BehindAll(sack, off, p)
    BY <1>2 DEF BehindAll
  <2>3. PICK i, k : InPart(lengths, sack, off, p, i, k)
    BY <2>1, <2>2, RowPlaces
  <2>4. TokenThere(row, sack, neat, off, p, i, k)
    BY <2>3, PartHolds
  <2>5. row.ids[p] = <<sack[i], k>> /\ i \in 1..Len(sack)
    BY <2>3, <2>4 DEF TokenThere, InPart
  <2>6. row.ids[p] # PadToken
    BY <1>2, <2>5 DEF PadToken
  <2>. QED
    BY <2>1, <2>6 DEF Filled
<1>7. ExamplesIn(row) = ToSet(sack)
  BY <1>3, <1>4
<1>8. Filled(row) = 1..last
  BY <1>5, <1>6
<1>. QED
  BY <1>7, <1>8 DEF HoldsSack

\* An example is whole in its row.
LEMMA WholeInRow ==
    ASSUME NEW row, NEW lengths, NEW sack, NEW cutoff, NEW neat, NEW off,
           PackedFrom(row, lengths, sack, cutoff, neat, off)
    PROVE  WholeExamples(row, lengths, cutoff)
<1>1. SackNumbers(row, lengths, sack, cutoff, off)
  BY SackNumbersAre
<1>2. {Len(row.ids), Len(row.attention_mask), Len(row.position_ids)} = {cutoff + 1}
  BY DEF PackedFrom, RowLaid
<1>3. ASSUME NEW x \in ExamplesIn(row)
      PROVE  \E at \in 0 .. cutoff :
                /\ PlacesOf(row, x) = (at + 1) .. (at + lengths[x])
                /\ \A k \in 1 .. lengths[x] :
                      row.ids[at + k] = <<x, k>> /\ row.position_ids[at + k] = k - 1
  <2>1. x \in ToSet(sack)
    BY SackHeld DEF HoldsSack
  <2>2. PICK i \in 1..Len(sack) : x = sack[i]
    BY <1>1, <2>1 DEF SackNumbers, ToSet
  <2>. DEFINE a == off[i - 1]
              n == lengths[x]
              last == off[Len(sack)]
  <2>3. a \in Nat /\ n \in Nat /\ a + n <= last /\ last <= cutoff /\ cutoff \in Nat /\ last \in Nat
    BY <1>1, <2>2 DEF SackNumbers
  <2>4. ASSUME NEW k \in 1..n
        PROVE  /\ row.ids[a + k] = <<x, k>> /\ row.position_ids[a + k] = k - 1
               /\ a + k \in DOMAIN row.ids
    <3>. DEFINE p == a + k
    <3>1. InPart(lengths, sack, off, p, i, k)
      BY <2>2 DEF InPart
    <3>. HIDE DEF p
    <3>2. TokenThere(row, sack, neat, off, p, i, k)
      BY <3>1, PartHolds
    <3>3. row.ids[p] = <<sack[i], k>> /\ row.position_ids[p] = k - 1 /\ p \in DOMAIN row.ids
      BY <3>2 DEF TokenThere
    <3>. QED
      BY <2>2, <3>3 DEF p
  <2>5. ASSUME NEW p \in PlacesOf(row, x) PROVE p \in (a + 1)..(a + n)
    <3>1. p \in DOMAIN row.ids /\ row.ids[p][1] = x
      BY DEF PlacesOf
    <3>2. ~BehindAll(sack, off, p)
      <4>1. SUFFICES ASSUME BehindAll(sack, off, p) PROVE FALSE
        OBVIOUS
      <4>2. PaddingThere(row, neat, p)
        BY <3>1, <4>1, PaddingHolds
      <4>3. row.ids[p][1] = 0
        BY <4>2 DEF PaddingThere, PadToken
      <4>4. x # 0
        BY <1>1, <2>2 DEF SackNumbers
      <4>. QED
        BY <3>1, <4>3, <4>4
    <3>3. PICK j, l : InPart(lengths, sack, off, p, j, l)
      BY <3>1, <3>2, RowPlaces
    <3>4. TokenThere(row, sack, neat, off, p, j, l)
      BY <3>3, PartHolds
    <3>5. row.ids[p] = <<sack[j], l>>
      BY <3>4 DEF TokenThere
    <3>6. sack[j] = x
      BY <3>1, <3>5
    <3>7. j \in 1..Len(sack) /\ l \in 1..lengths[sack[j]] /\ p = off[j - 1] + l
      BY <3>3 DEF InPart
    <3>8. j = i
      BY <2>2, <3>6, <3>7 DEF PackedFrom, Distinct
    <3>9. l \in 1..n /\ p = a + l
      BY <2>2, <3>7, <3>8
    <3>. HIDE DEF a, n
    <3>. QED
      BY <2>3, <3>9
  <2>6. ASSUME NEW p \in (a + 1)..(a + n) PROVE p \in PlacesOf(row, x)
    <3>. DEFINE k == p - a
    <3>1. k \in 1..n /\ a + k = p
      <4>. HIDE DEF a, n
      <4>. QED
        BY <2>3
    <3>. HIDE DEF k
    <3>2. row.ids[a + k] = <<x, k>> /\ a + k \in DOMAIN row.ids
      BY <2>4, <3>1
    <3>3. row.ids[p] = <<x, k>> /\ p \in DOMAIN row.ids
      BY <3>1, <3>2
    <3>4. row.ids[p][1] = x
      BY <3>3
    <3>. QED
      BY <3>3, <3>4 DEF PlacesOf
  <2>7. PlacesOf(row, x) = (a + 1)..(a + n)
    <3>. DEFINE T == (a + 1)..(a + n)
    <3>1. \A p : p \in PlacesOf(row, x) <=> p \in T
      BY <2>5, <2>6
    <3>. HIDE DEF T
    <3>2. PlacesOf(row, x) = T
      BY <3>1
    <3>. QED
      BY <3>2 DEF T
  <2>8. a \in 0..cutoff
    <3>. HIDE DEF a, n, last
    <3>. QED
      BY <2>3
  <2>9. \A k \in 1..n : row.ids[a + k] = <<x, k>> /\ row.position_ids[a + k] = k - 1
    BY <2>4
  <2>10. /\ PlacesOf(row, x) = (a + 1) .. (a + lengths[x])
         /\ \A k \in 1 .. lengths[x] :
               row.ids[a + k] = <<x, k>> /\ row.position_ids[a + k] = k - 1
    BY <2>7, <2>9
  <2>. HIDE DEF a
  <2>. QED
    BY <2>8, <2>10
<1>. QED
  BY <1>2, <1>3 DEF WholeExamples

\* With neat packing a token sees the earlier ones of its own example.
LEMMA OwnExampleSeen ==
    ASSUME NEW row, NEW lengths, NEW sack, NEW cutoff, NEW off,
           PackedFrom(row, lengths, sack, cutoff, TRUE, off)
    PROVE  SeeOwnExample(row)
<1>1. SackNumbers(row, lengths, sack, cutoff, off)
  BY SackNumbersAre
<1>2. SUFFICES ASSUME NEW p \in DOMAIN row.ids, NEW q \in DOMAIN row.ids
               PROVE  Sees(row.attention_mask, p, q) <=>
                          /\ PadToken \notin {row.ids[p], row.ids[q]}
                          /\ row.ids[p][1] = row.ids[q][1] /\ row.ids[q][2] <= row.ids[p][2]
  BY DEF SeeOwnExample
<1>. DEFINE mp == row.attention_mask[p]
            mq == row.attention_mask[q]
            tp == row.ids[p]
            tq == row.ids[q]
<1>3. Sees(row.attention_mask, p, q) <=> mq = mp /\ mq # 0 /\ q <= p
  BY DEF Sees
<1>4. ASSUME NEW r \in DOMAIN row.ids, BehindAll(sack, off, r)
      PROVE  row.ids[r] = PadToken /\ row.attention_mask[r] = 0
  <2>1. PaddingThere(row, TRUE, r)
    BY <1>4, PaddingHolds
  <2>. QED
    BY <2>1 DEF PaddingThere
<1>5. ASSUME NEW r \in DOMAIN row.ids, NEW i, NEW k, InPart(lengths, sack, off, r, i, k)
      PROVE  /\ row.ids[r] = <<sack[i], k>> /\ row.attention_mask[r] = i
             /\ i # 0 /\ row.ids[r] # PadToken
  <2>1. TokenThere(row, sack, TRUE, off, r, i, k)
    BY <1>5, PartHolds
  <2>2. row.ids[r] = <<sack[i], k>> /\ row.attention_mask[r] = i /\ i \in 1..Len(sack)
    BY <1>5, <2>1 DEF TokenThere, InPart
  <2>3. i # 0 /\ sack[i] # 0
    BY <1>1, <2>2 DEF SackNumbers
  <2>. QED
    BY <2>2, <2>3 DEF PadToken
<1>6. CASE BehindAll(sack, off, q)
  <2>1. tq = PadToken /\ mq = 0
    BY <1>4, <1>6
  <2>. QED
    BY <1>3, <2>1
<1>7. CASE BehindAll(sack, off, p) /\ ~BehindAll(sack, off, q)
  <2>1. tp = PadToken /\ mp = 0
    BY <1>4, <1>7
  <2>2. PICK j, l : InPart(lengths, sack, off, q, j, l)
    BY <1>7, RowPlaces
  <2>3. mq # 0
    BY <1>5, <2>2
  <2>. QED
    BY <1>3, <2>1, <2>3
<1>8. CASE ~BehindAll(sack, off, p) /\ ~BehindAll(sack, off, q)
  <2>1. PICK i, k : InPart(lengths, sack, off, p, i, k)
    BY <1>8, RowPlaces
  <2>2. PICK j, l : InPart(lengths, sack, off, q, j, l)
    BY <1>8, RowPlaces
  <2>3. tp = <<sack[i], k>> /\ mp = i /\ tp # PadToken
    BY <1>5, <2>1
  <2>4. tq = <<sack[j], l>> /\ mq = j /\ j # 0 /\ tq # PadToken
    BY <1>5, <2>2
  <2>5. (sack[i] = sack[j] => i = j) /\ (i = j => (q <= p <=> l <= k))
    <3>1. SameOrder(sack, p, i, k, q, j, l)
      BY <2>1, <2>2, TokensInOrder
    <3>. QED
      BY <3>1 DEF SameOrder
  <2>6. tp[1] = sack[i] /\ tp[2] = k /\ tq[1] = sack[j] /\ tq[2] = l
    BY <2>3, <2>4
  <2>7. Sees(row.attention_mask, p, q) <=> j = i /\ q <= p
    BY <1>3, <2>3, <2>4
  <2>8. (/\ PadToken \notin {tp, tq}
         /\ tp[1] = tq[1] /\ tq[2] <= tp[2]) <=> sack[i] = sack[j] /\ l <= k
    <3>. HIDE DEF tp, tq
    <3>. QED
      BY <2>3, <2>4, <2>6
  <2>9. j = i /\ q <= p <=> sack[i] = sack[j] /\ l <= k
    BY <2>5
  <2>. QED
    BY <2>7, <2>8, <2>9
<1>. QED
  BY <1>6, <1>7, <1>8

\* Packing any lengths that fit in a row gives rows that each hold whole examples of
\* their own, kept apart.
LEMMA RowsArePacked ==
    ASSUME NEW cutoff \in Nat, NEW lengths \in Seq(1..cutoff), NEW neat \in BOOLEAN
    PROVE  PackedInRows(Packed(lengths, cutoff, neat), lengths, cutoff, neat)
<1>. DEFINE sacks == Examples(lengths, GreedyKnapsack(lengths, cutoff))
            m == Len(sacks)
            rows == Packed(lengths, cutoff, neat)
            size(s) == Sum(SizesOf(lengths, sacks[s]))
<1>1. SortedOut(lengths, cutoff, sacks)
  BY KnapsacksAre, ExamplesSortedOut
<1>2. m \in Nat /\ DOMAIN sacks = 1..m
  BY <1>1 DEF SortedOut
<1>3. rows = [s \in 1..m |-> PackedRow(lengths, sacks[s], cutoff, neat)]
  BY <1>2 DEF Packed
<1>4. DOMAIN rows = 1..m
  BY <1>3
<1>5. lengths \in Seq(Nat) /\ \A j \in 1..Len(lengths) : lengths[j] # 0
  <2>1. 1..cutoff \subseteq Nat
    OBVIOUS
  <2>2. \A j \in 1..Len(lengths) : lengths[j] \in 1..cutoff
    BY ElementOfSeq
  <2>. QED
    BY <2>1, <2>2, WiderSeq
<1>. HIDE DEF sacks, m, rows
<1>6. ASSUME NEW s \in 1..m
      PROVE  /\ ExamplesIn(rows[s]) = ToSet(sacks[s])
             /\ Cardinality(Filled(rows[s])) = size(s)
             /\ WholeExamples(rows[s], lengths, cutoff)
             /\ neat => SeeOwnExample(rows[s])
  <2>. DEFINE sack == sacks[s]
              row == rows[s]
              ls == SizesOf(lengths, sack)
  <2>1. /\ sack \in Seq(1..Len(lengths)) /\ Distinct(sack)
        /\ Sum(ls) \in Nat /\ Sum(ls) <= cutoff
    BY <1>1 DEF SortedOut, FittingSack, m
  <2>. HIDE DEF sack
  <2>2. ls \in Seq(Nat) /\ Len(ls) = Len(sack) /\ Len(sack) \in Nat
    BY <1>5, <2>1, SizesTyped
  <2>3. PICK off : StepsBy(ls, off) /\ off[Len(ls)] = Sum(ls)
    <3>. HIDE DEF ls
    <3>. QED
      BY <2>2, StepsExist
  <2>4. off[Len(sack)] = Sum(ls) /\ off[Len(sack)] <= cutoff
    BY <2>1, <2>2, <2>3
  <2>5. row = PackedRow(lengths, sack, cutoff, neat)
    BY <1>3 DEF sack
  <2>6. RowLaid(row, lengths, sack, cutoff, neat, off)
    <3>1. RowLaid(PackedRow(lengths, sack, cutoff, neat), lengths, sack, cutoff, neat, off)
      BY <1>5, <2>1, <2>3, <2>4, RowIsLaid
    <3>. QED
      BY <2>5, <3>1
  <2>. HIDE DEF row
  <2>7. PackedFrom(row, lengths, sack, cutoff, neat, off)
    BY <1>5, <2>1, <2>3, <2>4, <2>6 DEF PackedFrom
  <2>8. ExamplesIn(row) = ToSet(sack) /\ Filled(row) = 1..off[Len(sack)]
    <3>1. HoldsSack(row, lengths, sack, off)
      BY <2>7, SackHeld
    <3>. QED
      BY <3>1 DEF HoldsSack
  <2>9. Cardinality(Filled(row)) = Sum(ls)
    <3>. DEFINE w == Sum(ls)
    <3>1. w \in Nat /\ Filled(row) = 1..w
      BY <2>1, <2>4, <2>8
    <3>. HIDE DEF w
    <3>2. 0 \in Nat /\ 0 + 1 = 1 /\ 0 + w = w
      BY <3>1
    <3>3. Cardinality((0 + 1)..(0 + w)) = w
      BY <3>1, <3>2, RunSize
    <3>4. Cardinality(Filled(row)) = w
      BY <3>1, <3>2, <3>3
    <3>. QED
      BY <3>4 DEF w
  <2>10. WholeExamples(row, lengths, cutoff)
    BY <2>7, WholeInRow
  <2>11. ASSUME neat PROVE SeeOwnExample(row)
    <3>1. neat = TRUE
      BY <2>11
    <3>2. PackedFrom(row, lengths, sack, cutoff, TRUE, off)
      BY <2>7, <3>1
    <3>. QED
      BY <3>2, OwnExampleSeen
  <2>. QED
    BY <2>8, <2>9, <2>10, <2>11 DEF row, sack
<1>7. ASSUME NEW s \in 1..m, NEW r \in 1..m, s # r
      PROVE  /\ ExamplesIn(rows[s]) \cap ExamplesIn(rows[r]) = {}
             /\ Cardinality(Filled(rows[s])) + Cardinality(Filled(rows[r])) > cutoff
  <2>1. /\ ToSet(sacks[s]) \cap ToSet(sacks[r]) = {}
        /\ size(s) + size(r) > cutoff
    BY <1>1, <1>7 DEF SortedOut, m
  <2>. HIDE DEF size
  <2>. QED
    BY <1>6, <2>1
<1>8. UNION {ExamplesIn(rows[s]) : s \in DOMAIN rows} = DOMAIN lengths
  <2>. DEFINE U == UNION {ExamplesIn(rows[s]) : s \in 1..m}
  <2>1. DOMAIN lengths = 1..Len(lengths)
    BY LenProperties
  <2>2. ASSUME NEW x \in U PROVE x \in 1..Len(lengths)
    <3>1. PICK s \in 1..m : x \in ExamplesIn(rows[s])
      OBVIOUS
    <3>2. x \in ToSet(sacks[s])
      BY <1>6, <3>1
    <3>3. sacks[s] \in Seq(1..Len(lengths))
      BY <1>1 DEF SortedOut, FittingSack, m
    <3>. QED
      BY <3>2, <3>3, ElementsType
  <2>3. ASSUME NEW x \in 1..Len(lengths) PROVE x \in U
    <3>1. PICK s \in 1..m : x \in ToSet(sacks[s])
      BY <1>1 DEF SortedOut, m
    <3>2. x \in ExamplesIn(rows[s])
      BY <1>6, <3>1
    <3>. QED
      BY <3>2
  <2>4. U = 1..Len(lengths)
    <3>. HIDE DEF U
    <3>. QED
      BY <2>2, <2>3
  <2>. QED
    BY <1>4, <2>1, <2>4
<1>9. EachInOneRow(rows, lengths, cutoff)
  BY <1>4, <1>7, <1>8 DEF EachInOneRow
<1>10. PackedInRows(rows, lengths, cutoff, neat)
  BY <1>4, <1>6, <1>9 DEF PackedInRows
<1>. QED
  BY <1>10 DEF rows

\* How a dataset of single turns is encoded.
Plainly(cutoff) ==
    [cutoff |-> cutoff, efficient_eos |-> FALSE, prefix |-> 0, train_on_prompt |-> FALSE,
     mask_history |-> FALSE, short |-> {}]

\* A turn is encoded to a row that is not empty and fits.
LEMMA TurnFits ==
    ASSUME NEW cutoff \in Nat \ {0}, NEW ts \in Seq(Turn), Len(ts) = 1
    PROVE  Len(Encode(ts, Plainly(cutoff)).ids) \in 1..cutoff
<1>. DEFINE o == Plainly(cutoff)
            row == Encode(ts, o)
            kept == KeptOf(ts, o)
            lo == LowOf(ts, o)
            c == Len(kept)
<1>1. o.cutoff = cutoff /\ o.prefix = 0 /\ ~o.efficient_eos
  BY DEF Plainly
<1>2. EosIds(o) = <<>> /\ Len(EosIds(o)) = 0
  <2>1. EosIds(o) = <<>>
    BY <1>1 DEF EosIds
  <2>. QED
    BY <2>1, EmptySeq
<1>. HIDE DEF o, row, kept, lo, c
<1>3. PICK off : RowOf(ts, o, row, lo, kept, off)
  <2>1. o.prefix \in Nat /\ o.cutoff \in Nat
    BY <1>1
  <2>. QED
    BY <2>1, RowExists DEF row, kept, lo
<1>4. /\ Encoded(row, o, lo, kept, off)
      /\ o.prefix + Len(EosIds(o)) + off[c] < o.cutoff => c = 1
      /\ IF o.prefix + Len(EosIds(o)) >= o.cutoff THEN c = 0
         ELSE o.prefix + Len(EosIds(o)) + off[c] <= o.cutoff
  BY <1>3 DEF RowOf, c
<1>5. Numbers(row, o, kept, off)
  <2>1. o.prefix \in Nat /\ lo \in Nat
    BY <1>1, <1>3 DEF RowOf
  <2>. QED
    BY <1>4, <2>1, EncodedNumbers
<1>6. /\ c \in Nat /\ off[0] = 0 /\ off[c] \in Nat
      /\ \A k \in 1..c : off[k] = off[k - 1] + (kept[k].source + kept[k].target)
      /\ \A k \in 1..c : kept[k].source \in Nat /\ kept[k].target \in Nat /\ kept[k].source # 0
      /\ \A k \in 1..c : off[k - 1] \in Nat
      /\ Len(row.ids) = off[c] + o.prefix + Len(EosIds(o))
  <2>1. c \in Nat
    BY <1>5 DEF Numbers, c
  <2>2. c \in 0..c
    BY <2>1
  <2>. QED
    BY <1>4, <1>5, <2>1, <2>2 DEF Numbers, Encoded, c
<1>. DEFINE d == off[c]
<1>7. d \in Nat /\ (d < cutoff => c = 1) /\ d <= cutoff /\ Len(row.ids) = d
  <2>1. 0 + 0 + off[c] = off[c] /\ off[c] + 0 + 0 = off[c]
    BY <1>6
  <2>2. 0 + 0 < cutoff
    OBVIOUS
  <2>. QED
    BY <1>1, <1>2, <1>4, <1>6, <2>1, <2>2
<1>8. d # 0
  <2>1. SUFFICES ASSUME d = 0 PROVE FALSE
    OBVIOUS
  <2>2. c = 1
    BY <1>7, <2>1
  <2>3. 1 \in 1..c /\ 1 - 1 = 0
    BY <2>2
  <2>4. off[1] = off[0] + (kept[1].source + kept[1].target)
        /\ kept[1].source \in Nat /\ kept[1].target \in Nat /\ kept[1].source # 0
    BY <1>6, <2>3
  <2>5. off[1] # 0
    BY <1>6, <2>4
  <2>. QED
    BY <2>1, <2>2, <2>5
<1>9. Len(row.ids) \in 1..cutoff
  <2>. HIDE DEF d
  <2>. QED
    BY <1>7, <1>8
<1>. QED
  BY <1>9 DEF row, o

\* So the examples of a dataset fit in rows.
LEMMA LengthsFit ==
    ASSUME NEW cutoff \in Nat \ {0}, NEW ts \in Seq(Turn), turns = ts
    PROVE  ExampleLengths(cutoff) \in Seq(1..cutoff)
<1>. DEFINE n == Len(ts)
            f == ExampleLengths(cutoff)
<1>1. n \in Nat /\ DOMAIN ts = 1..n /\ \A j \in 1..n : ts[j] \in Turn
  BY LenProperties, ElementOfSeq
<1>2. f = [j \in 1..n |-> Len(Encode(<<ts[j]>>, Plainly(cutoff)).ids)]
  BY <1>1 DEF ExampleLengths, Plainly
<1>3. ASSUME NEW j \in 1..n PROVE f[j] \in 1..cutoff
  <2>. DEFINE one == <<ts[j]>>
  <2>1. one \in Seq(Turn) /\ Len(one) = 1
    BY <1>1
  <2>. HIDE DEF one
  <2>2. Len(Encode(one, Plainly(cutoff)).ids) \in 1..cutoff
    BY <2>1, TurnFits
  <2>3. f[j] = Len(Encode(one, Plainly(cutoff)).ids)
    BY <1>2 DEF one
  <2>. QED
    BY <2>2, <2>3
<1>. DEFINE S == 1..cutoff
<1>. HIDE DEF f, n, S
<1>4. f \in [1..n -> S]
  BY <1>2, <1>3 DEF S
<1>5. f \in Seq(S)
  BY ONLY <1>1, <1>4, SeqDef
<1>. QED
  BY <1>5 DEF f, S

\* What is packed of any dataset.
LEMMA PackedAny ==
    ASSUME NEW ts \in Seq(Turn), turns = ts, NEW cutoff \in Nat \ {0}, NEW neat \in BOOLEAN
    PROVE  PackedInRows(Packed(ExampleLengths(cutoff), cutoff, neat),
                        ExampleLengths(cutoff), cutoff, neat)
BY LengthsFit, RowsArePacked

\* So it is of every dataset, in rows of the lengths that are checked.
LEMMA DatasetPacked ==
    ASSUME NEW ts \in Seq(Turn), turns = ts
    PROVE  PackedApart
<1>1. {4, 7, 10} \subseteq Nat \ {0}
  OBVIOUS
<1>2. ASSUME NEW cutoff \in {4, 7, 10}, NEW neat \in BOOLEAN
      PROVE  PackedInRows(Packed(ExampleLengths(cutoff), cutoff, neat),
                          ExampleLengths(cutoff), cutoff, neat)
  BY <1>1, PackedAny
<1>. QED
  BY <1>2 DEF PackedApart
-----------------------------------------------------------------------------
(* The inputs the runs reach, and the theorems about them. *)

\* A rollout as it may be added to a batch.
RolloutRecords ==
    [uid : {1, 2}, required : Required, used : Used, correct : BOOLEAN,
     ious : {{}, {6}, {One}}, codes : {0, 1, 3}, fmt : {One}]
\* A turn of a conversation: its prompt and its response.
Turns == [source : Sides, target : Sides]

\* The inputs made so far: lengths, rollouts, turns, and different trajectories of a
\* round.
Inputs ==
    /\ lens \in Seq(Length)
    /\ rollouts \in Seq(RolloutRecords)
    /\ turns \in Seq(Turns)
    /\ contexts \in Seq(Contexts)
    /\ \A i, j \in 1..Len(contexts) : contexts[i].id = contexts[j].id => i = j

\* Nothing is made at the beginning.
LEMMA InputsInit == AllInit => Inputs
<1>. SUFFICES ASSUME AllInit PROVE Inputs
  OBVIOUS
<1>1. lens = <<>> /\ rollouts = <<>> /\ turns = <<>> /\ contexts = <<>>
  BY DEF AllInit, Init
<1>. QED
  BY <1>1 DEF Inputs

\* A step makes one input longer: another trajectory than those already planned.
LEMMA InputsNext == Inputs /\ [AllNext]_vars => Inputs'
<1>. SUFFICES ASSUME Inputs, [AllNext]_vars PROVE Inputs'
  OBVIOUS
<1>. USE DEF Inputs
<1>1. CASE PlanOne /\ UNCHANGED <<lens, rollouts, turns>>
  <2>1. PICK c \in Contexts : c.id \notin Planned(contexts) /\ contexts' = Append(contexts, c)
    BY <1>1 DEF PlanOne
  <2>. DEFINE n == Len(contexts)
              s == Append(contexts, c)
  <2>2. n \in Nat /\ DOMAIN contexts = 1..n
    BY LenProperties
  <2>3. s \in Seq(Contexts) /\ Len(s) = n + 1 /\ s[n + 1] = c /\ \A i \in 1..n : s[i] = contexts[i]
    BY AppendProperties
  <2>4. \A i \in 1..n : contexts[i].id # c.id
    BY <2>1, <2>2 DEF Planned
  <2>. HIDE DEF s
  <2>5. ASSUME NEW i \in 1..(n + 1), NEW j \in 1..(n + 1), s[i].id = s[j].id PROVE i = j
    <3>. HIDE DEF n
    <3>1. i \in 1..n \/ i = n + 1
      BY <2>2
    <3>2. j \in 1..n \/ j = n + 1
      BY <2>2
    <3>3. CASE i \in 1..n /\ j \in 1..n
      BY <2>3, <2>5, <3>3 DEF n
    <3>4. CASE i \in 1..n /\ j = n + 1
      BY <2>3, <2>4, <2>5, <3>4
    <3>5. CASE i = n + 1 /\ j \in 1..n
      BY <2>3, <2>4, <2>5, <3>5
    <3>. QED
      BY <3>1, <3>2, <3>3, <3>4, <3>5
  <2>6. contexts' = s
    BY <2>1 DEF s
  <2>. HIDE DEF n
  <2>. QED
    BY <1>1, <2>3, <2>5, <2>6
<1>2. CASE AddRow /\ UNCHANGED <<contexts, rollouts, turns>>
  BY <1>2, AppendProperties DEF AddRow
<1>3. CASE AddRollout /\ UNCHANGED <<contexts, lens, turns>>
  <2>1. PICK r \in Rollouts(rollouts) : rollouts' = Append(rollouts, r)
    BY <1>3 DEF AddRollout
  <2>2. r \in RolloutRecords
    BY DEF Rollouts, RolloutRecords
  <2>. HIDE DEF RolloutRecords
  <2>. QED
    BY <1>3, <2>1, <2>2, AppendProperties
<1>4. CASE AddTurn /\ UNCHANGED <<contexts, lens, rollouts>>
  BY <1>4, AppendProperties DEF AddTurn, Turns
<1>5. CASE UNCHANGED vars
  BY <1>5 DEF vars
<1>. QED
  BY <1>1, <1>2, <1>3, <1>4, <1>5 DEF AllNext

\* Inputs is an invariant of the specification.
THEOREM InputsInvariant == AllSpec => []Inputs
BY InputsInit, InputsNext, PTL DEF AllSpec

\* The lengths are numbers.
LEMMA LengthsTyped == ASSUME Inputs PROVE lens \in Seq(Nat)
<1>1. lens \in Seq(Length) /\ Len(lens) \in Nat
  BY LenProperties DEF Inputs
<1>2. lens = [i \in 1..Len(lens) |-> lens[i]] /\ \A i \in 1..Len(lens) : lens[i] \in Nat
  BY <1>1, AlgorithmsAssumption
<1>. DEFINE n == Len(lens)
<1>3. n \in Nat /\ lens = [i \in 1..n |-> lens[i]] /\ \A i \in 1..n : lens[i] \in Nat
  BY <1>1, <1>2
<1>. HIDE DEF n
<1>. QED
  BY <1>3, SequenceOf

\* A set with one more member.
LEMMA OneMore ==
    ASSUME NEW S, NEW x, NEW m \in Nat, IsFiniteSet(S), Cardinality(S) <= m
    PROVE  IsFiniteSet(S \cup {x}) /\ Cardinality(S \cup {x}) <= m + 1
<1>1. Cardinality(S) \in Nat
  BY FS_CardinalityType
<1>2. CASE x \in S
  <2>. DEFINE T == S \cup {x}
  <2>1. T = S
    BY <1>2
  <2>. HIDE DEF T
  <2>2. IsFiniteSet(T)
    BY <2>1
  <2>3. Cardinality(T) = Cardinality(S)
    BY <2>1
  <2>4. Cardinality(T) <= m + 1
    BY <1>1, <2>3
  <2>. QED
    BY <2>2, <2>4 DEF T
<1>3. CASE x \notin S
  <2>1. IsFiniteSet(S \cup {x}) /\ Cardinality(S \cup {x}) = Cardinality(S) + 1
    BY <1>3, FS_AddElement
  <2>. QED
    BY <1>1, <2>1
<1>. QED
  BY <1>2, <1>3

\* Small sets: of no member,
LEMMA NoneFinite == IsFiniteSet({}) /\ Cardinality({}) <= 0
<1>1. IsFiniteSet({}) /\ Cardinality({}) = 0
  BY FS_EmptySet
<1>. QED
  BY <1>1

\* of one,
LEMMA OneFinite ==
    ASSUME NEW x PROVE IsFiniteSet({x}) /\ Cardinality({x}) <= 1
<1>1. IsFiniteSet({x}) /\ Cardinality({x}) = 1
  BY FS_Singleton
<1>. QED
  BY <1>1

\* of two,
LEMMA TwoFinite ==
    ASSUME NEW x, NEW y PROVE IsFiniteSet({x, y}) /\ Cardinality({x, y}) <= 2
<1>1. {x, y} = {x} \cup {y}
  OBVIOUS
<1>. DEFINE S == {x}
<1>2. IsFiniteSet(S) /\ Cardinality(S) <= 1 /\ 1 \in Nat
  BY OneFinite
<1>. HIDE DEF S
<1>3. IsFiniteSet(S \cup {y}) /\ Cardinality(S \cup {y}) <= 1 + 1
  BY <1>2, OneMore
<1>4. {x, y} = S \cup {y}
  BY DEF S
<1>. QED
  BY <1>3, <1>4

\* and of three.
LEMMA ThreeFinite ==
    ASSUME NEW x, NEW y, NEW z PROVE IsFiniteSet({x, y, z}) /\ Cardinality({x, y, z}) <= 3
<1>. DEFINE S == {x, y}
<1>2. IsFiniteSet(S) /\ Cardinality(S) <= 2 /\ 2 \in Nat
  BY TwoFinite
<1>4. {x, y, z} = S \cup {z}
  OBVIOUS
<1>. HIDE DEF S
<1>3. IsFiniteSet(S \cup {z}) /\ Cardinality(S \cup {z}) <= 2 + 1
  BY <1>2, OneMore
<1>. QED
  BY <1>3, <1>4

\* At most four tools are required.
LEMMA RequiredFew ==
    ASSUME NEW S \in Required
    PROVE  IsFiniteSet(S) /\ Cardinality(S) <= 4
<1>1. \/ S = {} \/ S = {"crop"} \/ S = {"rotate_90"}
      \/ S = {"rotate_90", "crop"} \/ S = {"rotate_90", "flip_vertical", "crop"}
  BY DEF Required
<1>2. \/ IsFiniteSet(S) /\ Cardinality(S) <= 0
      \/ IsFiniteSet(S) /\ Cardinality(S) <= 1
      \/ IsFiniteSet(S) /\ Cardinality(S) <= 2
      \/ IsFiniteSet(S) /\ Cardinality(S) <= 3
  <2>1. CASE S = {}
    BY <2>1, NoneFinite
  <2>2. CASE S = {"crop"}
    BY <2>2, OneFinite
  <2>3. CASE S = {"rotate_90"}
    BY <2>3, OneFinite
  <2>4. CASE S = {"rotate_90", "crop"}
    BY <2>4, TwoFinite
  <2>5. CASE S = {"rotate_90", "flip_vertical", "crop"}
    BY <2>5, ThreeFinite
  <2>. QED
    BY <1>1, <2>1, <2>2, <2>3, <2>4, <2>5
<1>3. IsFiniteSet(S)
  BY <1>2
<1>4. Cardinality(S) \in Nat
  BY <1>3, FS_CardinalityType
<1>. QED
  BY <1>2, <1>3, <1>4

\* Finitely many are used.
LEMMA UsedFinite ==
    ASSUME NEW S \in Used
    PROVE  IsFiniteSet(S)
<1>1. \/ S = {} \/ S = {"rotate_270"} \/ S = {"rotate_90"} \/ S = {"crop"}
      \/ S = {"rotate_270", "crop"} \/ S = {"sharpen"}
  BY DEF Used
<1>2. CASE S = {}
  BY <1>2, NoneFinite
<1>3. CASE S = {"rotate_270", "crop"}
  BY <1>3, TwoFinite
<1>4. CASE S = {"rotate_270"}
  BY <1>4, OneFinite
<1>5. CASE S = {"rotate_90"}
  BY <1>5, OneFinite
<1>6. CASE S = {"crop"}
  BY <1>6, OneFinite
<1>7. CASE S = {"sharpen"}
  BY <1>7, OneFinite
<1>. QED
  BY <1>1, <1>2, <1>3, <1>4, <1>5, <1>6, <1>7

\* What is added is a rollout as the lemmas take it.
LEMMA RecordsAreRollouts ==
    ASSUME NEW r \in RolloutRecords
    PROVE  IsRollout(r)
<1>1. /\ r.required \in Required /\ r.used \in Used /\ r.correct \in BOOLEAN
      /\ r.ious \in {{}, {6}, {One}} /\ r.codes \in {0, 1, 3} /\ r.fmt \in {One}
      /\ r = [uid |-> r.uid, required |-> r.required, used |-> r.used, correct |-> r.correct,
              ious |-> r.ious, codes |-> r.codes, fmt |-> r.fmt]
  BY DEF RolloutRecords
<1>2. One = 120
  BY DEF One
<1>3. r.correct \in BOOLEAN /\ r.ious \subseteq 0..One /\ r.codes \in Nat /\ r.fmt \in Int
  BY <1>1, <1>2
<1>8. IsFiniteSet(r.required) /\ Cardinality(r.required) <= 4
  BY <1>1, RequiredFew
<1>9. IsFiniteSet(r.used)
  BY <1>1, UsedFinite
<1>. QED
  BY <1>1, <1>3, <1>8, <1>9 DEF IsRollout

\* The rollouts made so far are a batch.
LEMMA RolloutsAreBatch == ASSUME Inputs PROVE IsBatch(rollouts)
<1>1. rollouts \in Seq(RolloutRecords) /\ Len(rollouts) \in Nat /\ DOMAIN rollouts = 1..Len(rollouts)
  BY LenProperties DEF Inputs
<1>2. \A j \in DOMAIN rollouts : IsRollout(rollouts[j])
  BY <1>1, RecordsAreRollouts, ElementOfSeq
<1>3. IsFiniteSet(1..Len(rollouts))
  <2>. DEFINE n == Len(rollouts)
  <2>1. 1 \in Int /\ n \in Int
    BY <1>1
  <2>. HIDE DEF n
  <2>2. IsFiniteSet(1..n)
    BY <2>1, FS_Interval
  <2>. QED
    BY <2>2 DEF n
<1>. QED
  BY <1>1, <1>2, <1>3 DEF IsBatch

\* The trajectories planned so far are a round of paths of two places.
LEMMA ContextsAreRound == ASSUME Inputs PROVE IsRound(contexts, 2)
<1>1. /\ contexts \in Seq(Contexts) /\ DOMAIN contexts = 1..Len(contexts)
      /\ \A i, j \in 1..Len(contexts) : contexts[i].id = contexts[j].id => i = j
  BY LenProperties DEF Inputs
<1>2. ASSUME NEW c \in Contexts
      PROVE  c.id \in IdsOf(2) /\ c.score \in Int /\ Len(c.sugg) \in Nat
  <2>1. c.id \in Paths /\ c.score \in Score /\ c.sugg \in SuggestionLists
    BY DEF Contexts
  <2>2. c.score \in Int
    BY <2>1, SelectionListsAssumption
  <2>. DEFINE p == c.id
              t == c.sugg
  <2>3. p = [i \in 1..2 |-> p[i]] /\ \A i \in 1..2 : p[i] \in Nat
    BY <2>1, SelectionAssumption DEF Paths
  <2>4. PICK n \in 0..MaxSuggestions : t \in [1..n -> Suggestion]
    BY <2>1 DEF SuggestionLists
  <2>5. n \in Nat /\ t = [i \in 1..n |-> t[i]] /\ \A i \in 1..n : t[i] \in Suggestion
    BY <2>4, SelectionListsAssumption
  <2>. HIDE DEF p, t
  <2>6. 2 \in Nat
    OBVIOUS
  <2>7. p \in Seq(Nat) /\ Len(p) = 2
    BY <2>3, <2>6, SequenceOf
  <2>8. Len(t) = n
    BY <2>5, SequenceOf
  <2>. QED
    BY <2>2, <2>5, <2>7, <2>8 DEF IdsOf, p, t
<1>3. contexts \in Seq({contexts[i] : i \in 1..Len(contexts)})
  <2>1. ToSet(contexts) = {contexts[i] : i \in 1..Len(contexts)}
    BY <1>1 DEF ToSet
  <2>2. contexts \in Seq(ToSet(contexts))
    BY <1>1, ElementsType
  <2>. QED
    BY <2>1, <2>2
<1>4. \A i \in 1..Len(contexts) : contexts[i] \in Contexts
  BY <1>1, ElementOfSeq
<1>. QED
  BY <1>1, <1>2, <1>3, <1>4 DEF IsRound
-----------------------------------------------------------------------------
\* The list select_frontier_candidates returns is the ranking of FrontierSelection.
THEOREM ListIsRanking == AllSpec => []ListMatchesRanking
<1>1. ASSUME Inputs PROVE ListMatchesRanking
  <2>1. IsRound(contexts, 2) /\ 2 \in Nat
    BY <1>1, ContextsAreRound
  <2>2. /\ ToSet(SelectedList(contexts)) = SelectCandidates(contexts)
        /\ IsInjective(SelectedList(contexts))
        /\ InPlannersOrder(SelectedList(contexts))
    BY <2>1, ListOfRound
  <2>. QED
    BY <2>2 DEF ListMatchesRanking, InPlannersOrder
<1>2. Inputs => ListMatchesRanking
  BY <1>1
<1>. QED
  BY <1>2, InputsInvariant, PTL

\* get_seqlen_balanced_partitions and rearrange_micro_batches are sound for all
\* lengths, however many rows there are.
THEOREM Balancing == AllSpec => []BalancingIsSound
<1>1. Inputs => BalancingIsSound
  BY LengthsTyped, BalancingAny
<1>. QED
  BY <1>1, InputsInvariant, PTL

\* Every row stays with its prompt, its response and its log probabilities.
THEOREM RowsKept == AllSpec => []RowsKeepTheirPrompt
<1>1. MaxRows \in Nat
  BY AlgorithmsAssumption
<1>2. Inputs => RowsKeepTheirPrompt
  BY <1>1, LengthsTyped, RowsKeepAny
<1>. QED
  BY <1>2, InputsInvariant, PTL

\* All ranks make the same backward passes over every row once.
THEOREM InStepInvariant == AllSpec => []RanksInStep
<1>1. Inputs => RanksInStep
  BY LengthsTyped, RanksInStepAny
<1>. QED
  BY <1>1, InputsInvariant, PTL

\* A reward depends on the own group only, and the bonus on a witness.
THEOREM BonusEarned == AllSpec => []BonusIsEarned
<1>1. Inputs => BonusIsEarned
  BY RolloutsAreBatch, BonusIsEarnedAny
<1>. QED
  BY <1>1, InputsInvariant, PTL

\* A needed tool pays wherever its share of the reward has any weight, as long as the
\* runs it takes are free or cost less than that; what is not needed never does.
THEOREM ToolsPay == ASSUME Alpha # 0 PROVE AllSpec => []ToolsPayWhenNeeded
<1>1. Inputs => ToolsPayWhenNeeded
  BY RolloutsAreBatch, ToolsPayWhenNeededAny
<1>. QED
  BY <1>1, InputsInvariant, PTL

\* No prompt and no response is empty: both end with a token of the template at least.
LEMMA TurnsTyped == ASSUME Inputs, 0 \notin Sides PROVE turns \in Seq(Turn)
<1>1. Turns \subseteq Turn
  BY AlgorithmsAssumption DEF Turns, Turn
<1>2. turns \in Seq(Turns)
  BY DEF Inputs
<1>. QED
  BY <1>1, <1>2, WiderSeq

\* Supervised fine tuning learns the responses, and rows are cut to fit.
THEOREM LabelsMatch == ASSUME 0 \notin Sides PROVE AllSpec => []LabelsMatchTargets
<1>1. ASSUME Inputs PROVE LabelsMatchTargets
  BY <1>1, TurnsTyped, LabelsMatchAny
<1>2. Inputs => LabelsMatchTargets
  BY <1>1
<1>. QED
  BY <1>2, InputsInvariant, PTL

\* Packed rows hold whole examples, each in one row, and keep them apart.
THEOREM RowsPacked == ASSUME 0 \notin Sides PROVE AllSpec => []PackedApart
<1>1. ASSUME Inputs PROVE PackedApart
  BY <1>1, TurnsTyped, DatasetPacked
<1>2. Inputs => PackedApart
  BY <1>1
<1>. QED
  BY <1>2, InputsInvariant, PTL
=============================================================================
