--------------------------- MODULE SftDataProofs ----------------------------
(***************************************************************************)
(* Lemmas about what operators on data compute, for every input.           *)
(*                                                                         *)
(* First those on sequences that all the algorithms are built from: sums,  *)
(* flattened sequences, functions applied to sequences, the insertion sort *)
(* of Sorting, pieces one after the other.  Then those of SftData: Encode  *)
(* keeps a run of turns and labels them, GreedyKnapsack shares out the     *)
(* examples of a dataset, PackedRow lays each sack's examples into a row.  *)
(*                                                                         *)
(* The library's induction theorems take an operator; these lemmas are by  *)
(* Counting and Appending, the same facts about the members of a set, with *)
(* the set of those values for which the claim holds.                      *)
(***************************************************************************)
EXTENDS SftData, SequenceTheorems, FiniteSetTheorems, WellFoundedInduction, TLAPS

\* A set of naturals has a least element.
LEMMA Least ==
    ASSUME NEW T, T \subseteq Nat, T # {}
    PROVE  \E x \in T : \A y \in T : x <= y
<1>1. \E x \in T : \A y \in T : ~(<<y, x>> \in OpToRel(<, Nat))
  BY NatLessThanWellFounded, WFMin
<1>2. PICK x \in T : \A y \in T : ~(<<y, x>> \in OpToRel(<, Nat))
  BY <1>1
<1>3. \A y \in T : ~(y < x)
  BY <1>2 DEF OpToRel
<1>. QED
  BY <1>3

\* Induction, over the members of a set.
LEMMA Counting ==
    ASSUME NEW G, 0 \in G, \A n \in Nat : n \in G => n + 1 \in G
    PROVE  \A n \in Nat : n \in G
<1>. DEFINE T == {n \in Nat : n \notin G}
<1>1. SUFFICES ASSUME T # {} PROVE FALSE
  OBVIOUS
<1>2. PICK x \in T : \A y \in T : x <= y
  BY <1>1, Least
<1>3. x \in Nat /\ x # 0 /\ x - 1 \in Nat /\ x - 1 \notin T
  BY <1>2
<1>4. x - 1 \in G /\ (x - 1) + 1 = x
  BY <1>3
<1>. QED
  BY <1>2, <1>3, <1>4

\* Induction over a sequence, element by element, for the members of a set.
LEMMA Appending ==
    ASSUME NEW S, NEW G, <<>> \in G,
           \A s \in Seq(S) : \A e \in S : s \in G => Append(s, e) \in G
    PROVE  \A s \in Seq(S) : s \in G
<1>. DEFINE H == {n \in Nat : \A s \in Seq(S) : Len(s) = n => s \in G}
<1>1. 0 \in H
  BY EmptySeq
<1>2. ASSUME NEW n \in Nat, n \in H PROVE n + 1 \in H
  <2>1. SUFFICES ASSUME NEW s \in Seq(S), Len(s) = n + 1 PROVE s \in G
    OBVIOUS
  <2>2. s # <<>>
    BY <2>1
  <2>3. PICK t \in Seq(S), e \in S : s = Append(t, e)
    BY <2>2, SequenceEmptyOrAppend
  <2>4. Len(t) = n
    BY <2>1, <2>3, AppendProperties
  <2>. QED
    BY <1>2, <2>3, <2>4
<1>3. \A n \in Nat : n \in H
  <2>. HIDE DEF H
  <2>. QED
    BY <1>1, <1>2, Counting
<1>. QED
  BY <1>3, LenProperties
-----------------------------------------------------------------------------
(* Sums. *)

\* f holds the sums of the first n numbers of s.
SumStep(s, f) == f = [n \in 0..Len(s) |-> IF n = 0 THEN 0 ELSE f[n - 1] + s[n]]

\* There are such sums.
LEMMA SumExists ==
    ASSUME NEW s \in Seq(Int)
    PROVE  \E f : SumStep(s, f)
<1>. DEFINE Q(k, f) == f = [n \in 0..k |-> IF n = 0 THEN 0 ELSE f[n - 1] + s[n]]
            G == {k \in Nat : \E f : Q(k, f)}
<1>1. 0 \in G
  <2>1. Q(0, [n \in 0..0 |-> 0])
    OBVIOUS
  <2>. QED
    BY <2>1
<1>2. ASSUME NEW k \in Nat, k \in G PROVE k + 1 \in G
  <2>1. PICK f : Q(k, f)
    BY <1>2
  <2>. DEFINE g == [n \in 0..(k + 1) |-> IF n < k + 1 THEN f[n] ELSE f[k] + s[k + 1]]
  <2>2. Q(k + 1, g)
    BY <2>1
  <2>3. \E h : Q(k + 1, h)
    <3>. HIDE DEF g, Q
    <3>. QED
      BY <2>2
  <2>4. k + 1 \in Nat
    OBVIOUS
  <2>. HIDE DEF g, Q
  <2>. QED
    BY <2>3, <2>4
<1>3. \A k \in Nat : k \in G
  <2>. HIDE DEF G
  <2>. QED
    BY <1>1, <1>2, Counting
<1>. QED
  BY <1>3, LenProperties DEF SumStep

\* Sum is the last of them.
LEMMA SumUnfold ==
    ASSUME NEW s \in Seq(Int)
    PROVE  \E f : SumStep(s, f) /\ Sum(s) = f[Len(s)]
<1>1. PICK f : SumStep(s, f)
  BY SumExists
<1>2. SumStep(s, CHOOSE g : SumStep(s, g))
  BY <1>1
<1>3. Sum(s) = (CHOOSE g : SumStep(s, g))[Len(s)]
  BY DEF Sum, SumStep
<1>. QED
  BY <1>2, <1>3

\* The first m elements are the same.
SamePrefix(s, t, m) == \A i \in 1..m : s[i] = t[i]

\* The partial sums are numbers, and do not depend on what follows.
LEMMA SumPrefix ==
    ASSUME NEW s \in Seq(Int), NEW t \in Seq(Int), NEW f, NEW g, NEW m \in Nat,
           SumStep(s, f), SumStep(t, g), m <= Len(s), m <= Len(t),
           SamePrefix(s, t, m)
    PROVE  f[m] = g[m] /\ f[m] \in Int
<1>. DEFINE G == {k \in Nat : k <= m => f[k] = g[k] /\ f[k] \in Int}
<1>1. 0 \in G
  BY LenProperties DEF SumStep
<1>2. ASSUME NEW k \in Nat, k \in G PROVE k + 1 \in G
  <2>1. SUFFICES ASSUME k + 1 <= m PROVE f[k + 1] = g[k + 1] /\ f[k + 1] \in Int
    OBVIOUS
  <2>2. Len(s) \in Nat /\ Len(t) \in Nat /\ k + 1 \in 0..Len(s) /\ k + 1 \in 0..Len(t) /\ k + 1 \in 1..m
    BY <2>1, LenProperties
  <2>3. f[k + 1] = f[k] + s[k + 1] /\ g[k + 1] = g[k] + t[k + 1]
    BY <2>2 DEF SumStep
  <2>4. s[k + 1] = t[k + 1] /\ s[k + 1] \in Int
    BY <2>2, ElementOfSeq DEF SamePrefix
  <2>. QED
    BY <1>2, <2>1, <2>3, <2>4
<1>3. \A k \in Nat : k \in G
  <2>. HIDE DEF G
  <2>. QED
    BY <1>1, <1>2, Counting
<1>. QED
  BY <1>3

\* A sum of integers is an integer.
LEMMA SumType == ASSUME NEW s \in Seq(Int) PROVE Sum(s) \in Int
<1>1. PICK f : SumStep(s, f) /\ Sum(s) = f[Len(s)]
  BY SumUnfold
<1>2. Len(s) \in Nat /\ Len(s) <= Len(s) /\ SamePrefix(s, s, Len(s))
  BY LenProperties DEF SamePrefix
<1>. QED
  BY <1>1, <1>2, SumPrefix

\* The sum of nothing.
LEMMA SumEmpty == Sum(<<>>) = 0
<1>1. <<>> \in Seq(Int) /\ Len(<<>>) = 0
  BY EmptySeq
<1>2. PICK f : SumStep(<<>>, f) /\ Sum(<<>>) = f[Len(<<>>)]
  BY <1>1, SumUnfold
<1>. QED
  BY <1>1, <1>2 DEF SumStep

\* One more number adds to the sum.
LEMMA SumAppend ==
    ASSUME NEW s \in Seq(Int), NEW x \in Int
    PROVE  Sum(Append(s, x)) = Sum(s) + x
<1>. DEFINE t == Append(s, x)
<1>1. /\ t \in Seq(Int) /\ Len(t) = Len(s) + 1 /\ t[Len(s) + 1] = x
      /\ \A i \in 1..Len(s) : t[i] = s[i]
      /\ Len(s) \in Nat
  BY AppendProperties, LenProperties
<1>. HIDE DEF t
<1>2. PICK f : SumStep(s, f) /\ Sum(s) = f[Len(s)]
  BY SumUnfold
<1>3. PICK g : SumStep(t, g) /\ Sum(t) = g[Len(t)]
  BY <1>1, SumUnfold
<1>4. f[Len(s)] = g[Len(s)]
  <2>1. Len(s) <= Len(s) /\ Len(s) <= Len(t)
    BY <1>1
  <2>2. /\ SumStep(s, f) /\ SumStep(t, g) /\ t \in Seq(Int) /\ Len(s) \in Nat
        /\ SamePrefix(s, t, Len(s))
    BY <1>1, <1>2, <1>3 DEF SamePrefix
  <2>. QED
    BY <2>1, <2>2, SumPrefix
<1>5. g[Len(s) + 1] = g[Len(s)] + t[Len(s) + 1]
  BY <1>1, <1>3 DEF SumStep
<1>. QED
  BY <1>1, <1>2, <1>3, <1>4, <1>5 DEF t
-----------------------------------------------------------------------------
(* Flattened sequences. *)

\* f holds the first i pieces of s, joined.
Cat(a, b) == a \o b
FlatTo(s, k, f) == f = [i \in 1..k |-> IF i = 1 THEN s[i] ELSE Cat(f[i - 1], s[i])]
FlatStep(s, f) == FlatTo(s, Len(s), f)

\* There are such joined pieces.
LEMMA FlatExists ==
    ASSUME NEW s, NEW m \in Nat
    PROVE  \E f : FlatTo(s, m, f)
<1>. DEFINE G == {k \in Nat : \E f : FlatTo(s, k, f)}
<1>1. 0 \in G
  <2>1. FlatTo(s, 0, [i \in 1..0 |-> IF i = 1 THEN s[i] ELSE 0])
    BY DEF FlatTo
  <2>. QED
    BY <2>1
<1>2. ASSUME NEW k \in Nat, k \in G PROVE k + 1 \in G
  <2>1. PICK f : FlatTo(s, k, f)
    BY <1>2
  <2>. DEFINE g == [i \in 1..(k + 1) |->
                      IF i < k + 1 THEN f[i] ELSE IF i = 1 THEN s[i] ELSE Cat(f[k], s[k + 1])]
  <2>2. FlatTo(s, k + 1, g)
    BY <2>1 DEF FlatTo
  <2>. QED
    BY <2>2
<1>3. \A k \in Nat : k \in G
  <2>. HIDE DEF G
  <2>. QED
    BY <1>1, <1>2, Counting
<1>. QED
  BY <1>3

\* FlattenSeq is the last of them.
LEMMA FlatUnfold ==
    ASSUME NEW S, NEW s \in Seq(Seq(S)), s # <<>>
    PROVE  \E f : FlatStep(s, f) /\ FlattenSeq(s) = f[Len(s)]
<1>1. PICK f : FlatStep(s, f)
  BY FlatExists, LenProperties DEF FlatStep
<1>2. FlatStep(s, CHOOSE g : FlatStep(s, g))
  BY <1>1
<1>3. Len(s) # 0
  BY EmptySeq
<1>4. FlattenSeq(s) = (CHOOSE g : FlatStep(s, g))[Len(s)]
  BY <1>3 DEF FlattenSeq, FlatStep, FlatTo, Cat
<1>. QED
  BY <1>2, <1>4

\* They do not depend on what follows.
LEMMA FlatPrefix ==
    ASSUME NEW S, NEW s \in Seq(Seq(S)), NEW t \in Seq(Seq(S)), NEW f, NEW g,
           NEW m \in Nat, m # 0,
           FlatStep(s, f), FlatStep(t, g), m <= Len(s), m <= Len(t), SamePrefix(s, t, m)
    PROVE  f[m] = g[m] /\ f[m] \in Seq(S)
<1>. DEFINE G == {k \in Nat : k \in 1..m => f[k] = g[k] /\ f[k] \in Seq(S)}
<1>0. /\ Len(s) \in Nat /\ Len(t) \in Nat
      /\ \A k \in 1..m : k \in 1..Len(s) /\ k \in 1..Len(t) /\ s[k] = t[k] /\ s[k] \in Seq(S)
  BY LenProperties, ElementOfSeq DEF SamePrefix
<1>1. 0 \in G
  OBVIOUS
<1>2. ASSUME NEW k \in Nat, k \in G PROVE k + 1 \in G
  <2>1. SUFFICES ASSUME k + 1 <= m PROVE f[k + 1] = g[k + 1] /\ f[k + 1] \in Seq(S)
    OBVIOUS
  <2>2. /\ k + 1 \in 1..Len(s) /\ k + 1 \in 1..Len(t)
        /\ s[k + 1] = t[k + 1] /\ s[k + 1] \in Seq(S)
    BY <1>0, <2>1
  <2>3. CASE k = 0
    BY <2>2, <2>3 DEF FlatStep, FlatTo
  <2>4. CASE k # 0
    <3>1. f[k + 1] = Cat(f[k], s[k + 1]) /\ g[k + 1] = Cat(g[k], t[k + 1])
      BY <2>2, <2>4 DEF FlatStep, FlatTo
    <3>2. f[k] = g[k] /\ f[k] \in Seq(S)
      BY <1>2, <2>1, <2>4
    <3>3. Cat(f[k], s[k + 1]) \in Seq(S)
      BY <2>2, <3>2, ConcatProperties DEF Cat
    <3>. QED
      BY <2>2, <3>1, <3>2, <3>3
  <2>. QED
    BY <2>3, <2>4
<1>3. \A k \in Nat : k \in G
  <2>. HIDE DEF G
  <2>. QED
    BY <1>1, <1>2, Counting
<1>. QED
  BY <1>3

\* Nothing, flattened.
LEMMA FlatEmpty == FlattenSeq(<<>>) = <<>>
BY EmptySeq DEF FlattenSeq

\* Pieces of elements of S are flattened to elements of S.
LEMMA FlatType ==
    ASSUME NEW S, NEW s \in Seq(Seq(S))
    PROVE  FlattenSeq(s) \in Seq(S)
<1>1. CASE s = <<>>
  BY <1>1, FlatEmpty, EmptySeq
<1>2. CASE s # <<>>
  <2>1. PICK f : FlatStep(s, f) /\ FlattenSeq(s) = f[Len(s)]
    BY <1>2, FlatUnfold
  <2>2. Len(s) \in Nat /\ Len(s) # 0 /\ Len(s) <= Len(s) /\ SamePrefix(s, s, Len(s))
    BY <1>2, EmptySeq, LenProperties DEF SamePrefix
  <2>. QED
    BY <2>1, <2>2, FlatPrefix
<1>. QED
  BY <1>1, <1>2

\* One more piece is put at the end.
LEMMA FlatAppend ==
    ASSUME NEW S, NEW s \in Seq(Seq(S)), NEW x \in Seq(S)
    PROVE  FlattenSeq(Append(s, x)) = FlattenSeq(s) \o x
<1>. DEFINE t == Append(s, x)
<1>1. /\ t \in Seq(Seq(S)) /\ Len(t) = Len(s) + 1 /\ t[Len(s) + 1] = x /\ t # <<>>
      /\ SamePrefix(s, t, Len(s))
      /\ Len(s) \in Nat
  BY AppendProperties, LenProperties DEF SamePrefix
<1>. HIDE DEF t
<1>2. PICK g : FlatStep(t, g) /\ FlattenSeq(t) = g[Len(t)]
  BY <1>1, FlatUnfold
<1>3. CASE s = <<>>
  <2>1. Len(s) = 0 /\ FlattenSeq(s) = <<>> /\ g[1] = t[1]
    BY <1>1, <1>2, <1>3, FlatEmpty, EmptySeq DEF FlatStep, FlatTo
  <2>2. <<>> \o x = x
    BY ConcatEmptySeq
  <2>. QED
    BY <1>1, <1>2, <2>1, <2>2 DEF t
<1>4. CASE s # <<>>
  <2>1. PICK f : FlatStep(s, f) /\ FlattenSeq(s) = f[Len(s)]
    BY <1>4, FlatUnfold
  <2>2. Len(s) # 0 /\ Len(s) <= Len(s) /\ Len(s) <= Len(t)
    BY <1>1, <1>4, EmptySeq
  <2>3. f[Len(s)] = g[Len(s)]
    <3>1. /\ FlatStep(s, f) /\ FlatStep(t, g) /\ t \in Seq(Seq(S)) /\ Len(s) \in Nat
          /\ SamePrefix(s, t, Len(s))
      BY <1>1, <1>2, <2>1
    <3>. QED
      BY <2>2, <3>1, FlatPrefix
  <2>4. g[Len(s) + 1] = Cat(g[Len(s)], t[Len(s) + 1])
    <3>1. Len(s) + 1 \in 1..Len(t) /\ Len(s) + 1 # 1 /\ (Len(s) + 1) - 1 = Len(s)
      BY <1>1, <2>2
    <3>2. g = [i \in 1..Len(t) |-> IF i = 1 THEN t[i] ELSE Cat(g[i - 1], t[i])]
      BY <1>2 DEF FlatStep, FlatTo
    <3>. QED
      BY <3>1, <3>2
  <2>. QED
    BY <1>1, <1>2, <2>1, <2>3, <2>4 DEF t, Cat
<1>. QED
  BY <1>3, <1>4

\* The elements of a sequence, one longer or joined.
LEMMA ElementsAppend ==
    ASSUME NEW S, NEW s \in Seq(S), NEW e \in S
    PROVE  ToSet(Append(s, e)) = ToSet(s) \cup {e}
<1>. DEFINE t == Append(s, e)
<1>1. /\ t \in Seq(S) /\ Len(t) = Len(s) + 1 /\ t[Len(s) + 1] = e /\ Len(s) \in Nat
      /\ \A i \in 1..Len(s) : t[i] = s[i]
      /\ DOMAIN t = 1..Len(t) /\ DOMAIN s = 1..Len(s)
  BY AppendProperties, LenProperties
<1>. HIDE DEF t
<1>2. ToSet(t) = {t[i] : i \in 1..(Len(s) + 1)} /\ ToSet(s) = {s[i] : i \in 1..Len(s)}
  BY <1>1 DEF ToSet
<1>3. \A x \in ToSet(t) : x \in ToSet(s) \cup {e}
  BY <1>1, <1>2
<1>4. \A x \in ToSet(s) \cup {e} : x \in ToSet(t)
  BY <1>1, <1>2
<1>. QED
  BY <1>3, <1>4 DEF t

\* The elements of joined sequences.
LEMMA ElementsJoined ==
    ASSUME NEW S, NEW s \in Seq(S), NEW t \in Seq(S)
    PROVE  ToSet(s \o t) = ToSet(s) \cup ToSet(t)
<1>. DEFINE u == s \o t
<1>1. /\ u \in Seq(S) /\ Len(u) = Len(s) + Len(t) /\ Len(s) \in Nat /\ Len(t) \in Nat
      /\ \A i \in 1..(Len(s) + Len(t)) : u[i] = IF i <= Len(s) THEN s[i] ELSE t[i - Len(s)]
      /\ DOMAIN u = 1..Len(u) /\ DOMAIN s = 1..Len(s) /\ DOMAIN t = 1..Len(t)
  BY ConcatProperties, LenProperties
<1>. HIDE DEF u
<1>2. ASSUME NEW x \in ToSet(u) PROVE x \in ToSet(s) \cup ToSet(t)
  <2>1. PICK i \in 1..(Len(s) + Len(t)) : x = u[i]
    BY <1>1 DEF ToSet
  <2>2. CASE i <= Len(s)
    BY <1>1, <2>1, <2>2 DEF ToSet
  <2>3. CASE i > Len(s)
    <3>1. i - Len(s) \in 1..Len(t) /\ x = t[i - Len(s)]
      BY <1>1, <2>1, <2>3
    <3>. QED
      BY <1>1, <3>1 DEF ToSet
  <2>. QED
    BY <1>1, <2>1, <2>2, <2>3
<1>3. ASSUME NEW x \in ToSet(s) PROVE x \in ToSet(u)
  <2>1. PICK i \in 1..Len(s) : x = s[i]
    BY <1>1 DEF ToSet
  <2>2. i \in 1..(Len(s) + Len(t)) /\ u[i] = x
    BY <1>1, <2>1
  <2>. QED
    BY <1>1, <2>2 DEF ToSet
<1>4. ASSUME NEW x \in ToSet(t) PROVE x \in ToSet(u)
  <2>1. PICK i \in 1..Len(t) : x = t[i]
    BY <1>1 DEF ToSet
  <2>2. i + Len(s) \in 1..(Len(s) + Len(t)) /\ ~(i + Len(s) <= Len(s)) /\ (i + Len(s)) - Len(s) = i
    BY <1>1, <2>1
  <2>3. u[i + Len(s)] = x
    BY <1>1, <2>1, <2>2
  <2>. QED
    BY <1>1, <2>2, <2>3 DEF ToSet
<1>. QED
  BY <1>2, <1>3, <1>4 DEF u

\* A sequence is one of its own elements.
LEMMA ElementsType ==
    ASSUME NEW S, NEW s \in Seq(S)
    PROVE  ToSet(s) \subseteq S /\ (\A i \in 1..Len(s) : s[i] \in ToSet(s)) /\ s \in Seq(ToSet(s))
<1>1. Len(s) \in Nat /\ DOMAIN s = 1..Len(s) /\ s \in [1..Len(s) -> S]
  BY LenProperties
<1>2. ToSet(s) \subseteq S /\ \A i \in 1..Len(s) : s[i] \in ToSet(s)
  BY <1>1 DEF ToSet
<1>3. s \in [1..Len(s) -> ToSet(s)]
  BY <1>1, <1>2
<1>. QED
  BY <1>1, <1>2, <1>3, SeqDef

\* Nothing has no elements.
LEMMA ElementsEmpty == ToSet(<<>>) = {}
BY EmptySeq, LenProperties DEF ToSet

\* The elements of the pieces are the elements of the whole.
LEMMA FlatElements ==
    ASSUME NEW S, NEW s \in Seq(Seq(S))
    PROVE  ToSet(FlattenSeq(s)) = UNION {ToSet(t) : t \in ToSet(s)}
<1>. DEFINE G == {q \in Seq(Seq(S)) : ToSet(FlattenSeq(q)) = UNION {ToSet(t) : t \in ToSet(q)}}
<1>1. <<>> \in G
  BY FlatEmpty, ElementsEmpty, EmptySeq
<1>2. ASSUME NEW q \in Seq(Seq(S)), NEW e \in Seq(S), q \in G PROVE Append(q, e) \in G
  <2>1. ToSet(FlattenSeq(Append(q, e))) = ToSet(FlattenSeq(q)) \cup ToSet(e)
    <3>1. FlattenSeq(Append(q, e)) = FlattenSeq(q) \o e
      BY FlatAppend
    <3>2. FlattenSeq(q) \in Seq(S)
      BY FlatType
    <3>. QED
      BY <3>1, <3>2, ElementsJoined
  <2>2. ToSet(Append(q, e)) = ToSet(q) \cup {e}
    BY ElementsAppend
  <2>3. Append(q, e) \in Seq(Seq(S))
    BY AppendProperties
  <2>. QED
    BY <1>2, <2>1, <2>2, <2>3
<1>3. \A q \in Seq(Seq(S)) : q \in G
  <2>. HIDE DEF G
  <2>. QED
    BY <1>1, <1>2, Appending
<1>. QED
  BY <1>3

\* One more piece is put at the end.
LEMMA FlatStepwise ==
    ASSUME NEW S, NEW s \in Seq(Seq(S)), NEW k \in 0..(Len(s) - 1)
    PROVE  /\ SubSeq(s, 1, k + 1) = Append(SubSeq(s, 1, k), s[k + 1])
           /\ SubSeq(s, 1, k) \in Seq(Seq(S)) /\ s[k + 1] \in Seq(S)
           /\ FlattenSeq(SubSeq(s, 1, k + 1)) = FlattenSeq(SubSeq(s, 1, k)) \o s[k + 1]
<1>0. Len(s) \in Nat /\ \A i \in 1..Len(s) : s[i] \in Seq(S)
  BY LenProperties, ElementOfSeq
<1>1. s[k + 1] \in Seq(S) /\ k + 1 \in 1..Len(s) /\ 1 \in 1..Len(s) /\ k + 1 \in 1..Len(s)
  BY <1>0
<1>2. SubSeq(s, 1, k) \in Seq(Seq(S))
  BY <1>0, SubSeqProperties
<1>3. SubSeq(s, 1, k + 1) = SubSeq(s, 1, (k + 1) - 1) \o <<s[k + 1]>>
  BY <1>1, SubSeqRecursiveSecond
<1>4. SubSeq(s, 1, k + 1) = Append(SubSeq(s, 1, k), s[k + 1])
  <2>1. Append(SubSeq(s, 1, k), s[k + 1]) = SubSeq(s, 1, k) \o <<s[k + 1]>>
    BY <1>1, <1>2, AppendIsConcat
  <2>2. (k + 1) - 1 = k
    OBVIOUS
  <2>. QED
    BY <1>3, <2>1, <2>2
<1>. QED
  BY <1>1, <1>2, <1>4, FlatAppend

\* The pieces are cut one after the other from target, at these places.
Pieces(s, target, cut) ==
    /\ cut[0] = 0
    /\ \A k \in 1..Len(s) :
          cut[k - 1] <= cut[k] /\ s[k] = SubSeq(target, cut[k - 1] + 1, cut[k])

\* Pieces cut one after the other are joined to what they were cut from.
LEMMA FlatPieces ==
    ASSUME NEW S, NEW s \in Seq(Seq(S)), NEW target \in Seq(S),
           NEW cut \in [0..Len(s) -> 0..Len(target)], Pieces(s, target, cut)
    PROVE  FlattenSeq(s) = SubSeq(target, 1, cut[Len(s)])
<1>. DEFINE G == {k \in Nat : k <= Len(s) =>
                     FlattenSeq(SubSeq(s, 1, k)) = SubSeq(target, 1, cut[k])}
<1>0. Len(s) \in Nat /\ Len(target) \in Nat
  BY LenProperties
<1>1. 0 \in G
  <2>1. SubSeq(s, 1, 0) = <<>> /\ SubSeq(target, 1, 0) = <<>>
    BY SubSeqEmpty
  <2>. QED
    BY <2>1, FlatEmpty DEF Pieces
<1>2. ASSUME NEW k \in Nat, k \in G PROVE k + 1 \in G
  <2>1. SUFFICES ASSUME k + 1 <= Len(s)
                 PROVE  FlattenSeq(SubSeq(s, 1, k + 1)) = SubSeq(target, 1, cut[k + 1])
    OBVIOUS
  <2>2. k \in 0..(Len(s) - 1) /\ k + 1 \in 1..Len(s) /\ (k + 1) - 1 = k
        /\ k \in 0..Len(s) /\ k + 1 \in 0..Len(s)
    BY <1>0, <2>1
  <2>3. FlattenSeq(SubSeq(s, 1, k + 1)) = FlattenSeq(SubSeq(s, 1, k)) \o s[k + 1]
    BY <2>2, FlatStepwise
  <2>4. FlattenSeq(SubSeq(s, 1, k)) = SubSeq(target, 1, cut[k])
    BY <1>2, <2>1
  <2>5. cut[k] <= cut[k + 1] /\ s[k + 1] = SubSeq(target, cut[k] + 1, cut[k + 1])
    BY <2>2 DEF Pieces
  <2>6. /\ cut[k] \in 0..Len(target) /\ cut[k + 1] \in 0..Len(target)
        /\ 1 \in 1..(Len(target) + 1) /\ cut[k] \in (1 - 1)..Len(target)
        /\ cut[k + 1] \in cut[k]..Len(target)
    <3>1. cut[k] \in 0..Len(target) /\ cut[k + 1] \in 0..Len(target)
      BY <2>2
    <3>. QED
      BY <1>0, <2>5, <3>1
  <2>7. SubSeq(target, 1, cut[k]) \o SubSeq(target, cut[k] + 1, cut[k + 1])
            = SubSeq(target, 1, cut[k + 1])
    BY <2>6, ConcatAdjacentSubSeq
  <2>. QED
    BY <2>3, <2>4, <2>5, <2>7
<1>3. \A k \in Nat : k \in G
  <2>. HIDE DEF G
  <2>. QED
    BY <1>1, <1>2, Counting
<1>4. SubSeq(s, 1, Len(s)) = s
  BY SubSeqFull
<1>5. FlattenSeq(SubSeq(s, 1, Len(s))) = SubSeq(target, 1, cut[Len(s)])
  BY <1>0, <1>3
<1>. QED
  BY <1>4, <1>5

\* Injective pieces without common elements.
Apart(s) ==
    /\ \A p \in 1..Len(s) : \A i, j \in 1..Len(s[p]) : s[p][i] = s[p][j] => i = j
    /\ \A p, q \in 1..Len(s) : p # q => ToSet(s[p]) \cap ToSet(s[q]) = {}
\* No element stands twice.
Distinct(s) == \A i, j \in 1..Len(s) : s[i] = s[j] => i = j

\* What stands where in two joined sequences.
LEMMA JoinedAt ==
    ASSUME NEW S, NEW s \in Seq(S), NEW t \in Seq(S)
    PROVE  /\ s \o t \in Seq(S) /\ Len(s \o t) = Len(s) + Len(t)
           /\ Len(s) \in Nat /\ Len(t) \in Nat
           /\ \A i \in 1..Len(s) : (s \o t)[i] = s[i]
           /\ \A i \in 1..Len(t) : (s \o t)[Len(s) + i] = t[i]
           /\ \A i \in 1..(Len(s) + Len(t)) : i \in 1..Len(s) \/ i - Len(s) \in 1..Len(t)
<1>1. /\ s \o t \in Seq(S) /\ Len(s \o t) = Len(s) + Len(t)
      /\ Len(s) \in Nat /\ Len(t) \in Nat
      /\ \A i \in 1..(Len(s) + Len(t)) :
            (s \o t)[i] = IF i <= Len(s) THEN s[i] ELSE t[i - Len(s)]
  BY ConcatProperties, LenProperties
<1>2. \A i \in 1..Len(s) : (s \o t)[i] = s[i]
  BY <1>1
<1>3. ASSUME NEW i \in 1..Len(t) PROVE (s \o t)[Len(s) + i] = t[i]
  <2>1. /\ Len(s) + i \in 1..(Len(s) + Len(t)) /\ ~(Len(s) + i <= Len(s))
        /\ (Len(s) + i) - Len(s) = i
    BY <1>1
  <2>. QED
    BY <1>1, <2>1
<1>4. \A i \in 1..(Len(s) + Len(t)) : i \in 1..Len(s) \/ i - Len(s) \in 1..Len(t)
  BY <1>1
<1>. QED
  BY <1>1, <1>2, <1>3, <1>4

\* u is s with t behind it.
Joins(s, t, u) ==
    /\ Len(u) = Len(s) + Len(t)
    /\ \A i \in 1..Len(s) : u[i] = s[i]
    /\ \A i \in 1..Len(t) : u[Len(s) + i] = t[i]

\* Which is what joining gives.
LEMMA JoinsConcat ==
    ASSUME NEW S, NEW s \in Seq(S), NEW t \in Seq(S)
    PROVE  Joins(s, t, s \o t)
BY JoinedAt DEF Joins

\* Sequences without common elements, joined.
LEMMA DistinctJoined ==
    ASSUME NEW S, NEW s \in Seq(S), NEW t \in Seq(S),
           Distinct(s), Distinct(t), ToSet(s) \cap ToSet(t) = {}
    PROVE  Distinct(s \o t)
<1>. DEFINE u == s \o t
            n == Len(s)
            m == Len(t)
<1>1. /\ Len(u) = n + m /\ n \in Nat /\ m \in Nat
      /\ \A i \in 1..n : u[i] = s[i]
      /\ \A i \in 1..m : u[n + i] = t[i]
  BY JoinedAt
<1>2. /\ \A i \in 1..n : s[i] \in ToSet(s)
      /\ \A i \in 1..m : t[i] \in ToSet(t)
  BY ElementsType
<1>3. /\ \A i, j \in 1..n : s[i] = s[j] => i = j
      /\ \A i, j \in 1..m : t[i] = t[j] => i = j
  BY DEF Distinct
<1>. HIDE DEF u, n, m
<1>4. SUFFICES ASSUME NEW i \in 1..(n + m), NEW j \in 1..(n + m), u[i] = u[j]
               PROVE  i = j
  BY <1>1 DEF Distinct, u
<1>5. ASSUME NEW k \in 1..(n + m), k \notin 1..n
      PROVE  k - n \in 1..m /\ u[k] = t[k - n]
  <2>1. k - n \in 1..m /\ n + (k - n) = k
    BY <1>1, <1>5
  <2>. QED
    BY <1>1, <2>1
<1>6. CASE i \in 1..n /\ j \in 1..n
  BY <1>1, <1>3, <1>4, <1>6
<1>7. CASE i \notin 1..n /\ j \notin 1..n
  <2>1. i - n = j - n
    BY <1>3, <1>4, <1>5, <1>7
  <2>. QED
    BY <1>1, <2>1
<1>8. CASE i \in 1..n /\ j \notin 1..n
  BY <1>1, <1>2, <1>4, <1>5, <1>8
<1>9. CASE i \notin 1..n /\ j \in 1..n
  BY <1>1, <1>2, <1>4, <1>5, <1>9
<1>. QED
  BY <1>6, <1>7, <1>8, <1>9

\* Injective pieces without common elements are flattened to an injective sequence.
LEMMA FlatDistinct ==
    ASSUME NEW S, NEW s \in Seq(Seq(S)), Apart(s)
    PROVE  Distinct(FlattenSeq(s))
<1>. DEFINE G == {k \in Nat : k <= Len(s) => Distinct(FlattenSeq(SubSeq(s, 1, k)))}
<1>0. Len(s) \in Nat
  BY LenProperties
<1>1. 0 \in G
  <2>1. SubSeq(s, 1, 0) = <<>>
    BY SubSeqEmpty
  <2>2. Distinct(<<>>)
    BY EmptySeq DEF Distinct
  <2>. QED
    BY <2>1, <2>2, FlatEmpty
<1>2. ASSUME NEW k \in Nat, k \in G PROVE k + 1 \in G
  <2>1. SUFFICES ASSUME k + 1 <= Len(s) PROVE Distinct(FlattenSeq(SubSeq(s, 1, k + 1)))
    OBVIOUS
  <2>2. k \in 0..(Len(s) - 1) /\ k + 1 \in 1..Len(s)
    BY <1>0, <2>1
  <2>. DEFINE a == SubSeq(s, 1, k)
  <2>3. /\ a \in Seq(Seq(S)) /\ s[k + 1] \in Seq(S)
        /\ FlattenSeq(SubSeq(s, 1, k + 1)) = FlattenSeq(a) \o s[k + 1]
    BY <2>2, FlatStepwise
  <2>4. Len(a) = k /\ \A i \in 1..k : a[i] = s[i]
    <3>1. \A i \in 1..k : s[i] \in Seq(S)
      BY <1>0, <2>1, ElementOfSeq
    <3>. QED
      BY <3>1, SubSeqProperties
  <2>. HIDE DEF a
  <2>5. Distinct(FlattenSeq(a))
    BY <1>2, <2>1 DEF a
  <2>6. Distinct(s[k + 1])
    BY <2>2 DEF Apart, Distinct
  <2>7. ToSet(FlattenSeq(a)) \cap ToSet(s[k + 1]) = {}
    <3>1. SUFFICES ASSUME NEW x \in ToSet(FlattenSeq(a)), x \in ToSet(s[k + 1]) PROVE FALSE
      OBVIOUS
    <3>2. PICK e \in ToSet(a) : x \in ToSet(e)
      BY <2>3, <3>1, FlatElements
    <3>3. PICK i \in 1..k : e = a[i]
      BY <2>3, <2>4, <3>2, LenProperties DEF ToSet
    <3>4. i \in 1..Len(s) /\ i # k + 1 /\ e = s[i]
      BY <2>1, <2>4, <3>3, <1>0
    <3>. QED
      BY <2>2, <3>1, <3>2, <3>4 DEF Apart
  <2>8. FlattenSeq(a) \in Seq(S)
    BY <2>3, FlatType
  <2>. QED
    BY <2>3, <2>5, <2>6, <2>7, <2>8, DistinctJoined
<1>3. \A k \in Nat : k \in G
  <2>. HIDE DEF G
  <2>. QED
    BY <1>1, <1>2, Counting
<1>4. SubSeq(s, 1, Len(s)) = s
  BY SubSeqFull
<1>5. Distinct(FlattenSeq(SubSeq(s, 1, Len(s))))
  BY <1>0, <1>3
<1>. QED
  BY <1>4, <1>5

\* Flattening two lists of pieces, or one after the other.
LEMMA FlatJoined ==
    ASSUME NEW S, NEW s \in Seq(Seq(S)), NEW t \in Seq(Seq(S))
    PROVE  FlattenSeq(s \o t) = FlattenSeq(s) \o FlattenSeq(t)
<1>. DEFINE G == {q \in Seq(Seq(S)) : FlattenSeq(s \o q) = FlattenSeq(s) \o FlattenSeq(q)}
<1>0. FlattenSeq(s) \in Seq(S)
  BY FlatType
<1>1. <<>> \in G
  <2>1. s \o <<>> = s /\ FlattenSeq(s) \o <<>> = FlattenSeq(s) /\ <<>> \in Seq(Seq(S))
    BY <1>0, ConcatEmptySeq, EmptySeq
  <2>. QED
    BY <2>1, FlatEmpty
<1>2. ASSUME NEW q \in Seq(Seq(S)), NEW e \in Seq(S), q \in G PROVE Append(q, e) \in G
  <2>1. Append(q, e) = q \o <<e>> /\ Append(q, e) \in Seq(Seq(S)) /\ <<e>> \in Seq(Seq(S))
    BY AppendIsConcat, AppendProperties
  <2>2. s \o q \in Seq(Seq(S))
    BY ConcatProperties
  <2>3. s \o Append(q, e) = Append(s \o q, e)
    <3>1. s \o (q \o <<e>>) = (s \o q) \o <<e>>
      BY <2>1, ConcatAssociative
    <3>2. Append(s \o q, e) = (s \o q) \o <<e>>
      BY <2>2, AppendIsConcat
    <3>. QED
      BY <2>1, <3>1, <3>2
  <2>4. FlattenSeq(Append(s \o q, e)) = FlattenSeq(s \o q) \o e
    BY <2>2, FlatAppend
  <2>5. FlattenSeq(Append(q, e)) = FlattenSeq(q) \o e /\ FlattenSeq(q) \in Seq(S)
    BY FlatAppend, FlatType
  <2>6. (FlattenSeq(s) \o FlattenSeq(q)) \o e = FlattenSeq(s) \o (FlattenSeq(q) \o e)
    BY <1>0, <2>5, ConcatAssociative
  <2>7. FlattenSeq(s \o q) = FlattenSeq(s) \o FlattenSeq(q)
    BY <1>2
  <2>8. FlattenSeq(s \o Append(q, e)) = FlattenSeq(s) \o FlattenSeq(Append(q, e))
    BY <2>3, <2>4, <2>5, <2>6, <2>7
  <2>. QED
    BY <2>1, <2>8
<1>3. \A q \in Seq(Seq(S)) : q \in G
  <2>. HIDE DEF G
  <2>. QED
    BY <1>1, <1>2, Appending
<1>. QED
  BY <1>3

\* A function applied to the elements of a sequence.
Mapped(f, s) == [i \in DOMAIN s |-> f[s[i]]]

\* t is f of s, place by place.
Maps(f, s, t) == Len(t) = Len(s) /\ \A i \in 1..Len(s) : t[i] = f[s[i]]

\* f of a sequence is a sequence of values of f.
LEMMA MappedType ==
    ASSUME NEW S, NEW T, NEW f \in [S -> T], NEW s \in Seq(S)
    PROVE  Mapped(f, s) \in Seq(T) /\ Maps(f, s, Mapped(f, s))
<1>1. Len(s) \in Nat /\ DOMAIN s = 1..Len(s) /\ \A i \in 1..Len(s) : s[i] \in S
  BY LenProperties
<1>2. Mapped(f, s) = [i \in 1..Len(s) |-> f[s[i]]]
  BY <1>1 DEF Mapped
<1>3. \A i \in 1..Len(s) : f[s[i]] \in T
  BY <1>1
<1>. QED
  BY <1>1, <1>2, <1>3 DEF Maps

\* The same where nothing is known of f's values.
LEMMA MappedImage ==
    ASSUME NEW S, NEW f, NEW s \in Seq(S)
    PROVE  Mapped(f, s) \in Seq({f[x] : x \in S}) /\ Maps(f, s, Mapped(f, s))
<1>1. Len(s) \in Nat /\ DOMAIN s = 1..Len(s) /\ \A i \in 1..Len(s) : s[i] \in S
  BY LenProperties
<1>2. Mapped(f, s) = [i \in 1..Len(s) |-> f[s[i]]]
  BY <1>1 DEF Mapped
<1>3. \A i \in 1..Len(s) : f[s[i]] \in {f[x] : x \in S}
  BY <1>1
<1>. QED
  BY <1>1, <1>2, <1>3 DEF Maps

\* f of joined sequences.
LEMMA MappedJoined ==
    ASSUME NEW S, NEW f, NEW s \in Seq(S), NEW t \in Seq(S)
    PROVE  Mapped(f, s \o t) = Mapped(f, s) \o Mapped(f, t)
<1>. DEFINE T == {f[x] : x \in S}
            u == s \o t
            a == Mapped(f, s)
            b == Mapped(f, t)
            v == a \o b
            w == Mapped(f, u)
            n == Len(s)
            m == Len(t)
<1>1. /\ u \in Seq(S) /\ Len(u) = n + m /\ n \in Nat /\ m \in Nat
      /\ \A i \in 1..n : u[i] = s[i]
      /\ \A i \in 1..m : u[n + i] = t[i]
      /\ \A i \in 1..(n + m) : i \in 1..n \/ i - n \in 1..m
  BY JoinedAt
<1>a. a \in Seq(T) /\ Maps(f, s, a)
  BY MappedImage
<1>b. b \in Seq(T) /\ Maps(f, t, b)
  BY MappedImage
<1>c. w \in Seq(T) /\ Maps(f, u, w)
  BY <1>1, MappedImage
<1>. HIDE DEF T, u, a, b, w
<1>2. /\ a \in Seq(T) /\ Len(a) = n /\ \A i \in 1..n : a[i] = f[s[i]]
      /\ b \in Seq(T) /\ Len(b) = m /\ \A i \in 1..m : b[i] = f[t[i]]
  BY <1>a, <1>b DEF Maps
<1>3. w \in Seq(T) /\ Len(w) = n + m /\ \A i \in 1..(n + m) : w[i] = f[u[i]]
  BY <1>1, <1>c DEF Maps
<1>4. /\ v \in Seq(T) /\ Len(v) = n + m
      /\ \A i \in 1..n : v[i] = a[i]
      /\ \A i \in 1..m : v[n + i] = b[i]
  <2>1. Len(a) = n /\ Len(b) = m /\ a \in Seq(T) /\ b \in Seq(T)
    BY <1>2
  <2>. HIDE DEF n, m
  <2>2. Joins(a, b, a \o b) /\ a \o b \in Seq(T)
    BY <2>1, JoinsConcat, ConcatProperties
  <2>3. Joins(a, b, v) /\ v \in Seq(T)
    BY <2>2
  <2>. HIDE DEF v
  <2>. QED
    BY <2>1, <2>3 DEF Joins
<1>. HIDE DEF v, n, m
<1>5. ASSUME NEW i \in 1..n PROVE w[i] = v[i]
  <2>1. i \in 1..(n + m)
    BY <1>1
  <2>2. w[i] = f[u[i]] /\ u[i] = s[i] /\ v[i] = a[i] /\ a[i] = f[s[i]]
    BY <1>1, <1>2, <1>3, <1>4, <2>1
  <2>. QED
    BY <2>2
<1>6. ASSUME NEW i \in 1..(n + m), i \notin 1..n PROVE w[i] = v[i]
  <2>1. i - n \in 1..m /\ n + (i - n) = i
    BY <1>1, <1>6
  <2>2. w[i] = f[t[i - n]] /\ v[i] = f[t[i - n]]
    BY <1>1, <1>2, <1>3, <1>4, <2>1
  <2>. QED
    BY <2>2
<1>7. \A i \in 1..(n + m) : w[i] = v[i]
  BY <1>5, <1>6
<1>8. w = v
  BY <1>3, <1>4, <1>7, SeqEqual
<1>. QED
  BY <1>8 DEF w, v, u, a, b

\* f of a sequence with one more element.
LEMMA MappedAppend ==
    ASSUME NEW S, NEW f, NEW s \in Seq(S), NEW e \in S
    PROVE  Mapped(f, Append(s, e)) = Append(Mapped(f, s), f[e])
<1>1. Append(s, e) = s \o <<e>> /\ <<e>> \in Seq(S)
  BY AppendIsConcat
<1>2. Mapped(f, s \o <<e>>) = Mapped(f, s) \o Mapped(f, <<e>>)
  BY <1>1, MappedJoined
<1>3. Mapped(f, <<e>>) = <<f[e]>>
  BY DEF Mapped
<1>4. Mapped(f, s) \in Seq({f[x] : x \in S}) /\ f[e] \in {f[x] : x \in S}
  BY MappedImage
<1>5. Append(Mapped(f, s), f[e]) = Mapped(f, s) \o <<f[e]>>
  BY <1>4, AppendIsConcat
<1>. QED
  BY <1>1, <1>2, <1>3, <1>5

\* f of nothing.
LEMMA MappedEmpty == \A f : Mapped(f, <<>>) = <<>>
BY EmptySeq, LenProperties DEF Mapped

\* Mapped piece by piece, or as a whole.
MappedAll(f, s) == [p \in DOMAIN s |-> Mapped(f, s[p])]

\* Mapped, as a function of the sequence.
AsFunction(f, S) == [t \in S |-> Mapped(f, t)]

\* Mapping the pieces maps that function over the list of pieces.
LEMMA MappedAllIsMapped ==
    ASSUME NEW S, NEW T, NEW f \in [S -> T], NEW s \in Seq(Seq(S))
    PROVE  /\ AsFunction(f, Seq(S)) \in [Seq(S) -> Seq(T)]
           /\ MappedAll(f, s) = Mapped(AsFunction(f, Seq(S)), s)
<1>1. \A t \in Seq(S) : Mapped(f, t) \in Seq(T)
  BY MappedType
<1>2. DOMAIN s = 1..Len(s) /\ \A i \in 1..Len(s) : s[i] \in Seq(S)
  BY LenProperties
<1>. QED
  BY <1>1, <1>2 DEF Mapped, MappedAll, AsFunction

\* f of the flattened pieces is f of the pieces, flattened.
LEMMA FlatMapped ==
    ASSUME NEW S, NEW T, NEW f \in [S -> T], NEW s \in Seq(Seq(S))
    PROVE  FlattenSeq(MappedAll(f, s)) = Mapped(f, FlattenSeq(s))
<1>. DEFINE F == AsFunction(f, Seq(S))
            G == {q \in Seq(Seq(S)) : FlattenSeq(Mapped(F, q)) = Mapped(f, FlattenSeq(q))}
<1>0. F \in [Seq(S) -> Seq(T)]
  BY MappedAllIsMapped, EmptySeq
<1>a. \A t \in Seq(S) : F[t] = Mapped(f, t)
  BY DEF AsFunction
<1>. HIDE DEF F
<1>1. <<>> \in G
  BY EmptySeq, FlatEmpty, MappedEmpty
<1>2. ASSUME NEW q \in Seq(Seq(S)), NEW e \in Seq(S), q \in G PROVE Append(q, e) \in G
  <2>1. Mapped(F, Append(q, e)) = Append(Mapped(F, q), F[e])
    BY <1>0, MappedAppend
  <2>2. Mapped(F, q) \in Seq(Seq(T)) /\ F[e] \in Seq(T)
    BY <1>0, MappedType
  <2>3. FlattenSeq(Append(Mapped(F, q), F[e])) = FlattenSeq(Mapped(F, q)) \o F[e]
    BY <2>2, FlatAppend
  <2>4. FlattenSeq(Append(q, e)) = FlattenSeq(q) \o e /\ FlattenSeq(q) \in Seq(S)
    BY FlatAppend, FlatType
  <2>5. Mapped(f, FlattenSeq(q) \o e) = Mapped(f, FlattenSeq(q)) \o Mapped(f, e)
    BY <2>4, MappedJoined
  <2>6. F[e] = Mapped(f, e) /\ FlattenSeq(Mapped(F, q)) = Mapped(f, FlattenSeq(q))
    BY <1>a, <1>2
  <2>7. FlattenSeq(Mapped(F, Append(q, e))) = Mapped(f, FlattenSeq(Append(q, e)))
    BY <2>1, <2>3, <2>4, <2>5, <2>6
  <2>. QED
    BY <2>7, AppendProperties
<1>3. \A q \in Seq(Seq(S)) : q \in G
  <2>. HIDE DEF G
  <2>. QED
    BY <1>1, <1>2, Appending
<1>4. MappedAll(f, s) = Mapped(AsFunction(f, Seq(S)), s)
  <2>. HIDE DEF G
  <2>1. \A t \in Seq(S) : Mapped(f, t) \in Seq(T)
    BY MappedType
  <2>2. DOMAIN s = 1..Len(s) /\ \A i \in 1..Len(s) : s[i] \in Seq(S)
    BY LenProperties
  <2>. QED
    BY <2>1, <2>2 DEF Mapped, MappedAll, AsFunction
<1>5. MappedAll(f, s) = Mapped(F, s)
  BY <1>4 DEF F
<1>. QED
  BY <1>3, <1>5

\* Flattened twice, from the inside or from the outside.
Flattened(s) == [m \in DOMAIN s |-> FlattenSeq(s[m])]

\* One more list of pieces.
LEMMA FlattenedStep ==
    ASSUME NEW S, NEW s \in Seq(Seq(Seq(S))), NEW e \in Seq(Seq(S))
    PROVE  /\ Flattened(s) \in Seq(Seq(S)) /\ Len(Flattened(s)) = Len(s)
           /\ \A m \in 1..Len(s) : Flattened(s)[m] = FlattenSeq(s[m])
           /\ Flattened(Append(s, e)) = Append(Flattened(s), FlattenSeq(e))
<1>. DEFINE F == [t \in Seq(Seq(S)) |-> FlattenSeq(t)]
<1>1. F \in [Seq(Seq(S)) -> Seq(S)] /\ \A t \in Seq(Seq(S)) : F[t] = FlattenSeq(t)
  BY FlatType
<1>2. ASSUME NEW q \in Seq(Seq(Seq(S))) PROVE Flattened(q) = Mapped(F, q)
  <2>1. DOMAIN q = 1..Len(q) /\ \A i \in 1..Len(q) : q[i] \in Seq(Seq(S))
    BY LenProperties
  <2>. QED
    BY <2>1 DEF Flattened, Mapped
<1>. HIDE DEF F
<1>3. Mapped(F, s) \in Seq(Seq(S)) /\ Maps(F, s, Mapped(F, s))
  BY <1>1, MappedType
<1>4. Mapped(F, Append(s, e)) = Append(Mapped(F, s), F[e])
  BY <1>1, MappedAppend
<1>5. Append(s, e) \in Seq(Seq(Seq(S))) /\ \A m \in 1..Len(s) : s[m] \in Seq(Seq(S))
  BY AppendProperties, LenProperties
<1>6. Flattened(s) = Mapped(F, s) /\ Flattened(Append(s, e)) = Mapped(F, Append(s, e))
  BY <1>2, <1>5
<1>. QED
  BY <1>1, <1>3, <1>4, <1>5, <1>6 DEF Maps

\* Both ways give the same.
LEMMA FlatNested ==
    ASSUME NEW S, NEW s \in Seq(Seq(Seq(S)))
    PROVE  FlattenSeq(FlattenSeq(s)) = FlattenSeq(Flattened(s))
<1>. DEFINE G == {q \in Seq(Seq(Seq(S))) : FlattenSeq(FlattenSeq(q)) = FlattenSeq(Flattened(q))}
<1>1. <<>> \in G
  <2>1. Flattened(<<>>) = <<>>
    BY EmptySeq, LenProperties DEF Flattened
  <2>2. <<>> \in Seq(Seq(Seq(S)))
    BY EmptySeq
  <2>. QED
    BY <2>1, <2>2, FlatEmpty
<1>2. ASSUME NEW q \in Seq(Seq(Seq(S))), NEW e \in Seq(Seq(S)), q \in G
      PROVE  Append(q, e) \in G
  <2>1. FlattenSeq(Append(q, e)) = FlattenSeq(q) \o e
    BY FlatAppend
  <2>2. FlattenSeq(q) \in Seq(Seq(S))
    BY FlatType
  <2>3. FlattenSeq(FlattenSeq(q) \o e) = FlattenSeq(FlattenSeq(q)) \o FlattenSeq(e)
    BY <2>2, FlatJoined
  <2>4. /\ Flattened(q) \in Seq(Seq(S))
        /\ Flattened(Append(q, e)) = Append(Flattened(q), FlattenSeq(e))
    BY FlattenedStep
  <2>5. FlattenSeq(e) \in Seq(S)
    BY FlatType
  <2>6. FlattenSeq(Append(Flattened(q), FlattenSeq(e)))
            = FlattenSeq(Flattened(q)) \o FlattenSeq(e)
    BY <2>4, <2>5, FlatAppend
  <2>7. Append(q, e) \in Seq(Seq(Seq(S)))
    BY AppendProperties
  <2>8. FlattenSeq(FlattenSeq(q)) = FlattenSeq(Flattened(q))
    BY <1>2
  <2>9. FlattenSeq(FlattenSeq(Append(q, e))) = FlattenSeq(Flattened(Append(q, e)))
    BY <2>1, <2>3, <2>4, <2>6, <2>8
  <2>. QED
    BY <2>7, <2>9
<1>3. \A q \in Seq(Seq(Seq(S))) : q \in G
  <2>. HIDE DEF G
  <2>. QED
    BY <1>1, <1>2, Appending
<1>. QED
  BY <1>3

\* Pieces of one length c.
LEMMA FlatEven ==
    ASSUME NEW S, NEW s \in Seq(Seq(S)), NEW c \in Nat, \A t \in ToSet(s) : Len(t) = c
    PROVE  Len(FlattenSeq(s)) = Len(s) * c
<1>. DEFINE G == {q \in Seq(Seq(S)) :
                     (\A t \in ToSet(q) : Len(t) = c) => Len(FlattenSeq(q)) = Len(q) * c}
<1>1. <<>> \in G
  BY FlatEmpty, EmptySeq
<1>2. ASSUME NEW q \in Seq(Seq(S)), NEW e \in Seq(S), q \in G PROVE Append(q, e) \in G
  <2>1. SUFFICES ASSUME \A t \in ToSet(Append(q, e)) : Len(t) = c
                 PROVE  Len(FlattenSeq(Append(q, e))) = Len(Append(q, e)) * c
    BY AppendProperties
  <2>2. ToSet(Append(q, e)) = ToSet(q) \cup {e}
    BY ElementsAppend
  <2>3. Len(FlattenSeq(q)) = Len(q) * c /\ Len(e) = c
    BY <1>2, <2>1, <2>2
  <2>4. FlattenSeq(Append(q, e)) = FlattenSeq(q) \o e
    BY FlatAppend
  <2>5. FlattenSeq(q) \in Seq(S)
    BY FlatType
  <2>6. Len(FlattenSeq(q) \o e) = Len(FlattenSeq(q)) + Len(e)
    BY <2>5, ConcatProperties
  <2>7. Len(Append(q, e)) = Len(q) + 1 /\ Len(q) \in Nat
    BY AppendProperties, LenProperties
  <2>8. (Len(q) + 1) * c = Len(q) * c + c
    BY <2>7
  <2>. QED
    BY <2>3, <2>4, <2>6, <2>7, <2>8
<1>3. \A q \in Seq(Seq(S)) : q \in G
  <2>. HIDE DEF G
  <2>. QED
    BY <1>1, <1>2, Appending
<1>. QED
  BY <1>3

\* The least of a set of natural numbers.
LEMMA MinIsLeast ==
    ASSUME NEW T, T \subseteq Nat, T # {}
    PROVE  Min(T) \in T /\ Min(T) \in Nat /\ \A y \in T : Min(T) <= y
BY Least DEF Min

\* Where an element is put into a sorted list, and what that gives.
Inserted(q, e, k, r) ==
    /\ k \in 1..(Len(q) + 1) /\ Len(r) = Len(q) + 1
    /\ r[k] = e
    /\ \A i \in 1..Len(q) : i < k => r[i] = q[i]
    /\ \A i \in 1..Len(q) : i >= k => r[i + 1] = q[i]

\* InsertAt does so.
LEMMA InsertAtPlace ==
    ASSUME NEW S, NEW q \in Seq(S), NEW e \in S, NEW k \in 1..(Len(q) + 1)
    PROVE  InsertAt(q, k, e) \in Seq(S) /\ Inserted(q, e, k, InsertAt(q, k, e))
<1>. DEFINE n == Len(q)
            a == SubSeq(q, 1, k - 1)
            b == SubSeq(q, k, n)
            c == a \o <<e>>
            r == c \o b
<1>0. n \in Nat /\ \A i \in 1..n : q[i] \in S
  BY LenProperties, ElementOfSeq
<1>1. a \in Seq(S) /\ Len(a) = k - 1 /\ \A i \in 1..(k - 1) : a[i] = q[i]
  <2>1. \A i \in 1..(k - 1) : q[i] \in S
    BY <1>0
  <2>2. IF 1 <= k - 1 THEN Len(a) = (k - 1) - 1 + 1 ELSE Len(a) = 0
    BY <2>1, SubSeqProperties
  <2>3. a \in Seq(S) /\ \A i \in 1..((k - 1) - 1 + 1) : a[i] = q[1 + i - 1]
    BY <2>1, SubSeqProperties
  <2>. HIDE DEF a
  <2>. QED
    BY <1>0, <2>2, <2>3
<1>2. b \in Seq(S) /\ Len(b) = n + 1 - k /\ \A i \in 1..(n + 1 - k) : b[i] = q[k + i - 1]
  <2>1. \A i \in k..n : q[i] \in S
    BY <1>0
  <2>2. IF k <= n THEN Len(b) = n - k + 1 ELSE Len(b) = 0
    BY <1>0, <2>1, SubSeqProperties
  <2>3. b \in Seq(S) /\ \A i \in 1..(n - k + 1) : b[i] = q[k + i - 1]
    BY <1>0, <2>1, SubSeqProperties
  <2>. HIDE DEF b
  <2>. QED
    BY <1>0, <2>2, <2>3
<1>. HIDE DEF a, b
<1>3. <<e>> \in Seq(S) /\ Len(<<e>>) = 1 /\ <<e>>[1] = e
  OBVIOUS
<1>4. c \in Seq(S) /\ Joins(a, <<e>>, c)
  BY <1>1, <1>3, ConcatProperties, JoinsConcat
<1>5. r \in Seq(S) /\ Joins(c, b, r)
  BY <1>2, <1>4, ConcatProperties, JoinsConcat
<1>. HIDE DEF c, r
<1>6. Len(c) = k /\ c[k] = e /\ \A i \in 1..(k - 1) : c[i] = q[i]
  <2>1. Len(c) = (k - 1) + 1 /\ c[(k - 1) + 1] = e
    BY <1>1, <1>3, <1>4 DEF Joins
  <2>2. \A i \in 1..(k - 1) : c[i] = a[i]
    BY <1>1, <1>4 DEF Joins
  <2>. QED
    BY <1>1, <2>1, <2>2
<1>7. /\ Len(r) = n + 1 /\ r[k] = e
      /\ \A i \in 1..(k - 1) : r[i] = q[i]
  <2>1. Len(r) = k + (n + 1 - k) /\ \A i \in 1..k : r[i] = c[i]
    BY <1>2, <1>5, <1>6 DEF Joins
  <2>. QED
    BY <1>0, <1>6, <2>1
<1>8. ASSUME NEW i \in 1..n, i >= k PROVE r[i + 1] = q[i]
  <2>1. i + 1 - k \in 1..(n + 1 - k) /\ k + (i + 1 - k) = i + 1 /\ k + (i + 1 - k) - 1 = i
    BY <1>0, <1>8
  <2>2. r[k + (i + 1 - k)] = b[i + 1 - k]
    BY <1>2, <1>5, <1>6, <2>1 DEF Joins
  <2>. QED
    BY <1>2, <2>1, <2>2
<1>9. \A i \in 1..n : i < k => r[i] = q[i]
  BY <1>0, <1>7
<1>10. InsertAt(q, k, e) = r
  BY DEF InsertAt, r, c, a, b
<1>11. Inserted(q, e, k, r)
  BY <1>0, <1>7, <1>8, <1>9 DEF Inserted
<1>. QED
  BY <1>5, <1>10, <1>11

\* Insert's place: behind all that e is not before, in front of one it is before.
LEMMA PlaceOf ==
    ASSUME NEW S, NEW q \in Seq(S), NEW e, NEW less
    PROVE  /\ PlaceFor(q, e, less) \in 1..(Len(q) + 1)
           /\ \A i \in 1..Len(q) : i < PlaceFor(q, e, less) => <<e, q[i]>> \notin less
           /\ PlaceFor(q, e, less) \in 1..Len(q) => <<e, q[PlaceFor(q, e, less)]>> \in less
<1>. DEFINE n == Len(q)
            T == {i \in 1..n : <<e, q[i]>> \in less} \cup {n + 1}
            k == Min(T)
<1>1. n \in Nat
  BY LenProperties
<1>2. T \subseteq Nat /\ T # {} /\ T \subseteq 1..(n + 1)
  BY <1>1
<1>3. k \in T /\ k \in Nat /\ \A y \in T : k <= y
  <2>. HIDE DEF T
  <2>. QED
    BY <1>2, MinIsLeast
<1>4. PlaceFor(q, e, less) = k
  BY DEF PlaceFor
<1>. HIDE DEF k
<1>5. \A i \in 1..n : i < k => <<e, q[i]>> \notin less
  BY <1>1, <1>3
<1>6. k \in 1..n => <<e, q[k]>> \in less
  BY <1>1, <1>3
<1>. QED
  BY <1>2, <1>3, <1>4, <1>5, <1>6

\* Insert puts e there.
LEMMA InsertPlace ==
    ASSUME NEW S, NEW q \in Seq(S), NEW e \in S, NEW less
    PROVE  /\ Insert(q, e, less) \in Seq(S)
           /\ Inserted(q, e, PlaceFor(q, e, less), Insert(q, e, less))
BY PlaceOf, InsertAtPlace DEF Insert

-----------------------------------------------------------------------------
\* f holds the first n elements of list, sorted.
SortStep(list, m, less, f) ==
    f = [n \in 0..m |-> IF n = 0 THEN <<>> ELSE Insert(f[n - 1], list[n], less)]

\* There are such sorted lists.
LEMMA SortExists ==
    ASSUME NEW list, NEW m \in Nat, NEW less
    PROVE  \E f : SortStep(list, m, less, f)
<1>. DEFINE G == {k \in Nat : \E f : SortStep(list, k, less, f)}
<1>1. 0 \in G
  <2>1. SortStep(list, 0, less, [n \in 0..0 |-> <<>>])
    BY DEF SortStep
  <2>. QED
    BY <2>1
<1>2. ASSUME NEW k \in Nat, k \in G PROVE k + 1 \in G
  <2>1. PICK f : SortStep(list, k, less, f)
    BY <1>2
  <2>. DEFINE g == [n \in 0..(k + 1) |->
                      IF n < k + 1 THEN f[n] ELSE Insert(f[k], list[k + 1], less)]
  <2>2. SortStep(list, k + 1, less, g)
    BY <2>1 DEF SortStep
  <2>. QED
    BY <2>2
<1>3. \A k \in Nat : k \in G
  <2>. HIDE DEF G
  <2>. QED
    BY <1>1, <1>2, Counting
<1>. QED
  BY <1>3

\* SortedBy is the last of them.
LEMMA SortUnfold ==
    ASSUME NEW S, NEW list \in Seq(S), NEW less
    PROVE  \E f : SortStep(list, Len(list), less, f) /\ SortedBy(list, less) = f[Len(list)]
<1>. DEFINE n == Len(list)
<1>0. n \in Nat
  BY LenProperties
<1>1. PICK f : SortStep(list, n, less, f)
  BY <1>0, SortExists
<1>2. SortStep(list, n, less, CHOOSE g : SortStep(list, n, less, g))
  BY <1>1
<1>3. SortedBy(list, less) = (CHOOSE g : SortStep(list, n, less, g))[n]
  BY DEF SortedBy, SortStep
<1>. QED
  BY <1>2, <1>3

\* They do not depend on what follows.
LEMMA SortPrefix ==
    ASSUME NEW S, NEW s \in Seq(S), NEW t \in Seq(S), NEW less, NEW f, NEW g, NEW m \in Nat,
           SortStep(s, Len(s), less, f), SortStep(t, Len(t), less, g),
           m <= Len(s), m <= Len(t), SamePrefix(s, t, m)
    PROVE  f[m] = g[m] /\ f[m] \in Seq(S)
<1>. DEFINE G == {k \in Nat : k <= m => f[k] = g[k] /\ f[k] \in Seq(S)}
<1>1. 0 \in G
  BY LenProperties, EmptySeq DEF SortStep
<1>2. ASSUME NEW k \in Nat, k \in G PROVE k + 1 \in G
  <2>1. SUFFICES ASSUME k + 1 <= m PROVE f[k + 1] = g[k + 1] /\ f[k + 1] \in Seq(S)
    OBVIOUS
  <2>2. Len(s) \in Nat /\ Len(t) \in Nat /\ k + 1 \in 0..Len(s) /\ k + 1 \in 0..Len(t) /\ k + 1 \in 1..m
    BY <2>1, LenProperties
  <2>3. f[k + 1] = Insert(f[k], s[k + 1], less) /\ g[k + 1] = Insert(g[k], t[k + 1], less)
    BY <2>2 DEF SortStep
  <2>4. s[k + 1] = t[k + 1] /\ s[k + 1] \in S
    BY <2>2, ElementOfSeq DEF SamePrefix
  <2>5. Insert(f[k], s[k + 1], less) \in Seq(S)
    BY <1>2, <2>1, <2>4, InsertPlace
  <2>. QED
    BY <1>2, <2>1, <2>3, <2>4, <2>5
<1>3. \A k \in Nat : k \in G
  <2>. HIDE DEF G
  <2>. QED
    BY <1>1, <1>2, Counting
<1>. QED
  BY <1>3

\* Sorting elements of S gives elements of S.
LEMMA SortedType ==
    ASSUME NEW S, NEW s \in Seq(S), NEW less
    PROVE  SortedBy(s, less) \in Seq(S)
<1>1. PICK f : SortStep(s, Len(s), less, f) /\ SortedBy(s, less) = f[Len(s)]
  BY SortUnfold
<1>2. Len(s) \in Nat /\ Len(s) <= Len(s) /\ SamePrefix(s, s, Len(s))
  BY LenProperties DEF SamePrefix
<1>. QED
  BY <1>1, <1>2, SortPrefix

\* Nothing, sorted.
LEMMA SortedEmpty == \A less : SortedBy(<<>>, less) = <<>>
<1>. SUFFICES ASSUME NEW less PROVE SortedBy(<<>>, less) = <<>>
  OBVIOUS
<1>1. <<>> \in Seq({}) /\ Len(<<>>) = 0
  BY EmptySeq
<1>2. PICK f : SortStep(<<>>, Len(<<>>), less, f) /\ SortedBy(<<>>, less) = f[Len(<<>>)]
  BY <1>1, SortUnfold
<1>. QED
  BY <1>1, <1>2 DEF SortStep

\* One more element is inserted.
LEMMA SortedAppend ==
    ASSUME NEW S, NEW s \in Seq(S), NEW x \in S, NEW less
    PROVE  SortedBy(Append(s, x), less) = Insert(SortedBy(s, less), x, less)
<1>. DEFINE t == Append(s, x)
<1>1. /\ t \in Seq(S) /\ Len(t) = Len(s) + 1 /\ t[Len(s) + 1] = x
      /\ SamePrefix(s, t, Len(s))
      /\ Len(s) \in Nat
  BY AppendProperties, LenProperties DEF SamePrefix
<1>. HIDE DEF t
<1>2. PICK f : SortStep(s, Len(s), less, f) /\ SortedBy(s, less) = f[Len(s)]
  BY SortUnfold
<1>3. PICK g : SortStep(t, Len(t), less, g) /\ SortedBy(t, less) = g[Len(t)]
  BY <1>1, SortUnfold
<1>4. f[Len(s)] = g[Len(s)]
  <2>1. Len(s) <= Len(s) /\ Len(s) <= Len(t)
    BY <1>1
  <2>. QED
    BY <1>1, <1>2, <1>3, <2>1, SortPrefix
<1>5. g[Len(s) + 1] = Insert(g[Len(s)], t[Len(s) + 1], less)
  <2>1. Len(s) + 1 \in 0..Len(t) /\ Len(s) + 1 # 0 /\ (Len(s) + 1) - 1 = Len(s)
    BY <1>1
  <2>2. g = [n \in 0..Len(t) |-> IF n = 0 THEN <<>> ELSE Insert(g[n - 1], t[n], less)]
    BY <1>3 DEF SortStep
  <2>. QED
    BY <2>1, <2>2
<1>. QED
  BY <1>1, <1>2, <1>3, <1>4, <1>5 DEF t

\* The sum over joined sequences.
LEMMA SumJoined ==
    ASSUME NEW s \in Seq(Int), NEW t \in Seq(Int)
    PROVE  Sum(s \o t) = Sum(s) + Sum(t)
<1>. DEFINE G == {q \in Seq(Int) : Sum(s \o q) = Sum(s) + Sum(q)}
<1>0. Sum(s) \in Int
  BY SumType
<1>1. <<>> \in G
  <2>1. s \o <<>> = s /\ <<>> \in Seq(Int)
    BY ConcatEmptySeq, EmptySeq
  <2>. QED
    BY <1>0, <2>1, SumEmpty
<1>2. ASSUME NEW q \in Seq(Int), NEW e \in Int, q \in G PROVE Append(q, e) \in G
  <2>1. Append(q, e) = q \o <<e>> /\ Append(q, e) \in Seq(Int) /\ <<e>> \in Seq(Int)
    BY AppendIsConcat, AppendProperties
  <2>2. s \o q \in Seq(Int)
    BY ConcatProperties
  <2>3. s \o Append(q, e) = Append(s \o q, e)
    <3>1. s \o (q \o <<e>>) = (s \o q) \o <<e>>
      BY <2>1, ConcatAssociative
    <3>2. Append(s \o q, e) = (s \o q) \o <<e>>
      BY <2>2, AppendIsConcat
    <3>. QED
      BY <2>1, <3>1, <3>2
  <2>4. Sum(Append(s \o q, e)) = Sum(s \o q) + e
    BY <2>2, SumAppend
  <2>5. Sum(Append(q, e)) = Sum(q) + e /\ Sum(q) \in Int
    BY SumAppend, SumType
  <2>6. Sum(s \o q) = Sum(s) + Sum(q)
    BY <1>2
  <2>7. Sum(s \o Append(q, e)) = Sum(s) + Sum(Append(q, e))
    BY <1>0, <2>3, <2>4, <2>5, <2>6
  <2>. QED
    BY <2>1, <2>7
<1>3. \A q \in Seq(Int) : q \in G
  <2>. HIDE DEF G
  <2>. QED
    BY <1>1, <1>2, Appending
<1>. QED
  BY <1>3

\* The sum of the sums of the pieces.
LEMMA SumFlat ==
    ASSUME NEW s \in Seq(Seq(Int))
    PROVE  Sum(FlattenSeq(s)) = Sum([p \in DOMAIN s |-> Sum(s[p])])
<1>. DEFINE F == [t \in Seq(Int) |-> Sum(t)]
            G == {q \in Seq(Seq(Int)) : Sum(FlattenSeq(q)) = Sum(Mapped(F, q))}
<1>0. F \in [Seq(Int) -> Int] /\ \A t \in Seq(Int) : F[t] = Sum(t)
  BY SumType
<1>. HIDE DEF F
<1>1. <<>> \in G
  BY EmptySeq, FlatEmpty, MappedEmpty
<1>2. ASSUME NEW q \in Seq(Seq(Int)), NEW e \in Seq(Int), q \in G PROVE Append(q, e) \in G
  <2>1. Mapped(F, Append(q, e)) = Append(Mapped(F, q), F[e])
    BY <1>0, MappedAppend
  <2>2. Mapped(F, q) \in Seq(Int) /\ F[e] \in Int
    BY <1>0, MappedType
  <2>3. Sum(Append(Mapped(F, q), F[e])) = Sum(Mapped(F, q)) + F[e]
    BY <2>2, SumAppend
  <2>4. FlattenSeq(Append(q, e)) = FlattenSeq(q) \o e /\ FlattenSeq(q) \in Seq(Int)
    BY FlatAppend, FlatType
  <2>5. Sum(FlattenSeq(q) \o e) = Sum(FlattenSeq(q)) + Sum(e)
    BY <2>4, SumJoined
  <2>6. F[e] = Sum(e) /\ Sum(FlattenSeq(q)) = Sum(Mapped(F, q))
    BY <1>0, <1>2
  <2>7. Sum(FlattenSeq(Append(q, e))) = Sum(Mapped(F, Append(q, e)))
    BY <2>1, <2>3, <2>4, <2>5, <2>6
  <2>. QED
    BY <2>7, AppendProperties
<1>3. \A q \in Seq(Seq(Int)) : q \in G
  <2>. HIDE DEF G
  <2>. QED
    BY <1>1, <1>2, Appending
<1>4. Mapped(F, s) = [p \in DOMAIN s |-> Sum(s[p])]
  <2>1. DOMAIN s = 1..Len(s) /\ \A i \in 1..Len(s) : s[i] \in Seq(Int)
    BY LenProperties
  <2>. QED
    BY <1>0, <2>1 DEF Mapped
<1>. QED
  BY <1>3, <1>4

\* Numbers not below m have a sum not below as often m.
LEMMA SumAtLeast ==
    ASSUME NEW s \in Seq(Int), NEW m \in Int, \A i \in 1..Len(s) : s[i] >= m
    PROVE  Sum(s) >= Len(s) * m
<1>. DEFINE G == {q \in Seq(Int) : (\A x \in ToSet(q) : x >= m) => Sum(q) >= Len(q) * m}
<1>1. <<>> \in G
  BY EmptySeq, SumEmpty
<1>2. ASSUME NEW q \in Seq(Int), NEW e \in Int, q \in G PROVE Append(q, e) \in G
  <2>1. SUFFICES ASSUME \A x \in ToSet(Append(q, e)) : x >= m
                 PROVE  Sum(Append(q, e)) >= Len(Append(q, e)) * m
    BY AppendProperties
  <2>2. ToSet(Append(q, e)) = ToSet(q) \cup {e}
    BY ElementsAppend
  <2>3. Sum(q) >= Len(q) * m /\ e >= m
    BY <1>2, <2>1, <2>2
  <2>4. Sum(Append(q, e)) = Sum(q) + e /\ Sum(q) \in Int
    BY SumAppend, SumType
  <2>5. Len(Append(q, e)) = Len(q) + 1 /\ Len(q) \in Nat
    BY AppendProperties, LenProperties
  <2>6. (Len(q) + 1) * m = Len(q) * m + m
    BY <2>5
  <2>. QED
    BY <2>3, <2>4, <2>5, <2>6
<1>3. \A q \in Seq(Int) : q \in G
  <2>. HIDE DEF G
  <2>. QED
    BY <1>1, <1>2, Appending
<1>4. \A x \in ToSet(s) : x >= m
  BY LenProperties DEF ToSet
<1>. QED
  BY <1>3, <1>4
-----------------------------------------------------------------------------
(* Sorting rearranges. *)

\* The elements after an insertion.
LEMMA InsertElements ==
    ASSUME NEW S, NEW q \in Seq(S), NEW e \in S, NEW r \in Seq(S), NEW k, Inserted(q, e, k, r)
    PROVE  ToSet(r) = ToSet(q) \cup {e}
<1>0. /\ Len(q) \in Nat /\ Len(r) = Len(q) + 1 /\ k \in 1..(Len(q) + 1)
      /\ DOMAIN q = 1..Len(q) /\ DOMAIN r = 1..Len(r)
  BY LenProperties DEF Inserted
<1>1. ASSUME NEW i \in 1..(Len(q) + 1) PROVE r[i] \in ToSet(q) \cup {e}
  <2>1. CASE i < k
    <3>1. i \in 1..Len(q) /\ r[i] = q[i]
      BY <1>0, <2>1 DEF Inserted
    <3>. QED
      BY <1>0, <3>1 DEF ToSet
  <2>2. CASE i > k
    <3>1. i - 1 \in 1..Len(q) /\ i - 1 >= k /\ (i - 1) + 1 = i
      BY <1>0, <2>2
    <3>2. r[i] = q[i - 1]
      BY <3>1 DEF Inserted
    <3>. QED
      BY <1>0, <3>1, <3>2 DEF ToSet
  <2>3. CASE i = k
    BY <2>3 DEF Inserted
  <2>. QED
    BY <1>0, <2>1, <2>2, <2>3
<1>2. ASSUME NEW i \in 1..Len(q) PROVE q[i] \in ToSet(r)
  <2>1. i \in 1..Len(r) /\ i + 1 \in 1..Len(r)
    BY <1>0
  <2>2. q[i] = r[i] \/ q[i] = r[i + 1]
    BY <1>0 DEF Inserted
  <2>. QED
    BY <1>0, <2>1, <2>2 DEF ToSet
<1>3. e \in ToSet(r)
  BY <1>0 DEF ToSet, Inserted
<1>4. ToSet(r) \subseteq ToSet(q) \cup {e}
  BY <1>0, <1>1 DEF ToSet
<1>5. ToSet(q) \subseteq ToSet(r)
  BY <1>0, <1>2 DEF ToSet
<1>. QED
  BY <1>3, <1>4, <1>5

\* t holds what s holds, each place of it once.
Places(s, t, pi) ==
    /\ pi \in [1..Len(s) -> 1..Len(s)]
    /\ \A i, j \in 1..Len(s) : pi[i] = pi[j] => i = j
    /\ \A i \in 1..Len(s) : t[i] = s[pi[i]]
\* t is s in another order.
Rearranged(s, t) == Len(t) = Len(s) /\ ToSet(t) = ToSet(s) /\ \E pi : Places(s, t, pi)

\* An insertion into a rearranged list rearranges the longer list.
LEMMA RearrangedInsert ==
    ASSUME NEW S, NEW s \in Seq(S), NEW e \in S, NEW q \in Seq(S), NEW r \in Seq(S), NEW k,
           Rearranged(s, q), Inserted(q, e, k, r)
    PROVE  Rearranged(Append(s, e), r)
<1>. DEFINE t == Append(s, e)
            n == Len(s)
<1>0. n \in Nat /\ Len(q) = n /\ Len(r) = n + 1 /\ k \in 1..(n + 1)
  BY LenProperties DEF Inserted, Rearranged
<1>1. t \in Seq(S) /\ Len(t) = n + 1 /\ t[n + 1] = e /\ \A i \in 1..n : t[i] = s[i]
  BY AppendProperties
<1>2. ToSet(t) = ToSet(s) \cup {e} /\ ToSet(r) = ToSet(q) \cup {e}
  BY ElementsAppend, InsertElements
<1>3. PICK pi : Places(s, q, pi)
  BY DEF Rearranged
<1>4. /\ pi \in [1..n -> 1..n] /\ \A i \in 1..n : q[i] = s[pi[i]]
      /\ \A i, j \in 1..n : pi[i] = pi[j] => i = j
  BY <1>3 DEF Places
<1>5. /\ \A i \in 1..n : i < k => r[i] = q[i]
      /\ \A i \in 1..n : i >= k => r[i + 1] = q[i]
      /\ r[k] = e
  BY <1>0 DEF Inserted
<1>. HIDE DEF t, n
<1>. DEFINE po == [i \in 1..(n + 1) |-> IF i < k THEN pi[i] ELSE IF i = k THEN n + 1 ELSE pi[i - 1]]
<1>6. /\ \A i \in 1..(n + 1) : i < k => po[i] = pi[i] /\ i \in 1..n
      /\ \A i \in 1..(n + 1) : i > k => po[i] = pi[i - 1] /\ i - 1 \in 1..n /\ i - 1 >= k
      /\ po[k] = n + 1
  BY <1>0
<1>7. po \in [1..(n + 1) -> 1..(n + 1)]
  BY <1>0, <1>4
<1>. HIDE DEF po
<1>8. ASSUME NEW i \in 1..(n + 1), NEW j \in 1..(n + 1), po[i] = po[j] PROVE i = j
  <2>1. CASE i < k /\ j < k
    BY <1>4, <1>6, <1>8, <2>1
  <2>2. CASE i > k /\ j > k
    BY <1>0, <1>4, <1>6, <1>8, <2>2
  <2>3. CASE i < k /\ j > k
    <3>1. pi[i] = pi[j - 1] /\ i \in 1..n /\ j - 1 \in 1..n
      BY <1>6, <1>8, <2>3
    <3>2. i = j - 1
      BY <1>4, <3>1
    <3>. QED
      BY <1>0, <1>6, <2>3, <3>2
  <2>4. CASE j < k /\ i > k
    <3>1. pi[j] = pi[i - 1] /\ j \in 1..n /\ i - 1 \in 1..n
      BY <1>6, <1>8, <2>4
    <3>2. j = i - 1
      BY <1>4, <3>1
    <3>. QED
      BY <1>0, <1>6, <2>4, <3>2
  <2>5. CASE i = k /\ j # k
    <3>1. j < k \/ j > k
      BY <1>0, <2>5
    <3>2. po[j] \in 1..n
      BY <1>4, <1>6, <3>1
    <3>. QED
      BY <1>0, <1>6, <1>8, <2>5, <3>2
  <2>6. CASE j = k /\ i # k
    <3>1. i < k \/ i > k
      BY <1>0, <2>6
    <3>2. po[i] \in 1..n
      BY <1>4, <1>6, <3>1
    <3>. QED
      BY <1>0, <1>6, <1>8, <2>6, <3>2
  <2>. QED
    BY <1>0, <2>1, <2>2, <2>3, <2>4, <2>5, <2>6
<1>9. ASSUME NEW i \in 1..(n + 1) PROVE r[i] = t[po[i]]
  <2>1. CASE i < k
    <3>1. i \in 1..n /\ po[i] = pi[i] /\ r[i] = q[i] /\ pi[i] \in 1..n
      BY <1>4, <1>5, <1>6, <2>1
    <3>. QED
      BY <1>1, <1>4, <3>1
  <2>2. CASE i > k
    <3>1. i - 1 \in 1..n /\ i - 1 >= k /\ (i - 1) + 1 = i /\ po[i] = pi[i - 1]
      BY <1>0, <1>6, <2>2
    <3>2. r[i] = q[i - 1] /\ pi[i - 1] \in 1..n
      BY <1>4, <1>5, <3>1
    <3>. QED
      BY <1>1, <1>4, <3>1, <3>2
  <2>3. CASE i = k
    BY <1>1, <1>5, <1>6, <2>3
  <2>. QED
    BY <1>0, <2>1, <2>2, <2>3
<1>10. Places(t, r, po)
  BY <1>1, <1>7, <1>8, <1>9 DEF Places
<1>11. Rearranged(t, r)
  BY <1>0, <1>1, <1>2, <1>10 DEF Rearranged
<1>. QED
  BY <1>11 DEF t

\* Sorting only rearranges.
LEMMA SortedRearranges ==
    ASSUME NEW S, NEW s \in Seq(S), NEW less
    PROVE  Rearranged(s, SortedBy(s, less))
<1>. DEFINE G == {q \in Seq(S) : Rearranged(q, SortedBy(q, less))}
<1>1. <<>> \in G
  <2>1. SortedBy(<<>>, less) = <<>> /\ <<>> \in Seq(S) /\ Len(<<>>) = 0
    BY SortedEmpty, EmptySeq
  <2>2. Places(<<>>, <<>>, [i \in 1..0 |-> i])
    BY <2>1 DEF Places
  <2>. QED
    BY <2>1, <2>2 DEF Rearranged
<1>2. ASSUME NEW q \in Seq(S), NEW e \in S, q \in G PROVE Append(q, e) \in G
  <2>. DEFINE r == SortedBy(q, less)
              u == SortedBy(Append(q, e), less)
  <2>1. r \in Seq(S) /\ Append(q, e) \in Seq(S)
    BY SortedType, AppendProperties
  <2>2. u = Insert(r, e, less)
    BY SortedAppend
  <2>3. Rearranged(q, r)
    BY <1>2
  <2>. HIDE DEF r, u
  <2>4. u \in Seq(S) /\ Inserted(r, e, PlaceFor(r, e, less), u)
    BY <2>1, <2>2, InsertPlace
  <2>5. Rearranged(Append(q, e), u)
    BY <2>1, <2>3, <2>4, RearrangedInsert
  <2>. QED
    BY <2>1, <2>5 DEF u
<1>3. \A q \in Seq(S) : q \in G
  <2>. HIDE DEF G
  <2>. QED
    BY <1>1, <1>2, Appending
<1>. QED
  BY <1>3

\* Rearranging repeats nothing.
LEMMA RearrangedDistinct ==
    ASSUME NEW s, NEW t, Rearranged(s, t), Distinct(s)
    PROVE  Distinct(t)
BY DEF Rearranged, Places, Distinct

\* Sorting leaves the sum of anything over the elements as it was.
LEMMA SortedSum ==
    ASSUME NEW S, NEW f \in [S -> Int], NEW s \in Seq(S), NEW less
    PROVE  Sum(Mapped(f, SortedBy(s, less))) = Sum(Mapped(f, s))
<1>. DEFINE G == {q \in Seq(S) : Sum(Mapped(f, SortedBy(q, less))) = Sum(Mapped(f, q))}
<1>1. <<>> \in G
  BY SortedEmpty, EmptySeq
<1>2. ASSUME NEW q \in Seq(S), NEW e \in S, q \in G PROVE Append(q, e) \in G
  <2>. DEFINE r == SortedBy(q, less)
              k == PlaceFor(r, e, less)
              a == SubSeq(r, 1, k - 1)
              b == SubSeq(r, k, Len(r))
              c == a \o <<e>>
  <2>1. r \in Seq(S) /\ Append(q, e) \in Seq(S)
    BY SortedType, AppendProperties
  <2>2. SortedBy(Append(q, e), less) = c \o b
    BY SortedAppend DEF Insert, InsertAt
  <2>. HIDE DEF r
  <2>3. k \in 1..(Len(r) + 1) /\ Len(r) \in Nat
    BY <2>1, PlaceOf, LenProperties
  <2>. HIDE DEF k
  <2>a. \A i \in 1..Len(r) : r[i] \in S
    BY <2>1, ElementOfSeq
  <2>4. r = a \o b
    <3>1. \A i \in 1..Len(r) : r[i] \in S
      BY <2>a
    <3>2. r = SubSeq(r, 1, Len(r))
      BY <2>1, SubSeqFull
    <3>3. SubSeq(r, 1, k - 1) \o SubSeq(r, (k - 1) + 1, Len(r)) = SubSeq(r, 1, Len(r))
      <4>1. 1 \in 1..(Len(r) + 1) /\ k - 1 \in (1 - 1)..Len(r) /\ Len(r) \in (k - 1)..Len(r)
        BY <2>3
      <4>. QED
        BY <2>1, <4>1, ConcatAdjacentSubSeq
    <3>4. (k - 1) + 1 = k
      BY <2>3
    <3>. QED
      BY <3>2, <3>3, <3>4
  <2>5. a \in Seq(S) /\ b \in Seq(S)
    <3>1. (\A i \in 1..(k - 1) : r[i] \in S) /\ (\A i \in k..Len(r) : r[i] \in S)
      BY <2>3, <2>a
    <3>. QED
      BY <2>3, <3>1, SubSeqProperties
  <2>. HIDE DEF a, b
  <2>. DEFINE one == <<e>>
  <2>6. one \in Seq(S) /\ Append(q, e) = q \o one /\ c = a \o one
    BY AppendIsConcat
  <2>7. c \in Seq(S)
    BY <2>5, <2>6, ConcatProperties
  <2>. HIDE DEF c, one
  <2>8. /\ Mapped(f, a \o b) = Mapped(f, a) \o Mapped(f, b)
        /\ Mapped(f, a \o one) = Mapped(f, a) \o Mapped(f, one)
        /\ Mapped(f, q \o one) = Mapped(f, q) \o Mapped(f, one)
        /\ Mapped(f, c \o b) = Mapped(f, c) \o Mapped(f, b)
    <3>1. \A x, y \in Seq(S) : Mapped(f, x \o y) = Mapped(f, x) \o Mapped(f, y)
      BY MappedJoined
    <3>. QED
      BY <2>5, <2>6, <2>7, <3>1
  <2>10. /\ Mapped(f, a) \in Seq(Int) /\ Mapped(f, b) \in Seq(Int) /\ Mapped(f, c) \in Seq(Int)
         /\ Mapped(f, q) \in Seq(Int) /\ Mapped(f, one) \in Seq(Int)
    BY <2>5, <2>6, <2>7, MappedType
  <2>11. /\ Sum(Mapped(f, a)) \in Int /\ Sum(Mapped(f, b)) \in Int
         /\ Sum(Mapped(f, q)) \in Int /\ Sum(Mapped(f, one)) \in Int
    BY <2>10, SumType
  <2>12. /\ Sum(Mapped(f, a \o b)) = Sum(Mapped(f, a)) + Sum(Mapped(f, b))
         /\ Sum(Mapped(f, a \o one)) = Sum(Mapped(f, a)) + Sum(Mapped(f, one))
         /\ Sum(Mapped(f, q \o one)) = Sum(Mapped(f, q)) + Sum(Mapped(f, one))
         /\ Sum(Mapped(f, c \o b)) = Sum(Mapped(f, c)) + Sum(Mapped(f, b))
    BY <2>8, <2>10, SumJoined
  <2>13. Sum(Mapped(f, r)) = Sum(Mapped(f, q))
    BY <1>2 DEF r
  <2>14. Sum(Mapped(f, SortedBy(Append(q, e), less))) = Sum(Mapped(f, Append(q, e)))
    BY <2>2, <2>4, <2>6, <2>11, <2>12, <2>13
  <2>. QED
    BY <2>1, <2>14
<1>3. \A q \in Seq(S) : q \in G
  <2>. HIDE DEF G
  <2>. QED
    BY <1>1, <1>2, Appending
<1>. QED
  BY <1>3

\* No element before a smaller one.
Ascends(s, less) == \A i, j \in 1..Len(s) : i < j => <<s[j], s[i]>> \notin less

\* The order of a sort key: elements may be equal in it.
WeakOrder(less, S) ==
    /\ \A x, y \in S : <<x, y>> \in less => <<y, x>> \notin less
    /\ \A x, y, z \in S : <<x, z>> \in less => <<x, y>> \in less \/ <<y, z>> \in less

\* Inserting keeps the order.
LEMMA InsertAscends ==
    ASSUME NEW S, NEW less, WeakOrder(less, S), NEW q \in Seq(S), NEW e \in S, Ascends(q, less)
    PROVE  Ascends(Insert(q, e, less), less)
<1>. DEFINE n == Len(q)
            k == PlaceFor(q, e, less)
            r == Insert(q, e, less)
<1>1. /\ n \in Nat /\ k \in 1..(n + 1) /\ \A i \in 1..n : q[i] \in S
      /\ \A i \in 1..n : i < k => <<e, q[i]>> \notin less
      /\ k \in 1..n => <<e, q[k]>> \in less
  BY LenProperties, PlaceOf, ElementOfSeq
<1>2. Inserted(q, e, k, r)
  BY InsertPlace
<1>. HIDE DEF k, r
<1>3. /\ Len(r) = n + 1 /\ r[k] = e
      /\ \A i \in 1..n : i < k => r[i] = q[i]
      /\ \A i \in 1..n : i >= k => r[i + 1] = q[i]
  BY <1>2 DEF Inserted
<1>4. \A i, j \in 1..n : i < j => <<q[j], q[i]>> \notin less
  BY DEF Ascends
<1>. HIDE DEF n
<1>5. ASSUME NEW i \in 1..n, i >= k PROVE <<q[i], e>> \notin less
  <2>1. <<e, q[k]>> \in less /\ k \in 1..n /\ q[k] \in S /\ q[i] \in S
    BY <1>1, <1>5
  <2>2. i = k \/ <<q[i], q[k]>> \notin less
    BY <1>1, <1>4, <1>5, <2>1
  <2>3. CASE i = k
    BY <2>1, <2>3 DEF WeakOrder
  <2>4. CASE <<q[i], q[k]>> \notin less
    <3>1. SUFFICES ASSUME <<q[i], e>> \in less PROVE FALSE
      OBVIOUS
    <3>2. <<q[i], q[k]>> \in less \/ <<q[k], e>> \in less
      BY <2>1, <3>1 DEF WeakOrder
    <3>3. <<q[k], e>> \notin less
      BY <2>1 DEF WeakOrder
    <3>. QED
      BY <2>4, <3>2, <3>3
  <2>. QED
    BY <2>2, <2>3, <2>4
<1>6. SUFFICES ASSUME NEW i \in 1..(n + 1), NEW j \in 1..(n + 1), i < j
               PROVE  <<r[j], r[i]>> \notin less
  BY <1>3 DEF Ascends, r
<1>7. ASSUME NEW l \in 1..(n + 1), l > k
      PROVE  l - 1 \in 1..n /\ l - 1 >= k /\ r[l] = q[l - 1]
  <2>1. l - 1 \in 1..n /\ l - 1 >= k /\ (l - 1) + 1 = l
    BY <1>1, <1>7
  <2>. QED
    BY <1>3, <2>1
<1>8. ASSUME NEW l \in 1..(n + 1), l < k
      PROVE  l \in 1..n /\ r[l] = q[l]
  BY <1>1, <1>3, <1>8
<1>9. CASE i < k /\ j < k
  BY <1>4, <1>6, <1>8, <1>9
<1>10. CASE i < k /\ j = k
  BY <1>1, <1>3, <1>8, <1>10
<1>11. CASE i < k /\ j > k
  <2>1. r[i] = q[i] /\ r[j] = q[j - 1] /\ i \in 1..n /\ j - 1 \in 1..n /\ i < j - 1
    BY <1>1, <1>7, <1>8, <1>11
  <2>. QED
    BY <1>4, <2>1
<1>12. CASE i = k /\ j > k
  BY <1>3, <1>5, <1>7, <1>12
<1>13. CASE i > k /\ j > k
  <2>1. r[i] = q[i - 1] /\ r[j] = q[j - 1] /\ i - 1 \in 1..n /\ j - 1 \in 1..n /\ i - 1 < j - 1
    BY <1>6, <1>7, <1>13
  <2>. QED
    BY <1>4, <2>1
<1>. QED
  BY <1>1, <1>6, <1>9, <1>10, <1>11, <1>12, <1>13

\* A sorted list is in order.
LEMMA SortedAscends ==
    ASSUME NEW S, NEW less, WeakOrder(less, S), NEW s \in Seq(S)
    PROVE  Ascends(SortedBy(s, less), less)
<1>. DEFINE G == {q \in Seq(S) : Ascends(SortedBy(q, less), less)}
<1>1. <<>> \in G
  <2>1. SortedBy(<<>>, less) = <<>> /\ <<>> \in Seq(S) /\ Len(<<>>) = 0
    BY SortedEmpty, EmptySeq
  <2>. QED
    BY <2>1 DEF Ascends
<1>2. ASSUME NEW q \in Seq(S), NEW e \in S, q \in G PROVE Append(q, e) \in G
  <2>1. SortedBy(q, less) \in Seq(S) /\ Append(q, e) \in Seq(S)
    BY SortedType, AppendProperties
  <2>2. SortedBy(Append(q, e), less) = Insert(SortedBy(q, less), e, less)
    BY SortedAppend
  <2>3. Ascends(Insert(SortedBy(q, less), e, less), less)
    BY <1>2, <2>1, InsertAscends
  <2>. QED
    BY <2>1, <2>2, <2>3
<1>3. \A q \in Seq(S) : q \in G
  <2>. HIDE DEF G
  <2>. QED
    BY <1>1, <1>2, Appending
<1>. QED
  BY <1>3
-----------------------------------------------------------------------------
\* A sequence that repeats nothing has as many elements as places.
LEMMA DistinctSize ==
    ASSUME NEW S, NEW s \in Seq(S), Distinct(s)
    PROVE  IsFiniteSet(ToSet(s)) /\ Cardinality(ToSet(s)) = Len(s)
<1>. DEFINE n == Len(s)
<1>1. n \in Nat /\ DOMAIN s = 1..n /\ ToSet(s) = {s[i] : i \in 1..n} /\ s = [i \in 1..n |-> s[i]]
  BY LenProperties DEF ToSet
<1>2. \A i, j \in 1..n : s[i] = s[j] => i = j
  BY DEF Distinct
<1>3. IsFiniteSet(1..n) /\ Cardinality(1..n) = n
  <2>1. 1 \in Int /\ n \in Int /\ Cardinality(1..n) = IF 1 > n THEN 0 ELSE n - 1 + 1
    BY <1>1, FS_Interval
  <2>2. IsFiniteSet(1..n)
    <3>1. 1 \in Int /\ n \in Int
      BY <1>1
    <3>. QED
      BY <3>1, FS_Interval
  <2>. QED
    BY <1>1, <2>1, <2>2
<1>4. ExistsBijection(1..n, ToSet(s))
  <2>1. s \in Injection(1..n, ToSet(s))
    BY <1>1, <1>2 DEF Injection, IsInjective
  <2>2. s \in Surjection(1..n, ToSet(s))
    BY <1>1 DEF Surjection
  <2>. QED
    BY <2>1, <2>2 DEF ExistsBijection, Bijection
<1>. QED
  BY <1>3, <1>4, FS_Bijection

\* Numbers that grow from place to place and are those from 1 to n are these in order.
LEMMA AscendingIsIdentity ==
    ASSUME NEW n \in Nat, NEW s \in Seq(Int), ToSet(s) = 1..n, Distinct(s),
           \A i, j \in 1..Len(s) : i < j => s[i] <= s[j]
    PROVE  s = [i \in 1..n |-> i]
<1>1. Len(s) = n
  <2>1. Cardinality(ToSet(s)) = Len(s)
    BY DistinctSize
  <2>2. Cardinality(1..n) = IF 1 > n THEN 0 ELSE n - 1 + 1
    BY FS_Interval
  <2>. QED
    BY <2>1, <2>2
<1>2. DOMAIN s = 1..n /\ \A i \in 1..n : s[i] \in 1..n
  BY <1>1, LenProperties DEF ToSet
<1>3. \A i, j \in 1..n : i < j => s[i] < s[j]
  BY <1>1, <1>2 DEF Distinct
<1>. DEFINE G == {k \in Nat : k \in 1..n => s[k] >= k}
            H == {k \in Nat : k < n => s[n - k] <= n - k}
<1>4. \A k \in Nat : k \in G
  <2>1. 0 \in G
    OBVIOUS
  <2>2. ASSUME NEW k \in Nat, k \in G PROVE k + 1 \in G
    <3>1. SUFFICES ASSUME k + 1 \in 1..n PROVE s[k + 1] >= k + 1
      OBVIOUS
    <3>2. CASE k = 0
      BY <1>2, <3>1, <3>2
    <3>3. CASE k # 0
      <4>1. k \in 1..n /\ s[k] >= k /\ s[k] < s[k + 1] /\ s[k + 1] \in Int /\ s[k] \in Int
        BY <1>2, <1>3, <2>2, <3>1, <3>3
      <4>. QED
        BY <4>1
    <3>. QED
      BY <3>2, <3>3
  <2>. HIDE DEF G
  <2>. QED
    BY <2>1, <2>2, Counting
<1>5. \A k \in Nat : k \in H
  <2>1. 0 \in H
    BY <1>2
  <2>2. ASSUME NEW k \in Nat, k \in H PROVE k + 1 \in H
    <3>1. SUFFICES ASSUME k + 1 < n PROVE s[n - (k + 1)] <= n - (k + 1)
      OBVIOUS
    <3>2. n - k \in 1..n /\ n - (k + 1) \in 1..n /\ n - (k + 1) < n - k /\ s[n - k] <= n - k
      BY <2>2, <3>1
    <3>3. s[n - (k + 1)] < s[n - k] /\ s[n - k] \in Int /\ s[n - (k + 1)] \in Int
      BY <1>2, <1>3, <3>2
    <3>. QED
      BY <3>2, <3>3
  <2>. HIDE DEF H
  <2>. QED
    BY <2>1, <2>2, Counting
<1>6. ASSUME NEW k \in 1..n PROVE s[k] = k
  <2>1. s[k] >= k /\ s[k] \in Int
    BY <1>2, <1>4
  <2>2. n - k \in Nat /\ n - k < n /\ n - (n - k) = k
    OBVIOUS
  <2>3. s[n - (n - k)] <= n - (n - k)
    BY <1>5, <2>2
  <2>. QED
    BY <2>1, <2>2, <2>3
<1>7. s = [i \in 1..n |-> s[i]]
  BY <1>2, LenProperties
<1>. QED
  BY <1>6, <1>7

\* The order of the numbers, as sorting takes it.
NumberOrder == {xy \in Int \X Int : xy[1] < xy[2]}

\* A sum does not depend on the order in which the numbers from 1 to n are taken.
LEMMA SumReordered ==
    ASSUME NEW f \in Seq(Int), NEW s \in Seq(Int), ToSet(s) = 1..Len(f), Distinct(s)
    PROVE  Sum(Mapped(f, s)) = Sum(f)
<1>. DEFINE n == Len(f)
            t == SortedBy(s, NumberOrder)
            S == 1..n
<1>1. n \in Nat /\ f \in [S -> Int] /\ DOMAIN f = S
  BY LenProperties
<1>2. s \in Seq(S)
  BY ElementsType
<1>3. Sum(Mapped(f, t)) = Sum(Mapped(f, s))
  BY <1>1, <1>2, SortedSum
<1>4. Rearranged(s, t)
  BY SortedRearranges
<1>5. ToSet(t) = S /\ Distinct(t) /\ t \in Seq(Int)
  BY <1>4, RearrangedDistinct, SortedType DEF Rearranged
<1>6. WeakOrder(NumberOrder, Int)
  BY DEF WeakOrder, NumberOrder
<1>7. Ascends(t, NumberOrder)
  BY <1>6, SortedAscends
<1>. HIDE DEF t
<1>8. ASSUME NEW i \in 1..Len(t), NEW j \in 1..Len(t), i < j PROVE t[i] <= t[j]
  <2>1. t[i] \in Int /\ t[j] \in Int
    BY <1>5, ElementOfSeq
  <2>2. <<t[j], t[i]>> \notin NumberOrder
    BY <1>7, <1>8 DEF Ascends
  <2>. QED
    BY <2>1, <2>2 DEF NumberOrder
<1>9. t = [i \in 1..n |-> i]
  BY <1>1, <1>5, <1>8, AscendingIsIdentity
<1>10. Mapped(f, t) = f
  <2>1. DOMAIN t = 1..n /\ \A i \in 1..n : t[i] = i
    BY <1>9
  <2>2. f = [i \in 1..n |-> f[i]]
    BY <1>1
  <2>. QED
    BY <2>1, <2>2 DEF Mapped
<1>. QED
  BY <1>3, <1>10
-----------------------------------------------------------------------------
\* Some numbers have a greatest and a least one.
LEMMA Greatest ==
    ASSUME NEW s \in Seq(Int), s # <<>>
    PROVE  /\ Max(ToSet(s)) \in ToSet(s) /\ \A y \in ToSet(s) : Max(ToSet(s)) >= y
           /\ Min(ToSet(s)) \in ToSet(s) /\ \A y \in ToSet(s) : Min(ToSet(s)) <= y
<1>. DEFINE Top(q) == \E x \in ToSet(q) : \A y \in ToSet(q) : x >= y
            Low(q) == \E x \in ToSet(q) : \A y \in ToSet(q) : x <= y
            G == {q \in Seq(Int) : q # <<>> => Top(q) /\ Low(q)}
<1>1. <<>> \in G
  BY EmptySeq
<1>2. ASSUME NEW q \in Seq(Int), NEW e \in Int, q \in G PROVE Append(q, e) \in G
  <2>1. ToSet(Append(q, e)) = ToSet(q) \cup {e} /\ Append(q, e) \in Seq(Int)
    BY ElementsAppend, AppendProperties
  <2>2. ToSet(q) \subseteq Int
    BY ElementsType
  <2>3. CASE q = <<>>
    <3>1. e \in ToSet(Append(q, e)) /\ \A y \in ToSet(Append(q, e)) : y = e
      BY <2>1, <2>3, ElementsEmpty
    <3>2. Top(Append(q, e)) /\ Low(Append(q, e))
      BY <3>1
    <3>. QED
      BY <2>1, <3>2
  <2>4. CASE q # <<>>
    <3>1. PICK x \in ToSet(q) : \A y \in ToSet(q) : x >= y
      BY <1>2, <2>4
    <3>2. PICK z \in ToSet(q) : \A y \in ToSet(q) : z <= y
      BY <1>2, <2>4
    <3>3. Top(Append(q, e))
      <4>1. CASE e >= x
        BY <2>1, <2>2, <3>1, <4>1
      <4>2. CASE ~(e >= x)
        BY <2>1, <2>2, <3>1, <4>2
      <4>. QED
        BY <4>1, <4>2
    <3>4. Low(Append(q, e))
      <4>1. CASE e <= z
        BY <2>1, <2>2, <3>2, <4>1
      <4>2. CASE ~(e <= z)
        BY <2>1, <2>2, <3>2, <4>2
      <4>. QED
        BY <4>1, <4>2
    <3>. QED
      BY <2>1, <3>3, <3>4
  <2>. QED
    BY <2>3, <2>4
<1>3. \A q \in Seq(Int) : q \in G
  <2>. HIDE DEF G
  <2>. QED
    BY <1>1, <1>2, Appending
<1>4. Top(s) /\ Low(s)
  BY <1>3
<1>. QED
  BY <1>4 DEF Max, Min

\* Less is transitive and orders any two members of T.
StrictOrder(less, T) ==
    /\ \A x, y, z \in T : <<x, y>> \in less /\ <<y, z>> \in less => <<x, z>> \in less
    /\ \A x, y \in T : x # y => <<x, y>> \in less \/ <<y, x>> \in less

\* A finite set has a first element in any order.
LEMMA FirstOf ==
    ASSUME NEW T, NEW less, IsFiniteSet(T), T # {}, StrictOrder(less, T)
    PROVE  \E x \in T : \A y \in T \ {x} : <<x, y>> \in less
<1>. DEFINE Has(U) == \E x \in U : \A y \in U \ {x} : <<x, y>> \in less
            G == {n \in Nat : \A U \in SUBSET T : U # {} /\ Cardinality(U) = n => Has(U)}
<1>0. \A U \in SUBSET T : IsFiniteSet(U) /\ Cardinality(U) \in Nat
  BY FS_Subset, FS_CardinalityType
<1>1. 0 \in G
  BY <1>0, FS_EmptySet
<1>2. ASSUME NEW n \in Nat, n \in G PROVE n + 1 \in G
  <2>1. SUFFICES ASSUME NEW U \in SUBSET T, U # {}, Cardinality(U) = n + 1 PROVE Has(U)
    OBVIOUS
  <2>2. PICK u \in U : TRUE
    BY <2>1
  <2>. DEFINE V == U \ {u}
  <2>3. V \in SUBSET T /\ Cardinality(V) = n
    BY <1>0, <2>1, <2>2, FS_RemoveElement
  <2>4. CASE V = {}
    BY <2>2, <2>4
  <2>5. CASE V # {}
    <3>1. Has(V)
      BY <1>2, <2>3, <2>5
    <3>2. PICK x \in V : \A y \in V \ {x} : <<x, y>> \in less
      BY <3>1
    <3>3. x # u /\ x \in T /\ u \in T
      BY <2>1, <3>2
    <3>4. CASE <<x, u>> \in less
      BY <2>2, <3>2, <3>4
    <3>5. CASE <<u, x>> \in less
      <4>1. ASSUME NEW y \in U \ {u} PROVE <<u, y>> \in less
        <5>1. y = x \/ <<x, y>> \in less
          BY <3>2, <4>1
        <5>2. y \in T
          BY <2>1
        <5>. QED
          BY <3>3, <3>5, <5>1, <5>2 DEF StrictOrder
      <4>. QED
        BY <2>2, <4>1
    <3>. QED
      BY <3>3, <3>4, <3>5 DEF StrictOrder
  <2>. QED
    BY <2>4, <2>5
<1>3. \A n \in Nat : n \in G
  <2>. HIDE DEF G
  <2>. QED
    BY <1>1, <1>2, Counting
<1>4. T \in SUBSET T /\ Cardinality(T) \in Nat
  BY <1>0
<1>. QED
  BY <1>3, <1>4

\* Intervals are the same only up to the same number.
LEMMA SameInterval == ASSUME NEW a \in Nat, NEW b \in Nat, 1..a = 1..b PROVE a = b
<1>1. \A x \in Nat \ {0} : x \in 1..a <=> x \in 1..b
  OBVIOUS
<1>2. ASSUME a < b PROVE FALSE
  <2>1. b \in 1..b /\ ~(b \in 1..a)
    BY <1>2
  <2>. QED
    BY <1>1, <1>2, <2>1
<1>3. ASSUME b < a PROVE FALSE
  <2>1. a \in 1..a /\ ~(a \in 1..b)
    BY <1>3
  <2>. QED
    BY <1>1, <1>3, <2>1
<1>. QED
  BY <1>2, <1>3

\* A sequence given by its elements.
LEMMA SequenceOf ==
    ASSUME NEW S, NEW n \in Nat, NEW f, f = [i \in 1..n |-> f[i]], \A i \in 1..n : f[i] \in S
    PROVE  f \in Seq(S) /\ Len(f) = n /\ DOMAIN f = 1..n
<1>1. f \in [1..n -> S]
  OBVIOUS
<1>2. f \in Seq(S)
  BY ONLY <1>1, n \in Nat, SeqDef
<1>3. DOMAIN f = 1..n /\ DOMAIN f = 1..Len(f) /\ Len(f) \in Nat
  BY <1>1, <1>2, LenProperties
<1>. QED
  BY <1>2, <1>3, SameInterval

\* The part of a sequence behind place lo.
IsSlice(t, s, lo, k) ==
    Len(t) = k /\ DOMAIN t = 1..k /\ \A i \in 1..k : t[i] = s[lo + i] /\ lo + i \in 1..Len(s)

\* SubSeq cuts such a part.
LEMMA SliceOf ==
    ASSUME NEW S, NEW s \in Seq(S), NEW lo \in Nat, NEW k \in Nat, lo + k <= Len(s)
    PROVE  SubSeq(s, lo + 1, lo + k) \in Seq(S) /\ IsSlice(SubSeq(s, lo + 1, lo + k), s, lo, k)
<1>. DEFINE t == SubSeq(s, lo + 1, lo + k)
<1>1. Len(s) \in Nat /\ \A j \in 1..Len(s) : s[j] \in S
  BY LenProperties, ElementOfSeq
<1>2. t = [i \in 1..k |-> s[lo + i]]
  BY <1>1
<1>3. \A i \in 1..k : lo + i \in 1..Len(s)
  BY <1>1
<1>4. t \in Seq(S) /\ Len(t) = k /\ DOMAIN t = 1..k
  BY <1>1, <1>2, <1>3
<1>. QED
  BY <1>2, <1>3, <1>4 DEF IsSlice

\* How many whole parts of k a number has.
LEMMA DivisionBounds ==
    ASSUME NEW n \in Nat, NEW k \in Nat \ {0}
    PROVE  /\ n \div k \in Nat /\ (n \div k) * k <= n /\ n < (n \div k) * k + k
           /\ n % k = 0 => (n \div k) * k = n
OBVIOUS

\* off[k] is where the k-th of pieces of these lengths ends.
StepsBy(ls, off) ==
    /\ off \in [0..Len(ls) -> Nat] /\ off[0] = 0
    /\ \A k \in 1..Len(ls) : off[k] = off[k - 1] + ls[k]

\* There are such places, and the last of them is the sum of the lengths.
LEMMA StepsExist ==
    ASSUME NEW ls \in Seq(Nat)
    PROVE  \E off : StepsBy(ls, off) /\ off[Len(ls)] = Sum(ls)
<1>0. Len(ls) \in Nat /\ \A k \in 1..Len(ls) : ls[k] \in Nat
  BY LenProperties, ElementOfSeq
<1>1. ls \in Seq(Int)
  BY SeqDef
<1>2. PICK f : SumStep(ls, f) /\ Sum(ls) = f[Len(ls)]
  BY <1>1, SumUnfold
<1>3. f = [n \in 0..Len(ls) |-> IF n = 0 THEN 0 ELSE f[n - 1] + ls[n]]
  BY <1>2 DEF SumStep
<1>4. f[0] = 0 /\ \A k \in 1..Len(ls) : f[k] = f[k - 1] + ls[k]
  <2>1. 0 \in 0..Len(ls) /\ \A k \in 1..Len(ls) : k \in 0..Len(ls) /\ k # 0
    BY <1>0
  <2>. QED
    BY <1>3, <2>1
<1>. DEFINE G == {k \in Nat : k <= Len(ls) => f[k] \in Nat}
<1>5. 0 \in G
  BY <1>4
<1>6. ASSUME NEW k \in Nat, k \in G PROVE k + 1 \in G
  <2>1. SUFFICES ASSUME k + 1 <= Len(ls) PROVE f[k + 1] \in Nat
    OBVIOUS
  <2>2. k + 1 \in 1..Len(ls) /\ (k + 1) - 1 = k /\ f[k] \in Nat
    BY <1>0, <1>6, <2>1
  <2>3. f[k + 1] = f[k] + ls[k + 1] /\ ls[k + 1] \in Nat
    BY <1>0, <1>4, <2>2
  <2>. QED
    BY <2>2, <2>3
<1>7. \A k \in Nat : k \in G
  <2>. HIDE DEF G
  <2>. QED
    BY <1>5, <1>6, Counting
<1>8. \A k \in 0..Len(ls) : f[k] \in Nat
  BY <1>0, <1>7
<1>9. f \in [0..Len(ls) -> Nat]
  BY <1>3, <1>8
<1>10. StepsBy(ls, f)
  BY <1>4, <1>9 DEF StepsBy
<1>. QED
  BY <1>2, <1>10

\* They grow from piece to piece.
LEMMA StepsGrow ==
    ASSUME NEW ls \in Seq(Nat), NEW off, StepsBy(ls, off)
    PROVE  /\ \A k, l \in 0..Len(ls) : k <= l => off[k] <= off[l]
           /\ \A k \in 0..Len(ls) : off[k] \in Nat
           /\ Len(ls) \in Nat /\ \A k \in 1..Len(ls) : ls[k] \in Nat
<1>0. Len(ls) \in Nat /\ \A k \in 1..Len(ls) : ls[k] \in Nat
  BY LenProperties, ElementOfSeq
<1>1. /\ \A k \in 0..Len(ls) : off[k] \in Nat
      /\ \A k \in 1..Len(ls) : off[k] = off[k - 1] + ls[k]
  BY DEF StepsBy
<1>2. ASSUME NEW k \in 0..Len(ls), NEW l \in 0..Len(ls), k <= l PROVE off[k] <= off[l]
  <2>. DEFINE G == {m \in Nat : k + m <= Len(ls) => off[k] <= off[k + m]}
  <2>1. 0 \in G
    BY <1>1
  <2>2. ASSUME NEW m \in Nat, m \in G PROVE m + 1 \in G
    <3>1. SUFFICES ASSUME k + (m + 1) <= Len(ls) PROVE off[k] <= off[k + (m + 1)]
      OBVIOUS
    <3>2. /\ k + (m + 1) \in 1..Len(ls) /\ (k + (m + 1)) - 1 = k + m /\ k + m \in 0..Len(ls)
          /\ k + m <= Len(ls)
      BY <1>0, <3>1
    <3>3. off[k + (m + 1)] = off[k + m] + ls[k + (m + 1)]
      BY <1>1, <3>2
    <3>4. off[k] <= off[k + m] /\ off[k + m] \in Nat /\ ls[k + (m + 1)] \in Nat /\ off[k] \in Nat
      BY <1>0, <1>1, <2>2, <3>2
    <3>. QED
      BY <3>3, <3>4
  <2>3. \A m \in Nat : m \in G
    <3>. HIDE DEF G
    <3>. QED
      BY <2>1, <2>2, Counting
  <2>4. l - k \in Nat /\ k + (l - k) = l /\ l <= Len(ls)
    BY <1>0, <1>2
  <2>5. l - k \in G
    <3>. HIDE DEF G
    <3>. QED
      BY <2>3, <2>4
  <2>6. k + (l - k) <= Len(ls) => off[k] <= off[k + (l - k)]
    BY <2>5
  <2>. QED
    BY <2>4, <2>6
<1>. QED
  BY <1>0, <1>1, <1>2

\* Every place up to the last end is in one piece.
LEMMA StepsCover ==
    ASSUME NEW ls \in Seq(Nat), NEW off, StepsBy(ls, off), NEW p \in 1..off[Len(ls)]
    PROVE  \E k \in 1..Len(ls) : p - off[k - 1] \in 1..ls[k]
<1>0. /\ Len(ls) \in Nat /\ \A k \in 1..Len(ls) : ls[k] \in Nat
      /\ \A k \in 0..Len(ls) : off[k] \in Nat
  BY StepsGrow
<1>1. off[0] = 0 /\ \A k \in 1..Len(ls) : off[k] = off[k - 1] + ls[k]
  BY DEF StepsBy
<1>. DEFINE G == {m \in Nat : m <= Len(ls) /\ p <= off[m] =>
                     \E k \in 1..Len(ls) : p - off[k - 1] \in 1..ls[k]}
<1>2. 0 \in G
  BY <1>1
<1>3. ASSUME NEW m \in Nat, m \in G PROVE m + 1 \in G
  <2>1. SUFFICES ASSUME m + 1 <= Len(ls), p <= off[m + 1]
                 PROVE  \E k \in 1..Len(ls) : p - off[k - 1] \in 1..ls[k]
    OBVIOUS
  <2>2. CASE p <= off[m]
    BY <1>3, <2>1, <2>2, <1>0
  <2>3. CASE ~(p <= off[m])
    <3>1. m + 1 \in 1..Len(ls) /\ (m + 1) - 1 = m /\ m \in 0..Len(ls)
      BY <1>0, <2>1
    <3>2. off[m + 1] = off[m] + ls[m + 1] /\ off[m] \in Nat /\ ls[m + 1] \in Nat
      BY <1>0, <1>1, <3>1
    <3>3. p \in Int
      BY <1>0
    <3>4. p - off[m] \in 1..ls[m + 1]
      BY <2>1, <2>3, <3>2, <3>3
    <3>. QED
      BY <3>1, <3>4
  <2>. QED
    BY <2>2, <2>3
<1>4. \A m \in Nat : m \in G
  <2>. HIDE DEF G
  <2>. QED
    BY <1>2, <1>3, Counting
<1>5. p <= off[Len(ls)]
  BY <1>0
<1>. QED
  BY <1>0, <1>4, <1>5

\* Only in one.
LEMMA StepsApart ==
    ASSUME NEW ls \in Seq(Nat), NEW off, StepsBy(ls, off),
           NEW k \in 1..Len(ls), NEW l \in 1..Len(ls), NEW i \in 1..ls[k], NEW j \in 1..ls[l]
    PROVE  /\ k < l => off[k - 1] + i < off[l - 1] + j
           /\ off[k - 1] + i = off[l - 1] + j => k = l /\ i = j
           /\ off[k - 1] + i \in 1..off[Len(ls)]
<1>0. /\ Len(ls) \in Nat /\ \A m \in 1..Len(ls) : ls[m] \in Nat
      /\ \A m \in 0..Len(ls) : off[m] \in Nat
      /\ \A m, q \in 0..Len(ls) : m <= q => off[m] <= off[q]
  BY StepsGrow
<1>1. off[k] = off[k - 1] + ls[k] /\ off[l] = off[l - 1] + ls[l]
  BY DEF StepsBy
<1>2. /\ k \in 0..Len(ls) /\ l \in 0..Len(ls) /\ k - 1 \in 0..Len(ls) /\ l - 1 \in 0..Len(ls)
      /\ Len(ls) \in 0..Len(ls)
  BY <1>0
<1>3. /\ off[k] \in Nat /\ off[l] \in Nat /\ off[k - 1] \in Nat /\ off[l - 1] \in Nat
      /\ off[Len(ls)] \in Nat /\ ls[k] \in Nat /\ ls[l] \in Nat
  BY <1>0, <1>2
<1>3a. i \in Int /\ i >= 1 /\ i <= ls[k] /\ j \in Int /\ j >= 1 /\ j <= ls[l]
       /\ (k < l \/ l < k \/ k = l)
  BY <1>0, <1>3
<1>4. /\ k < l => off[k] <= off[l - 1]
      /\ l < k => off[l] <= off[k - 1]
      /\ off[k] <= off[Len(ls)]
  BY <1>0, <1>2
<1>. DEFINE a == off[k - 1]
            b == off[l - 1]
            c == off[Len(ls)]
            d == off[k]
            e == off[l]
<1>4a. /\ a \in Nat /\ b \in Nat /\ c \in Nat /\ d \in Nat /\ e \in Nat
       /\ d = a + ls[k] /\ e = b + ls[l] /\ (k < l => d <= b) /\ (l < k => e <= a) /\ d <= c
  BY <1>1, <1>3, <1>4
<1>. HIDE DEF a, b, c, d, e
<1>5. k < l => a + i < b + j
  BY <1>3, <1>3a, <1>4a
<1>6. l < k => b + j < a + i
  BY <1>3, <1>3a, <1>4a
<1>7. a + i \in 1..c
  BY <1>3, <1>3a, <1>4a
<1>8. ASSUME a + i = b + j PROVE k = l /\ i = j
  <2>1. k = l
    BY <1>3a, <1>4a, <1>5, <1>6, <1>8
  <2>2. a = b
    BY <2>1 DEF a, b
  <2>. QED
    BY <1>3a, <1>4a, <1>8, <2>1, <2>2
<1>. QED
  BY <1>5, <1>7, <1>8 DEF a, b, c

\* The pieces of s are in t, one after the other.
Laid(s, t, off) ==
    \A k \in 1..Len(s) : \A j \in 1..Len(s[k]) : t[off[k - 1] + j] = s[k][j]
LaidUpTo(s, t, off, m) ==
    \A k \in 1..m : \A j \in 1..Len(s[k]) : t[off[k - 1] + j] = s[k][j]

\* Pieces of these lengths.
LengthsOf(s, ls) == Len(ls) = Len(s) /\ \A k \in 1..Len(s) : Len(s[k]) = ls[k]

\* That is where a flattened sequence has them.
LEMMA FlatLaid ==
    ASSUME NEW S, NEW s \in Seq(Seq(S)), NEW ls \in Seq(Nat), NEW off,
           LengthsOf(s, ls), StepsBy(ls, off)
    PROVE  /\ FlattenSeq(s) \in Seq(S) /\ Len(FlattenSeq(s)) = off[Len(ls)]
           /\ Laid(s, FlattenSeq(s), off)
           /\ \A m \in 0..Len(ls) : Len(FlattenSeq(SubSeq(s, 1, m))) = off[m]
<1>0. /\ Len(ls) \in Nat /\ Len(s) = Len(ls) /\ \A k \in 1..Len(ls) : ls[k] \in Nat
      /\ \A k \in 1..Len(ls) : Len(s[k]) = ls[k]
      /\ \A k \in 0..Len(ls) : off[k] \in Nat
      /\ \A k, l \in 0..Len(ls) : k <= l => off[k] <= off[l]
  BY StepsGrow DEF LengthsOf
<1>1. off[0] = 0 /\ \A k \in 1..Len(ls) : off[k] = off[k - 1] + ls[k]
  BY DEF StepsBy
<1>. DEFINE T(m) == FlattenSeq(SubSeq(s, 1, m))
            G == {m \in Nat : m <= Len(ls) =>
                     T(m) \in Seq(S) /\ Len(T(m)) = off[m] /\ LaidUpTo(s, T(m), off, m)}
<1>2. 0 \in G
  <2>0. SubSeq(s, 1, 0) = <<>>
    BY SubSeqEmpty
  <2>1. T(0) = <<>>
    BY <2>0, FlatEmpty
  <2>2. T(0) \in Seq(S) /\ Len(T(0)) = 0
    BY <2>1, EmptySeq
  <2>3. LaidUpTo(s, T(0), off, 0)
    BY DEF LaidUpTo
  <2>. HIDE DEF T
  <2>. QED
    BY <1>1, <2>2, <2>3
<1>3. ASSUME NEW m \in Nat, m \in G PROVE m + 1 \in G
  <2>. SUFFICES ASSUME m + 1 <= Len(ls)
                PROVE  /\ T(m + 1) \in Seq(S) /\ Len(T(m + 1)) = off[m + 1]
                       /\ LaidUpTo(s, T(m + 1), off, m + 1)
    OBVIOUS
  <2>1. m \in 0..(Len(s) - 1) /\ m + 1 \in 1..Len(ls) /\ (m + 1) - 1 = m /\ m <= Len(ls)
    BY <1>0
  <2>2. s[m + 1] \in Seq(S) /\ T(m + 1) = T(m) \o s[m + 1]
    BY <2>1, FlatStepwise
  <2>3. T(m) \in Seq(S) /\ Len(T(m)) = off[m] /\ LaidUpTo(s, T(m), off, m)
    BY <1>3, <2>1
  <2>. DEFINE a == T(m)
              b == s[m + 1]
              u == T(m + 1)
  <2>4. a \in Seq(S) /\ b \in Seq(S) /\ u = a \o b /\ Len(a) = off[m] /\ LaidUpTo(s, a, off, m)
        /\ b = s[m + 1]
    BY <2>2, <2>3
  <2>5. SUFFICES u \in Seq(S) /\ Len(u) = off[m + 1] /\ LaidUpTo(s, u, off, m + 1)
    OBVIOUS
  <2>. HIDE DEF a, b, u, T, G
  <2>6. /\ u \in Seq(S) /\ Len(u) = Len(a) + Len(b)
        /\ \A i \in 1..Len(a) : u[i] = a[i]
        /\ \A i \in 1..Len(b) : u[Len(a) + i] = b[i]
    <3>1. a \in Seq(S) /\ b \in Seq(S) /\ u = a \o b
      BY <2>4
    <3>2. /\ a \o b \in Seq(S) /\ Len(a \o b) = Len(a) + Len(b)
          /\ \A i \in 1..Len(a) : (a \o b)[i] = a[i]
          /\ \A i \in 1..Len(b) : (a \o b)[Len(a) + i] = b[i]
      BY <3>1, JoinedAt
    <3>. QED
      BY <3>1, <3>2
  <2>7. Len(b) = ls[m + 1] /\ off[m + 1] = off[m] + ls[m + 1]
    BY <1>0, <1>1, <2>1, <2>4
  <2>8. ASSUME NEW k \in 1..(m + 1), NEW j \in 1..Len(s[k])
        PROVE  u[off[k - 1] + j] = s[k][j]
    <3>1. CASE k = m + 1
      <4>1. k - 1 = m /\ j \in 1..Len(b)
        BY <2>4, <3>1
      <4>2. u[Len(a) + j] = b[j]
        BY <2>6, <4>1
      <4>. QED
        BY <2>4, <3>1, <4>1, <4>2
    <3>2. CASE k # m + 1
      <4>1. k \in 1..m /\ k \in 1..Len(ls) /\ k \in 0..Len(ls) /\ m \in 0..Len(ls) /\ k <= m
            /\ k - 1 \in 0..Len(ls)
        BY <2>1, <3>2
      <4>2. a[off[k - 1] + j] = s[k][j]
        BY <2>4, <4>1 DEF LaidUpTo
      <4>3. off[k] = off[k - 1] + ls[k] /\ Len(s[k]) = ls[k] /\ off[k] <= off[m]
            /\ off[k - 1] \in Nat /\ ls[k] \in Nat /\ off[m] \in Nat
        BY <1>0, <1>1, <4>1
      <4>4. off[k - 1] + j \in 1..Len(a)
        <5>. DEFINE x == off[k - 1]
                    y == off[k]
                    z == off[m]
        <5>1. /\ x \in Nat /\ z \in Nat /\ ls[k] \in Nat /\ y = x + ls[k] /\ y <= z
              /\ Len(a) = z
          BY <2>4, <4>3
        <5>2. j \in 1..ls[k]
          BY <4>3
        <5>. HIDE DEF x, y, z
        <5>3. x + j \in 1..z
          BY <5>1, <5>2
        <5>. QED
          BY <5>1, <5>3 DEF x
      <4>. QED
        BY <2>6, <4>2, <4>4
    <3>. QED
      BY <3>1, <3>2
  <2>. QED
    BY <2>4, <2>6, <2>7, <2>8 DEF LaidUpTo
<1>4. \A m \in Nat : m \in G
  <2>. HIDE DEF G
  <2>. QED
    BY <1>2, <1>3, Counting
<1>5. \A m \in 0..Len(ls) : T(m) \in Seq(S) /\ Len(T(m)) = off[m] /\ LaidUpTo(s, T(m), off, m)
  BY <1>0, <1>4
<1>6. T(Len(ls)) = FlattenSeq(s)
  BY <1>0, SubSeqFull
<1>7. LaidUpTo(s, T(Len(ls)), off, Len(ls)) /\ T(Len(ls)) \in Seq(S)
      /\ Len(T(Len(ls))) = off[Len(ls)]
  <2>. HIDE DEF T
  <2>. QED
    BY <1>0, <1>5
<1>8. Laid(s, FlattenSeq(s), off)
  <2>. HIDE DEF T
  <2>. QED
    BY <1>0, <1>6, <1>7 DEF Laid, LaidUpTo
<1>9. \A m \in 0..Len(ls) : Len(FlattenSeq(SubSeq(s, 1, m))) = off[m]
  BY <1>5
<1>. QED
  BY <1>6, <1>7, <1>8, <1>9
-----------------------------------------------------------------------------
(* Cutting and labelling a conversation. *)

\* The smaller of two numbers.
LEMMA MinOfTwo ==
    ASSUME NEW a \in Int, NEW b \in Int
    PROVE  Min({a, b}) = IF a <= b THEN a ELSE b
<1>1. \E x \in {a, b} : \A y \in {a, b} : x <= y
  OBVIOUS
<1>2. Min({a, b}) \in {a, b} /\ \A y \in {a, b} : Min({a, b}) <= y
  BY <1>1 DEF Min
<1>. QED
  BY <1>2

\* The larger of two numbers.
LEMMA MaxOfTwo ==
    ASSUME NEW a \in Int, NEW b \in Int
    PROVE  Max({a, b}) = IF a >= b THEN a ELSE b
<1>1. \E x \in {a, b} : \A y \in {a, b} : x >= y
  OBVIOUS
<1>2. Max({a, b}) \in {a, b} /\ \A y \in {a, b} : Max({a, b}) >= y
  BY <1>1 DEF Max
<1>. QED
  BY <1>2

\* Of two long sides each gets a part, and the parts are all there is unless one has
\* as much as it wants.
LEMMA SharedRoom ==
    ASSUME NEW c \in Nat, NEW s \in Nat, NEW t \in Nat, s # 0, t # 0, c # 0, NEW q \in Nat,
           q * (s + t) <= c * t, c * t < q * (s + t) + (s + t)
    PROVE  q <= c - 1 /\ (q < t => c <= s + q) /\ (q * (s + t) = c * t => q # 0)
<1>1. q <= c - 1
  <2>1. SUFFICES ASSUME q >= c PROVE FALSE
    OBVIOUS
  <2>2. q * (s + t) >= c * (s + t)
    BY <2>1
  <2>3. c * (s + t) = c * s + c * t
    OBVIOUS
  <2>4. c * s >= 1
    OBVIOUS
  <2>5. c * t \in Nat /\ c * s \in Nat /\ q * (s + t) \in Nat
    OBVIOUS
  <2>. QED
    BY <2>2, <2>3, <2>4, <2>5
<1>2. ASSUME q < t PROVE c <= s + q
  <2>1. SUFFICES ASSUME s + q + 1 <= c PROVE FALSE
    OBVIOUS
  <2>2. (s + q + 1) * t <= c * t
    BY <2>1
  <2>3. (s + q + 1) * t = s * t + q * t + t
    OBVIOUS
  <2>4. q * (s + t) = q * s + q * t
    OBVIOUS
  <2>5. (q + 1) * s <= t * s
    BY <1>2
  <2>6. (q + 1) * s = q * s + s /\ t * s = s * t
    OBVIOUS
  <2>7. s * t \in Nat /\ q * t \in Nat /\ q * s \in Nat /\ c * t \in Nat
    OBVIOUS
  <2>. QED
    BY <2>2, <2>3, <2>4, <2>5, <2>6, <2>7
<1>3. q * (s + t) = c * t => q # 0
  <2>1. c * t >= 1
    OBVIOUS
  <2>2. q = 0 => q * (s + t) = 0
    OBVIOUS
  <2>. QED
    BY <2>1, <2>2
<1>. QED
  BY <1>1, <1>2, <1>3

\* Where the quotient is exact and one has as much as it wants, so has the other.
LEMMA SharedExactly ==
    ASSUME NEW c \in Nat, NEW s \in Nat, NEW t \in Nat, s # 0, t # 0, NEW q \in Nat,
           q * (s + t) = c * t, q <= t
    PROVE  c <= s + q
<1>1. SUFFICES ASSUME s + q + 1 <= c PROVE FALSE
  OBVIOUS
<1>2. (s + q + 1) * t <= c * t
  BY <1>1
<1>3. (s + q + 1) * t = s * t + q * t + t
  OBVIOUS
<1>4. q * (s + t) = q * s + q * t
  OBVIOUS
<1>5. q * s <= t * s /\ t * s = s * t
  OBVIOUS
<1>6. s * t \in Nat /\ q * t \in Nat /\ q * s \in Nat /\ c * t \in Nat
  OBVIOUS
<1>. QED
  BY <1>2, <1>3, <1>4, <1>5, <1>6

\* A turn, and what it is cut to.
Turn == [source : Nat \ {0}, target : Nat \ {0}]
Cut == [source : Nat, target : Nat]

\* What is cut has room and is not cut more than it must be.
CutTo(cut, turn, room) ==
    /\ cut.source \in 1 .. turn.source /\ cut.target \in 0 .. turn.target
    /\ cut.source + cut.target <= room
    /\ (cut.source = turn.source /\ cut.target = turn.target) \/ cut.source + cut.target = room

\* The part two long sides share.
LEMMA QuotientBounds ==
    ASSUME NEW turn \in Turn, NEW c \in Nat, c # 0, NEW o,
           2 * turn.target >= c, 2 * turn.source >= c
    PROVE  LET q == Quotient(turn, c, o) IN
           q \in Nat /\ q <= c - 1 /\ (q < turn.target => c <= turn.source + q)
<1>. DEFINE s == turn.source
            t == turn.target
            x == c * t
            y == s + t
            p == x \div y
<1>1. s \in Nat /\ t \in Nat /\ s # 0 /\ t # 0 /\ 2 * t >= c /\ 2 * s >= c
  BY DEF Turn
<1>. HIDE DEF s, t
<1>2. x \in Nat /\ y \in Nat /\ y # 0
  BY <1>1
<1>3. /\ p \in Nat /\ p * y <= x /\ x < p * y + y /\ (x % y = 0 => p * y = x)
  <2>. HIDE DEF x, y
  <2>. QED
    BY <1>2, DivisionBounds
<1>4. Quotient(turn, c, o) = p - (IF FallsShort(turn, c, o) THEN 1 ELSE 0)
  BY DEF Quotient, s, t
<1>5. FallsShort(turn, c, o) => s # t /\ x % y = 0
  BY DEF FallsShort, s, t
<1>. HIDE DEF p
<1>6. p <= c - 1 /\ (p < t => c <= s + p) /\ (p * (s + t) = c * t => p # 0)
  BY <1>1, <1>3, SharedRoom
<1>7. CASE ~FallsShort(turn, c, o)
  BY <1>3, <1>4, <1>6, <1>7 DEF s, t
<1>8. CASE FallsShort(turn, c, o)
  <2>1. p * (s + t) = c * t /\ s # t
    BY <1>3, <1>5, <1>8
  <2>2. p # 0 /\ Quotient(turn, c, o) = p - 1
    BY <1>4, <1>6, <1>8, <2>1
  <2>3. ASSUME p - 1 < t PROVE c <= s + (p - 1)
    <3>1. p <= t
      BY <1>1, <1>3, <2>3
    <3>2. c <= s + p
      BY <1>1, <1>3, <2>1, <3>1, SharedExactly
    <3>3. SUFFICES ASSUME c = s + p PROVE FALSE
      BY <1>1, <1>3, <3>2
    <3>4. p * (s + t) = p * s + p * t /\ c * t = s * t + p * t
      BY <1>1, <1>3, <3>3
    <3>5. p * s = s * t
      <4>1. p * s \in Nat /\ p * t \in Nat /\ s * t \in Nat
        BY <1>1, <1>3
      <4>. QED
        BY <2>1, <3>4, <4>1
    <3>6. p = t
      <4>1. p < t => p * s + s <= t * s
        BY <1>1, <1>3
      <4>2. t * s = s * t
        BY <1>1
      <4>3. p * s \in Nat /\ s * t \in Nat
        BY <1>1, <1>3
      <4>. QED
        BY <1>1, <1>3, <3>1, <3>5, <4>1, <4>2, <4>3
    <3>. QED
      BY <1>1, <2>1, <3>3, <3>6
  <2>. QED
    BY <1>3, <1>6, <2>2, <2>3 DEF s, t
<1>. QED
  BY <1>7, <1>8

\* infer_seqlen.
LEMMA InferBounds ==
    ASSUME NEW turn \in Turn, NEW c \in Nat, c # 0, NEW o
    PROVE  InferSeqlen(turn, c, o) \in Cut /\ CutTo(InferSeqlen(turn, c, o), turn, c)
<1>. DEFINE s == turn.source
            t == turn.target
            most == MaxTarget(turn, c, o)
            a == Min({most, t})
            b == Min({Max({c - a, 0}), s})
            q == Quotient(turn, c, o)
<1>1. s \in Nat /\ t \in Nat /\ s # 0 /\ t # 0
  BY DEF Turn
<1>2. InferSeqlen(turn, c, o) = [source |-> b, target |-> a]
  BY DEF InferSeqlen
<1>3. /\ 2 * t < c => most = c
      /\ 2 * t >= c /\ 2 * s < c => most = c - s
      /\ 2 * t >= c /\ 2 * s >= c => most = q
  BY <1>1 DEF MaxTarget
<1>4. 2 * t >= c /\ 2 * s >= c => q \in Nat /\ q <= c - 1 /\ (q < t => c <= s + q)
  BY QuotientBounds
<1>. HIDE DEF s, t, most, q
<1>5. most \in Int
  BY <1>1, <1>3, <1>4
<1>6. a = IF most <= t THEN most ELSE t
  BY <1>1, <1>5, MinOfTwo
<1>. HIDE DEF a
<1>7. a \in Int /\ c - a \in Int /\ 0 \in Int
  BY <1>1, <1>5, <1>6
<1>8. Max({c - a, 0}) = IF c - a >= 0 THEN c - a ELSE 0
  BY <1>7, MaxOfTwo
<1>9. b = IF Max({c - a, 0}) <= s THEN Max({c - a, 0}) ELSE s
  <2>1. Max({c - a, 0}) \in Int
    BY <1>7, <1>8
  <2>. QED
    BY <1>1, <2>1, MinOfTwo
<1>. HIDE DEF b
<1>10. /\ b \in 1..s /\ a \in 0..t /\ b + a <= c /\ ((b = s /\ a = t) \/ b + a = c)
  <2>1. CASE 2 * t < c
    BY <1>1, <1>3, <1>6, <1>8, <1>9, <2>1
  <2>2. CASE 2 * t >= c /\ 2 * s < c
    BY <1>1, <1>3, <1>6, <1>8, <1>9, <2>2
  <2>3. CASE 2 * t >= c /\ 2 * s >= c
    BY <1>1, <1>3, <1>4, <1>6, <1>8, <1>9, <2>3
  <2>. QED
    BY <1>1, <2>1, <2>2, <2>3
<1>11. a \in Nat /\ b \in Nat
  BY <1>1, <1>10
<1>. QED
  BY <1>2, <1>10, <1>11 DEF Cut, CutTo, s, t

\* The tokens a cut keeps.
Size == [c \in Cut |-> c.source + c.target]

\* The rows of cuts, turn by turn.
CutRows(pairs, used, o, m, row) ==
    row = [n \in 0..m |-> IF n = 0 THEN [used |-> used, cuts |-> <<>>]
                          ELSE AddCut(row[n - 1], pairs[n], o)]

\* There are such rows.
LEMMA CutRowsExist ==
    ASSUME NEW pairs, NEW used, NEW o, NEW m \in Nat
    PROVE  \E row : CutRows(pairs, used, o, m, row)
<1>. DEFINE none == [used |-> used, cuts |-> <<>>]
            G == {k \in Nat : \E row : CutRows(pairs, used, o, k, row)}
<1>1. 0 \in G
  <2>1. CutRows(pairs, used, o, 0, [n \in 0..0 |-> none])
    BY DEF CutRows
  <2>. QED
    BY <2>1
<1>2. ASSUME NEW k \in Nat, k \in G PROVE k + 1 \in G
  <2>1. PICK f : CutRows(pairs, used, o, k, f)
    BY <1>2
  <2>. DEFINE next == AddCut(f[k], pairs[k + 1], o)
              g == [n \in 0..(k + 1) |-> IF n < k + 1 THEN f[n] ELSE next]
  <2>2. f = [n \in 0..k |-> IF n = 0 THEN none ELSE AddCut(f[n - 1], pairs[n], o)]
    BY <2>1 DEF CutRows
  <2>3. ASSUME NEW n \in 0..(k + 1)
        PROVE  g[n] = IF n = 0 THEN none ELSE AddCut(g[n - 1], pairs[n], o)
    <3>1. CASE n = 0
      BY <2>2, <3>1
    <3>2. CASE n \in 1..k
      <4>1. g[n] = f[n] /\ g[n - 1] = f[n - 1] /\ n # 0 /\ n \in 0..k
        BY <3>2
      <4>. QED
        BY <2>2, <4>1
    <3>3. CASE n = k + 1
      <4>1. g[n] = next /\ g[n - 1] = f[k] /\ n # 0
        BY <3>3
      <4>. QED
        BY <3>3, <4>1
    <3>. QED
      BY <3>1, <3>2, <3>3
  <2>4. g = [n \in 0..(k + 1) |-> g[n]]
    OBVIOUS
  <2>. HIDE DEF g, none
  <2>5. g = [n \in 0..(k + 1) |-> IF n = 0 THEN none ELSE AddCut(g[n - 1], pairs[n], o)]
    BY <2>3, <2>4
  <2>6. CutRows(pairs, used, o, k + 1, g)
    BY <2>5 DEF CutRows, none
  <2>. QED
    BY <2>6
<1>3. \A k \in Nat : k \in G
  <2>. HIDE DEF G
  <2>. QED
    BY <1>1, <1>2, Counting
<1>. QED
  BY <1>3

\* Cuts is what the last of them holds.
LEMMA CutsUnfold ==
    ASSUME NEW pairs \in Seq(Turn), NEW used, NEW o
    PROVE  \E row : CutRows(pairs, used, o, Len(pairs), row)
                    /\ Cuts(pairs, used, o) = row[Len(pairs)].cuts
<1>1. \E row : CutRows(pairs, used, o, Len(pairs), row)
  BY CutRowsExist, LenProperties
<1>2. CutRows(pairs, used, o, Len(pairs), CHOOSE row : CutRows(pairs, used, o, Len(pairs), row))
  BY <1>1
<1>3. Cuts(pairs, used, o)
          = (CHOOSE row : CutRows(pairs, used, o, Len(pairs), row))[Len(pairs)].cuts
  BY DEF Cuts, CutRows
<1>. QED
  BY <1>2, <1>3

\* As much is kept of a turn as it has.
Whole(cut, turn) == cut.source = turn.source /\ cut.target = turn.target
Trimmed(cut, turn) == cut.source \in 1 .. turn.source /\ cut.target \in 0 .. turn.target

\* The cuts of the first n turns, in a row that had used places before.
CutsSoFar(pairs, used, o, n, r) ==
    /\ r.cuts \in Seq(Cut) /\ Len(r.cuts) <= n
    /\ r.used = used + Sum(Mapped(Size, r.cuts)) /\ Sum(Mapped(Size, r.cuts)) \in Nat
    /\ \A i \in 1..Len(r.cuts) : Trimmed(r.cuts[i], pairs[i])
    /\ \A i \in 1..Len(r.cuts) : i < Len(r.cuts) => r.cuts[i].target # 0
    /\ r.used < o.cutoff =>
          /\ Len(r.cuts) = n
          /\ \A i \in 1..n : Whole(r.cuts[i], pairs[i])
    /\ IF used >= o.cutoff THEN r.cuts = <<>> ELSE r.used <= o.cutoff

\* One more turn, in a row with room for some of it.
LEMMA CutsStep ==
    ASSUME NEW pairs \in Seq(Turn), NEW used \in Nat, NEW o, o.cutoff \in Nat,
           NEW n \in Nat, n + 1 <= Len(pairs), NEW r, CutsSoFar(pairs, used, o, n, r),
           r.used < o.cutoff
    PROVE  CutsSoFar(pairs, used, o, n + 1, AddCut(r, pairs[n + 1], o))
<1>. DEFINE s == r.cuts
            room == o.cutoff - r.used
            turn == pairs[n + 1]
            cut == InferSeqlen(turn, room, o)
            t == Append(s, cut)
            sum == Sum(Mapped(Size, s))
            q == AddCut(r, turn, o)
<1>0. Len(pairs) \in Nat /\ \A i \in 1..Len(pairs) : pairs[i] \in Turn
  BY LenProperties, ElementOfSeq
<1>1. /\ s \in Seq(Cut) /\ Len(s) = n /\ r.used = used + sum /\ sum \in Nat
      /\ \A i \in 1..n : Trimmed(s[i], pairs[i]) /\ Whole(s[i], pairs[i])
      /\ ~(used >= o.cutoff)
  <2>1. Len(s) = n
    BY DEF CutsSoFar
  <2>2. ~(used >= o.cutoff)
    <3>1. r.used = used + sum /\ sum \in Nat
      BY DEF CutsSoFar
    <3>. HIDE DEF sum
    <3>. QED
      BY <3>1
  <2>. QED
    BY <2>1, <2>2 DEF CutsSoFar
<1>2. turn \in Turn /\ room \in Nat /\ room # 0
  <2>1. n + 1 \in 1..Len(pairs)
    BY <1>0
  <2>2. turn \in Turn
    BY <1>0, <2>1
  <2>. HIDE DEF sum, turn
  <2>. QED
    BY <1>1, <2>2
<1>3. q = [used |-> r.used + cut.source + cut.target, cuts |-> t]
  <2>1. ~(r.used >= o.cutoff)
    <3>. HIDE DEF sum
    <3>1. r.used \in Nat
      BY <1>1
    <3>. QED
      BY <3>1
  <2>2. q = IF r.used >= o.cutoff THEN r
            ELSE [used |-> r.used + cut.source + cut.target, cuts |-> t]
    BY DEF AddCut
  <2>. HIDE DEF q, t, cut
  <2>. QED
    BY <2>1, <2>2
<1>. HIDE DEF room, turn
<1>4. cut \in Cut /\ CutTo(cut, turn, room)
  BY <1>2, InferBounds
<1>. HIDE DEF cut
<1>5. /\ t \in Seq(Cut) /\ Len(t) = n + 1 /\ t[n + 1] = cut /\ \A i \in 1..n : t[i] = s[i]
  BY <1>1, <1>4, AppendProperties
<1>6. Mapped(Size, t) = Append(Mapped(Size, s), cut.source + cut.target)
  <2>1. Mapped(Size, t) = Append(Mapped(Size, s), Size[cut])
    BY <1>1, <1>4, MappedAppend
  <2>2. Size[cut] = cut.source + cut.target
    BY <1>4 DEF Size
  <2>. QED
    BY <2>1, <2>2
<1>7. cut.source \in Nat /\ cut.target \in Nat
  BY <1>4 DEF Cut
<1>8. Sum(Mapped(Size, t)) = sum + (cut.source + cut.target)
  <2>1. Size \in [Cut -> Int]
    BY DEF Size, Cut
  <2>2. Mapped(Size, s) \in Seq(Int)
    BY <1>1, <2>1, MappedType
  <2>3. cut.source + cut.target \in Int
    BY <1>7
  <2>. QED
    BY <1>6, <2>2, <2>3, SumAppend
<1>. HIDE DEF sum, t, q
<1>9. q.cuts = t /\ q.used = r.used + cut.source + cut.target
  BY <1>3
<1>10. q.used = used + Sum(Mapped(Size, t)) /\ Sum(Mapped(Size, t)) \in Nat
       /\ q.used <= o.cutoff
  <2>1. cut.source + cut.target <= room
    BY <1>4 DEF CutTo
  <2>2. r.used \in Nat /\ room = o.cutoff - r.used
    BY <1>1 DEF room
  <2>. QED
    BY <1>1, <1>7, <1>8, <1>9, <2>1, <2>2
<1>11. ASSUME NEW i \in 1..(n + 1) PROVE Trimmed(t[i], pairs[i])
  <2>1. CASE i \in 1..n
    BY <1>1, <1>5, <2>1
  <2>2. CASE i = n + 1
    BY <1>4, <1>5, <2>2 DEF CutTo, Trimmed, turn
  <2>. QED
    BY <2>1, <2>2
<1>12. ASSUME NEW i \in 1..(n + 1), i < n + 1 PROVE t[i].target # 0
  <2>1. i \in 1..n /\ i \in 1..Len(pairs)
    BY <1>0, <1>12
  <2>2. t[i] = s[i] /\ s[i].target = pairs[i].target /\ pairs[i] \in Turn
    BY <1>0, <1>1, <1>5, <2>1 DEF Whole
  <2>. QED
    BY <2>2 DEF Turn
<1>13. ASSUME q.used < o.cutoff, NEW i \in 1..(n + 1) PROVE Whole(t[i], pairs[i])
  <2>1. CASE i \in 1..n
    BY <1>1, <1>5, <2>1
  <2>2. CASE i = n + 1
    <3>1. cut.source + cut.target # room
      BY <1>1, <1>7, <1>9, <1>13 DEF room
    <3>. QED
      BY <1>4, <1>5, <2>2, <3>1 DEF CutTo, Whole, turn
  <2>. QED
    BY <2>1, <2>2
<1>14. CutsSoFar(pairs, used, o, n + 1, q)
  BY <1>1, <1>5, <1>9, <1>10, <1>11, <1>12, <1>13 DEF CutsSoFar
<1>. QED
  BY <1>14 DEF q, turn

\* The cuts of a conversation.
WellCut(cuts, pairs, used, o) ==
    /\ cuts \in Seq(Cut) /\ Len(cuts) <= Len(pairs)
    /\ Sum(Mapped(Size, cuts)) \in Nat
    /\ \A i \in 1..Len(cuts) : Trimmed(cuts[i], pairs[i])
    /\ \A i \in 1..Len(cuts) : i < Len(cuts) => cuts[i].target # 0
    /\ used + Sum(Mapped(Size, cuts)) < o.cutoff =>
          /\ Len(cuts) = Len(pairs)
          /\ \A i \in 1..Len(pairs) : Whole(cuts[i], pairs[i])
    /\ IF used >= o.cutoff THEN cuts = <<>> ELSE used + Sum(Mapped(Size, cuts)) <= o.cutoff

\* No turn is cut while there is room, and no row grows beyond cutoff_len.
LEMMA CutsAreWell ==
    ASSUME NEW pairs \in Seq(Turn), NEW used \in Nat, NEW o, o.cutoff \in Nat
    PROVE  WellCut(Cuts(pairs, used, o), pairs, used, o)
<1>0. Len(pairs) \in Nat
  BY LenProperties
<1>1. PICK row : CutRows(pairs, used, o, Len(pairs), row)
                 /\ Cuts(pairs, used, o) = row[Len(pairs)].cuts
  BY CutsUnfold
<1>2. row = [n \in 0..Len(pairs) |-> IF n = 0 THEN [used |-> used, cuts |-> <<>>]
                                     ELSE AddCut(row[n - 1], pairs[n], o)]
  BY <1>1 DEF CutRows
<1>. DEFINE G == {n \in Nat : n <= Len(pairs) => CutsSoFar(pairs, used, o, n, row[n])}
<1>3. 0 \in G
  <2>. DEFINE r == row[0]
  <2>1. r = [used |-> used, cuts |-> <<>>]
    BY <1>0, <1>2
  <2>. HIDE DEF r
  <2>2. r.used = used /\ r.cuts = <<>>
    BY <2>1
  <2>3. <<>> \in Seq(Cut) /\ Len(<<>>) = 0
    BY EmptySeq
  <2>4. Sum(Mapped(Size, <<>>)) = 0
    BY MappedEmpty, SumEmpty
  <2>5. CutsSoFar(pairs, used, o, 0, r)
    BY <2>2, <2>3, <2>4 DEF CutsSoFar
  <2>. QED
    BY <2>5 DEF r
<1>4. ASSUME NEW n \in Nat, n \in G PROVE n + 1 \in G
  <2>1. SUFFICES ASSUME n + 1 <= Len(pairs)
                 PROVE  CutsSoFar(pairs, used, o, n + 1, row[n + 1])
    OBVIOUS
  <2>2. CutsSoFar(pairs, used, o, n, row[n])
    BY <1>0, <1>4, <2>1
  <2>3. row[n + 1] = AddCut(row[n], pairs[n + 1], o)
    <3>1. n + 1 \in 0..Len(pairs) /\ n + 1 # 0 /\ (n + 1) - 1 = n
      BY <1>0, <2>1
    <3>. QED
      BY <1>2, <3>1
  <2>. DEFINE r == row[n]
  <2>. HIDE DEF G
  <2>4. CASE r.used < o.cutoff
    <3>1. CutsSoFar(pairs, used, o, n + 1, AddCut(r, pairs[n + 1], o))
      BY <2>1, <2>2, <2>4, CutsStep
    <3>. QED
      BY <2>3, <3>1
  <2>5. CASE ~(r.used < o.cutoff)
    <3>. HIDE DEF r
    <3>1. r.used \in Nat
      BY <2>2 DEF CutsSoFar, r
    <3>2. AddCut(r, pairs[n + 1], o) = r
      BY <2>5, <3>1 DEF AddCut
    <3>3. Len(r.cuts) <= n => Len(r.cuts) <= n + 1
      <4>1. Len(r.cuts) \in Nat
        BY <2>2, LenProperties DEF CutsSoFar, r
      <4>. QED
        BY <4>1
    <3>4. CutsSoFar(pairs, used, o, n + 1, r)
      BY <2>2, <2>5, <3>1, <3>3 DEF CutsSoFar, r
    <3>. QED
      BY <2>3, <3>2, <3>4 DEF r
  <2>. QED
    BY <2>4, <2>5
<1>5. \A n \in Nat : n \in G
  <2>. HIDE DEF G
  <2>. QED
    BY <1>3, <1>4, Counting
<1>6. CutsSoFar(pairs, used, o, Len(pairs), row[Len(pairs)])
  BY <1>0, <1>5
<1>. DEFINE r == row[Len(pairs)]
<1>. HIDE DEF r
<1>7. CutsSoFar(pairs, used, o, Len(pairs), r) /\ Cuts(pairs, used, o) = r.cuts
  BY <1>1, <1>6 DEF r
<1>8. WellCut(r.cuts, pairs, used, o)
  BY <1>7 DEF CutsSoFar, WellCut
<1>. QED
  BY <1>7, <1>8

\* Tokens of turns, images, and the two special ones.
Token(t, side, k) == [turn |-> t, side |-> side, at |-> k]
TokenSet ==
    [turn : Nat, side : {"source", "target", "image", "eos", "ignore"}, at : Nat]

\* The special tokens, and what Ids makes.
LEMMA TokensTyped ==
    /\ Eos = Token(0, "eos", 0) /\ Ignore = Token(0, "ignore", 0)
    /\ Eos \in TokenSet /\ Ignore \in TokenSet
    /\ \A t, k \in Nat : \A side \in {"source", "target", "image", "eos", "ignore"} :
          Token(t, side, k) \in TokenSet
BY DEF Eos, Ignore, Special, Token, TokenSet

\* The tokens of one side, and as many ignored ones.
LEMMA IdsAre ==
    ASSUME NEW t \in Nat, NEW side \in {"source", "target", "image"}, NEW n \in Nat
    PROVE  /\ Ids(t, side, n) \in Seq(TokenSet) /\ Len(Ids(t, side, n)) = n
           /\ \A k \in 1..n : Ids(t, side, n)[k] = Token(t, side, k)
           /\ Ignored(n) \in Seq(TokenSet) /\ Len(Ignored(n)) = n
           /\ \A k \in 1..n : Ignored(n)[k] = Ignore
<1>1. Ids(t, side, n) = [k \in 1..n |-> Token(t, side, k)]
  BY DEF Ids, Token
<1>2. \A k \in 1..n : Token(t, side, k) \in TokenSet
  BY TokensTyped
<1>3. Ignored(n) = [k \in 1..n |-> Ignore] /\ Ignore \in TokenSet
  BY TokensTyped DEF Ignored
<1>. HIDE DEF Token
<1>. QED
  BY <1>1, <1>2, <1>3

\* The k-th label of a prompt, in the idx-th turn to be encoded, for this id.
PromptLabel(o, idx, k, id) ==
    IF o.train_on_prompt THEN id
    ELSE IF o.efficient_eos /\ idx # 1 /\ k = 1 THEN Eos ELSE Ignore
\* A label of a response.
ResponseLabel(o, idx, id) == IF o.mask_history /\ idx # 1 THEN Ignore ELSE id

\* What SourceLabel gives, of a prompt that is not empty.
LEMMA SourceLabelIs ==
    ASSUME NEW o, NEW idx, NEW ids \in Seq(TokenSet), Len(ids) # 0
    PROVE  /\ SourceLabel(o, idx, ids) \in Seq(TokenSet)
           /\ Len(SourceLabel(o, idx, ids)) = Len(ids)
           /\ \A k \in 1..Len(ids) :
                 SourceLabel(o, idx, ids)[k] = PromptLabel(o, idx, k, ids[k])
<1>. DEFINE n == Len(ids)
            s == SourceLabel(o, idx, ids)
            b == Ignored(n - 1)
            d == <<Eos>> \o b
<1>0. n \in Nat /\ n - 1 \in Nat
  BY LenProperties
<1>1. CASE o.train_on_prompt
  <2>1. s = ids
    BY <1>1 DEF SourceLabel
  <2>. QED
    BY <1>1, <2>1 DEF PromptLabel
<1>2. CASE ~o.train_on_prompt /\ o.efficient_eos /\ idx # 1
  <2>1. s = d
    BY <1>2 DEF SourceLabel
  <2>2. b \in Seq(TokenSet) /\ Len(b) = n - 1 /\ \A k \in 1..(n - 1) : b[k] = Ignore
    <3>1. n - 1 \in Nat /\ 0 \in Nat /\ "source" \in {"source", "target", "image"}
      BY <1>0
    <3>. HIDE DEF n
    <3>. QED
      BY <3>1, IdsAre
  <2>3. <<Eos>> \in Seq(TokenSet) /\ Len(<<Eos>>) = 1 /\ <<Eos>>[1] = Eos
    BY TokensTyped
  <2>. HIDE DEF b
  <2>4. /\ d \in Seq(TokenSet) /\ Len(d) = 1 + (n - 1) /\ d[1] = Eos
        /\ \A k \in 1..(n - 1) : d[1 + k] = Ignore
    <3>. DEFINE e == <<Eos>>
    <3>1. /\ e \o b \in Seq(TokenSet) /\ Len(e \o b) = Len(e) + Len(b)
          /\ \A i \in 1..Len(e) : (e \o b)[i] = e[i]
          /\ \A i \in 1..Len(b) : (e \o b)[Len(e) + i] = b[i]
      <4>1. e \in Seq(TokenSet) /\ b \in Seq(TokenSet)
        BY <2>2, <2>3
      <4>. HIDE DEF e
      <4>. QED
        BY <4>1, JoinedAt
    <3>2. Len(e) = 1 /\ e[1] = Eos /\ 1 \in 1..1
      BY <2>3
    <3>. HIDE DEF e
    <3>. QED
      BY <2>2, <3>1, <3>2 DEF e
  <2>5. ASSUME NEW k \in 1..n PROVE d[k] = PromptLabel(o, idx, k, ids[k])
    <3>. HIDE DEF d
    <3>1. CASE k = 1
      BY <1>2, <2>4, <3>1 DEF PromptLabel
    <3>2. CASE k # 1
      <4>1. k - 1 \in 1..(n - 1) /\ 1 + (k - 1) = k
        BY <1>0, <3>2
      <4>2. d[1 + (k - 1)] = Ignore
        BY <2>4, <4>1
      <4>. QED
        BY <1>2, <3>2, <4>1, <4>2 DEF PromptLabel
    <3>. QED
      BY <3>1, <3>2
  <2>6. Len(d) = n
    BY <1>0, <2>4
  <2>. QED
    BY <2>1, <2>4, <2>5, <2>6
<1>3. CASE ~o.train_on_prompt /\ ~(o.efficient_eos /\ idx # 1)
  <2>1. s = Ignored(n)
    BY <1>3 DEF SourceLabel
  <2>2. s \in Seq(TokenSet) /\ Len(s) = n /\ \A k \in 1..n : s[k] = Ignore
    <3>1. n \in Nat /\ 0 \in Nat /\ "source" \in {"source", "target", "image"}
      BY <1>0
    <3>. HIDE DEF n, s
    <3>. QED
      BY <2>1, <3>1, IdsAre
  <2>. QED
    BY <1>3, <2>2 DEF PromptLabel
<1>. QED
  BY <1>1, <1>2, <1>3

\* What TargetLabel gives.
LEMMA TargetLabelIs ==
    ASSUME NEW o, NEW idx, NEW ids \in Seq(TokenSet)
    PROVE  /\ TargetLabel(o, idx, ids) \in Seq(TokenSet)
           /\ Len(TargetLabel(o, idx, ids)) = Len(ids)
           /\ \A k \in 1..Len(ids) :
                 TargetLabel(o, idx, ids)[k] = ResponseLabel(o, idx, ids[k])
<1>. DEFINE n == Len(ids)
            s == TargetLabel(o, idx, ids)
<1>0. n \in Nat
  BY LenProperties
<1>1. CASE o.mask_history /\ idx # 1
  <2>1. s = Ignored(n)
    BY <1>1 DEF TargetLabel
  <2>2. s \in Seq(TokenSet) /\ Len(s) = n /\ \A k \in 1..n : s[k] = Ignore
    <3>1. n \in Nat /\ 0 \in Nat /\ "source" \in {"source", "target", "image"}
      BY <1>0
    <3>. HIDE DEF n, s
    <3>. QED
      BY <2>1, <3>1, IdsAre
  <2>. QED
    BY <1>1, <2>2 DEF ResponseLabel
<1>2. CASE ~(o.mask_history /\ idx # 1)
  BY <1>2 DEF TargetLabel, ResponseLabel
<1>. QED
  BY <1>1, <1>2

\* The tokens of turn t, with x of its prompt and y of its response.
TurnTokens(s, t, x, y) ==
    /\ s \in Seq(TokenSet) /\ Len(s) = x + y
    /\ \A j \in 1..x : s[j] = Token(t, "source", j)
    /\ \A j \in 1..y : s[x + j] = Token(t, "target", j)
TurnLabelled(s, t, x, y, idx, o) ==
    /\ s \in Seq(TokenSet) /\ Len(s) = x + y
    /\ \A j \in 1..x : s[j] = PromptLabel(o, idx, j, Token(t, "source", j))
    /\ \A j \in 1..y : s[x + j] = ResponseLabel(o, idx, Token(t, "target", j))

\* What a row holds of a turn.
LEMMA TurnIs ==
    ASSUME NEW t \in Nat, NEW cut \in Cut, cut.source # 0, NEW idx, NEW o
    PROVE  /\ TurnTokens(TurnIds(t, cut), t, cut.source, cut.target)
           /\ TurnLabelled(TurnLabels(t, cut, idx, o), t, cut.source, cut.target, idx, o)
<1>. DEFINE x == cut.source
            y == cut.target
            a == Ids(t, "source", x)
            b == Ids(t, "target", y)
            c == SourceLabel(o, idx, a)
            d == TargetLabel(o, idx, b)
<1>1. x \in Nat /\ y \in Nat /\ x # 0
  BY DEF Cut
<1>2. TurnIds(t, cut) = a \o b /\ TurnLabels(t, cut, idx, o) = c \o d
  BY DEF TurnIds, TurnLabels
<1>. HIDE DEF x, y
<1>3. /\ a \in Seq(TokenSet) /\ Len(a) = x /\ \A k \in 1..x : a[k] = Token(t, "source", k)
      /\ b \in Seq(TokenSet) /\ Len(b) = y /\ \A k \in 1..y : b[k] = Token(t, "target", k)
  BY <1>1, IdsAre
<1>. HIDE DEF a, b
<1>4. /\ c \in Seq(TokenSet) /\ Len(c) = x
      /\ \A k \in 1..x : c[k] = PromptLabel(o, idx, k, a[k])
  BY <1>1, <1>3, SourceLabelIs
<1>5. /\ d \in Seq(TokenSet) /\ Len(d) = y
      /\ \A k \in 1..y : d[k] = ResponseLabel(o, idx, b[k])
  BY <1>3, TargetLabelIs
<1>. HIDE DEF c, d
<1>6. /\ a \o b \in Seq(TokenSet) /\ Len(a \o b) = x + y
      /\ \A k \in 1..x : (a \o b)[k] = a[k]
      /\ \A k \in 1..y : (a \o b)[x + k] = b[k]
  <2>1. a \in Seq(TokenSet) /\ b \in Seq(TokenSet) /\ Len(a) = x /\ Len(b) = y
    BY <1>3
  <2>2. /\ a \o b \in Seq(TokenSet) /\ Len(a \o b) = Len(a) + Len(b)
        /\ \A k \in 1..Len(a) : (a \o b)[k] = a[k]
        /\ \A k \in 1..Len(b) : (a \o b)[Len(a) + k] = b[k]
    <3>1. Joins(a, b, a \o b)
      BY <2>1, JoinsConcat
    <3>2. a \o b \in Seq(TokenSet)
      BY <2>1, JoinedAt
    <3>. QED
      BY <3>1, <3>2 DEF Joins
  <2>. QED
    BY <2>1, <2>2
<1>7. /\ c \o d \in Seq(TokenSet) /\ Len(c \o d) = x + y
      /\ \A k \in 1..x : (c \o d)[k] = c[k]
      /\ \A k \in 1..y : (c \o d)[x + k] = d[k]
  <2>1. c \in Seq(TokenSet) /\ d \in Seq(TokenSet) /\ Len(c) = x /\ Len(d) = y
    BY <1>4, <1>5
  <2>2. /\ c \o d \in Seq(TokenSet) /\ Len(c \o d) = Len(c) + Len(d)
        /\ \A k \in 1..Len(c) : (c \o d)[k] = c[k]
        /\ \A k \in 1..Len(d) : (c \o d)[Len(c) + k] = d[k]
    <3>1. Joins(c, d, c \o d)
      BY <2>1, JoinsConcat
    <3>2. c \o d \in Seq(TokenSet)
      BY <2>1, JoinedAt
    <3>. QED
      BY <3>1, <3>2 DEF Joins
  <2>. QED
    BY <2>1, <2>2
<1>8. TurnTokens(a \o b, t, x, y)
  BY <1>3, <1>6 DEF TurnTokens
<1>9. TurnLabelled(c \o d, t, x, y, idx, o)
  BY <1>3, <1>4, <1>5, <1>7 DEF TurnLabelled
<1>. QED
  BY <1>2, <1>8, <1>9 DEF x, y

\* Which of c parts is the k-th in a row.
PartAt(k, c, o) == IF o.mask_history THEN c + 1 - k ELSE k

\* Where in a row the parts begin, and the prefix, of P tokens before or behind parts
\* of L tokens.
PartsFrom(P, o) == IF o.mask_history THEN 0 ELSE P
PrefixFrom(L, o) == IF o.mask_history THEN L ELSE 0

\* t is a row of the prefix and the parts, which end at off.
RowIs(t, prefix, parts, o, off) ==
    /\ Len(t) = off[Len(parts)] + Len(prefix) + Len(EosIds(o))
    /\ \A k \in 1..Len(parts) : \A j \in 1..Len(parts[PartAt(k, Len(parts), o)]) :
          t[PartsFrom(Len(prefix), o) + (off[k - 1] + j)] = parts[PartAt(k, Len(parts), o)][j]
    /\ \A j \in 1..Len(prefix) : t[PrefixFrom(off[Len(parts)], o) + j] = prefix[j]
    /\ o.efficient_eos => t[off[Len(parts)] + Len(prefix) + 1] = Eos

\* The lengths of the parts, in the order in which they stand.
PartLengths(parts, o, ls) ==
    /\ Len(ls) = Len(parts)
    /\ \A k \in 1..Len(parts) : Len(parts[PartAt(k, Len(parts), o)]) = ls[k]

\* The end of a row.
LEMMA EosIdsAre ==
    ASSUME NEW o
    PROVE  /\ EosIds(o) \in Seq(TokenSet)
           /\ Len(EosIds(o)) = IF o.efficient_eos THEN 1 ELSE 0
           /\ o.efficient_eos => EosIds(o)[1] = Eos
<1>1. CASE o.efficient_eos
  BY <1>1, TokensTyped DEF EosIds
<1>2. CASE ~o.efficient_eos
  BY <1>2, EmptySeq DEF EosIds
<1>. QED
  BY <1>1, <1>2

\* The parts in the order in which they stand.
Ordered(parts, o) == IF o.mask_history THEN Reverse(parts) ELSE parts

\* Every part stands where PartAt says.
LEMMA OrderedParts ==
    ASSUME NEW S, NEW parts \in Seq(S), NEW o
    PROVE  /\ Ordered(parts, o) \in Seq(S) /\ Len(Ordered(parts, o)) = Len(parts)
           /\ \A k \in 1..Len(parts) :
                 /\ PartAt(k, Len(parts), o) \in 1..Len(parts)
                 /\ Ordered(parts, o)[k] = parts[PartAt(k, Len(parts), o)]
<1>. DEFINE c == Len(parts)
<1>0. c \in Nat /\ \A k \in 1..c : parts[k] \in S
  BY LenProperties, ElementOfSeq
<1>1. CASE o.mask_history
  <2>1. Ordered(parts, o) = [k \in 1..c |-> parts[(c - k) + 1]]
    BY <1>1 DEF Ordered, Reverse
  <2>2. \A k \in 1..c : (c - k) + 1 \in 1..c /\ (c - k) + 1 = c + 1 - k
    BY <1>0
  <2>. HIDE DEF c
  <2>3. [k \in 1..c |-> parts[(c - k) + 1]] \in Seq(S)
    BY <1>0, <2>2
  <2>. QED
    BY <1>0, <1>1, <2>1, <2>2, <2>3 DEF PartAt, c
<1>2. CASE ~o.mask_history
  BY <1>0, <1>2 DEF Ordered, PartAt
<1>. QED
  BY <1>1, <1>2

\* Joined is such a row.
LEMMA JoinedLaid ==
    ASSUME NEW prefix \in Seq(TokenSet), NEW parts \in Seq(Seq(TokenSet)), NEW o,
           NEW ls \in Seq(Nat), NEW off, PartLengths(parts, o, ls), StepsBy(ls, off)
    PROVE  Joined(prefix, parts, o) \in Seq(TokenSet)
           /\ RowIs(Joined(prefix, parts, o), prefix, parts, o, off)
<1>. DEFINE c == Len(parts)
            P == Len(prefix)
            q == Ordered(parts, o)
            w == FlattenSeq(q)
            u == IF o.mask_history THEN w \o prefix ELSE prefix \o w
            e == EosIds(o)
            t == u \o e
            L == off[c]
<1>0. c \in Nat /\ P \in Nat /\ Len(ls) = c /\ \A k \in 1..c : Len(parts[PartAt(k, c, o)]) = ls[k]
  BY LenProperties DEF PartLengths
<1>1. Joined(prefix, parts, o) = t
  <2>1. CASE o.mask_history
    BY <2>1 DEF Joined, Ordered
  <2>2. CASE ~o.mask_history
    BY <2>2 DEF Joined, Ordered
  <2>. QED
    BY <2>1, <2>2
<1>2. /\ q \in Seq(Seq(TokenSet)) /\ Len(q) = c
      /\ \A k \in 1..c : PartAt(k, c, o) \in 1..c /\ q[k] = parts[PartAt(k, c, o)]
  BY OrderedParts
<1>. HIDE DEF q
<1>3. LengthsOf(q, ls)
  BY <1>0, <1>2 DEF LengthsOf
<1>4. w \in Seq(TokenSet) /\ Len(w) = L /\ Laid(q, w, off)
  <2>1. w \in Seq(TokenSet) /\ Len(w) = off[Len(ls)] /\ Laid(q, w, off)
    BY <1>2, <1>3, FlatLaid
  <2>. QED
    BY <1>0, <2>1
<1>. HIDE DEF w
<1>5. L \in Nat /\ \A k \in 1..c : \A j \in 1..ls[k] : off[k - 1] + j \in 1..L
  <2>1. \A k \in 0..Len(ls) : off[k] \in Nat
    BY StepsGrow
  <2>2. Len(ls) = c /\ c \in 0..c
    BY <1>0
  <2>3. \A k \in 1..Len(ls) : \A j \in 1..ls[k] : off[k - 1] + j \in 1..off[Len(ls)]
    BY StepsApart
  <2>. QED
    BY <2>1, <2>2, <2>3
<1>. HIDE DEF L
<1>6. ASSUME NEW k \in 1..c, NEW j \in 1..Len(parts[PartAt(k, c, o)])
      PROVE  /\ off[k - 1] + j \in 1..L
             /\ w[off[k - 1] + j] = parts[PartAt(k, c, o)][j]
  <2>1. Len(parts[PartAt(k, c, o)]) = ls[k] /\ q[k] = parts[PartAt(k, c, o)]
    BY <1>0, <1>2
  <2>2. off[k - 1] + j \in 1..L
    BY <1>5, <2>1
  <2>3. k \in 1..Len(q) /\ j \in 1..Len(q[k])
    BY <1>2, <2>1
  <2>4. w[off[k - 1] + j] = q[k][j]
    BY <1>4, <2>3 DEF Laid
  <2>. QED
    BY <2>1, <2>2, <2>4
<1>7. /\ u \in Seq(TokenSet) /\ Len(u) = L + P
      /\ \A i \in 1..L : u[PartsFrom(P, o) + i] = w[i] /\ PartsFrom(P, o) + i \in 1..(L + P)
      /\ \A i \in 1..P : u[PrefixFrom(L, o) + i] = prefix[i] /\ PrefixFrom(L, o) + i \in 1..(L + P)
  <2>1. CASE o.mask_history
    <3>1. u = w \o prefix /\ PartsFrom(P, o) = 0 /\ PrefixFrom(L, o) = L
      BY <2>1 DEF PartsFrom, PrefixFrom
    <3>2. Joins(w, prefix, w \o prefix)
      BY <1>4, JoinsConcat
    <3>3. w \o prefix \in Seq(TokenSet)
      BY <1>4, JoinedAt
    <3>. HIDE DEF u
    <3>4. /\ u \in Seq(TokenSet) /\ Len(u) = L + P /\ \A i \in 1..L : u[i] = w[i]
          /\ \A i \in 1..P : u[L + i] = prefix[i]
      BY <1>4, <3>1, <3>2, <3>3 DEF Joins
    <3>5. \A i \in 1..L : 0 + i = i /\ i \in 1..(L + P)
      BY <1>0, <1>5
    <3>6. \A i \in 1..P : L + i \in 1..(L + P)
      BY <1>0, <1>5
    <3>. HIDE DEF P
    <3>. QED
      BY <3>1, <3>4, <3>5, <3>6
  <2>2. CASE ~o.mask_history
    <3>1. u = prefix \o w /\ PartsFrom(P, o) = P /\ PrefixFrom(L, o) = 0
      BY <2>2 DEF PartsFrom, PrefixFrom
    <3>2. Joins(prefix, w, prefix \o w)
      BY <1>4, JoinsConcat
    <3>3. prefix \o w \in Seq(TokenSet)
      BY <1>4, JoinedAt
    <3>. HIDE DEF u
    <3>4. /\ u \in Seq(TokenSet) /\ Len(u) = P + L /\ \A i \in 1..P : u[i] = prefix[i]
          /\ \A i \in 1..L : u[P + i] = w[i]
      BY <1>4, <3>1, <3>2, <3>3 DEF Joins
    <3>5. \A i \in 1..P : 0 + i = i /\ i \in 1..(L + P)
      BY <1>0, <1>5
    <3>6. (\A i \in 1..L : P + i \in 1..(L + P)) /\ P + L = L + P
      BY <1>0, <1>5
    <3>. HIDE DEF P
    <3>. QED
      BY <3>1, <3>4, <3>5, <3>6
  <2>. QED
    BY <2>1, <2>2
<1>. HIDE DEF u, P
<1>8. e \in Seq(TokenSet) /\ (o.efficient_eos => Len(e) = 1 /\ e[1] = Eos)
  BY EosIdsAre
<1>. HIDE DEF e
<1>9. /\ t \in Seq(TokenSet) /\ Len(t) = L + P + Len(e)
      /\ \A i \in 1..(L + P) : t[i] = u[i]
      /\ \A i \in 1..Len(e) : t[L + P + i] = e[i]
  <2>1. Joins(u, e, u \o e)
    BY <1>7, <1>8, JoinsConcat
  <2>2. u \o e \in Seq(TokenSet)
    BY <1>7, <1>8, JoinedAt
  <2>. QED
    BY <1>7, <2>1, <2>2 DEF Joins
<1>. HIDE DEF t
<1>10. ASSUME NEW k \in 1..c, NEW j \in 1..Len(parts[PartAt(k, c, o)])
       PROVE  t[PartsFrom(P, o) + (off[k - 1] + j)] = parts[PartAt(k, c, o)][j]
  <2>. DEFINE i == off[k - 1] + j
  <2>1. i \in 1..L /\ w[i] = parts[PartAt(k, c, o)][j]
    BY <1>6
  <2>. HIDE DEF i
  <2>2. u[PartsFrom(P, o) + i] = w[i] /\ PartsFrom(P, o) + i \in 1..(L + P)
    BY <1>7, <2>1
  <2>3. t[PartsFrom(P, o) + i] = w[i]
    BY <1>9, <2>2
  <2>. QED
    BY <2>1, <2>3 DEF i
<1>11. ASSUME NEW j \in 1..P PROVE t[PrefixFrom(L, o) + j] = prefix[j]
  BY <1>7, <1>9
<1>12. ASSUME o.efficient_eos PROVE t[L + P + 1] = Eos
  <2>1. 1 \in 1..Len(e) /\ e[1] = Eos
    <3>1. Len(e) = 1 /\ e[1] = Eos
      BY <1>8, <1>12
    <3>. QED
      BY <3>1
  <2>. QED
    BY <1>9, <2>1
<1>13. RowIs(t, prefix, parts, o, off)
  BY <1>9, <1>10, <1>11, <1>12 DEF RowIs, L, P, e
<1>. QED
  BY <1>1, <1>9, <1>13

\* Place p is one of a part, of the prefix, or the last.
InRow(p, ls, off, P, o) ==
    \/ \E k \in 1..Len(ls) : \E j \in 1..ls[k] : p = PartsFrom(P, o) + (off[k - 1] + j)
    \/ \E j \in 1..P : p = PrefixFrom(off[Len(ls)], o) + j
    \/ o.efficient_eos /\ p = off[Len(ls)] + P + 1

\* Every place of a row is one of a part, of the prefix, or the last.
LEMMA RowCovered ==
    ASSUME NEW ls \in Seq(Nat), NEW off, StepsBy(ls, off), NEW P \in Nat, NEW o,
           NEW m, m = off[Len(ls)] + P + Len(EosIds(o)), NEW p \in 1..m
    PROVE  InRow(p, ls, off, P, o)
<1>. DEFINE L == off[Len(ls)]
            E == Len(EosIds(o))
<1>1. /\ Len(ls) \in Nat /\ (\A k \in 0..Len(ls) : off[k] \in Nat) /\ Len(ls) \in 0..Len(ls)
      /\ \A k \in 1..Len(ls) : ls[k] \in Nat
  <2>1. Len(ls) \in Nat /\ (\A k \in 0..Len(ls) : off[k] \in Nat)
        /\ \A k \in 1..Len(ls) : ls[k] \in Nat
    BY StepsGrow
  <2>. QED
    BY <2>1
<1>2. L \in Nat
  BY <1>1
<1>3. E = IF o.efficient_eos THEN 1 ELSE 0
  BY EosIdsAre
<1>4. ASSUME NEW i \in 1..L
      PROVE  \E k \in 1..Len(ls) : \E j \in 1..ls[k] : i = off[k - 1] + j
  <2>1. PICK k \in 1..Len(ls) : i - off[k - 1] \in 1..ls[k]
    BY StepsCover
  <2>2. off[k - 1] \in Nat
    <3>1. k - 1 \in 0..Len(ls)
      BY <1>1
    <3>. QED
      BY <1>1, <3>1
  <2>3. i \in Int
    BY <1>2
  <2>4. i = off[k - 1] + (i - off[k - 1])
    BY <2>2, <2>3
  <2>. QED
    BY <2>1, <2>4
<1>. HIDE DEF L, E
<1>5. p \in 1..(L + P + E)
  BY DEF L, E
<1>6. ASSUME NEW i \in 1..L, p = PartsFrom(P, o) + i
      PROVE  \E k \in 1..Len(ls) : \E j \in 1..ls[k] : p = PartsFrom(P, o) + (off[k - 1] + j)
  <2>1. PICK k \in 1..Len(ls) : \E j \in 1..ls[k] : i = off[k - 1] + j
    BY <1>4
  <2>2. PICK j \in 1..ls[k] : i = off[k - 1] + j
    BY <2>1
  <2>3. p = PartsFrom(P, o) + (off[k - 1] + j)
    BY <1>6, <2>2
  <2>. QED
    BY <2>1, <2>2, <2>3
<1>7. \/ \E i \in 1..L : p = PartsFrom(P, o) + i
      \/ \E j \in 1..P : p = PrefixFrom(L, o) + j
      \/ o.efficient_eos /\ p = L + P + 1
  <2>1. CASE p = L + P + 1
    <3>1. o.efficient_eos
      BY <1>2, <1>3, <1>5, <2>1
    <3>. QED
      BY <2>1, <3>1
  <2>2. CASE p # L + P + 1 /\ o.mask_history
    <3>1. p \in 1..L \/ p - L \in 1..P
      BY <1>2, <1>3, <1>5, <2>2
    <3>2. PartsFrom(P, o) = 0 /\ PrefixFrom(L, o) = L
      BY <2>2 DEF PartsFrom, PrefixFrom
    <3>3. p = 0 + p /\ p = L + (p - L)
      BY <1>2, <1>5
    <3>. QED
      BY <3>1, <3>2, <3>3
  <2>3. CASE p # L + P + 1 /\ ~o.mask_history
    <3>1. p \in 1..P \/ p - P \in 1..L
      BY <1>2, <1>3, <1>5, <2>3
    <3>2. PartsFrom(P, o) = P /\ PrefixFrom(L, o) = 0
      BY <2>3 DEF PartsFrom, PrefixFrom
    <3>3. p = 0 + p /\ p = P + (p - P)
      BY <1>2, <1>5
    <3>. QED
      BY <3>1, <3>2, <3>3
  <2>. QED
    BY <2>1, <2>2, <2>3
<1>. QED
  BY <1>6, <1>7 DEF L, InRow

\* How many turns before the first of c in a row of n are left out.
LeftOut(n, c, o) == IF o.mask_history THEN n - c ELSE 0

\* row holds the images, and of the turns from lo + 1 on as much as kept says; their
\* tokens end at off.
Encoded(row, o, lo, kept, off) ==
    /\ kept \in Seq(Cut) /\ Mapped(Size, kept) \in Seq(Nat) /\ StepsBy(Mapped(Size, kept), off)
    /\ row.ids \in Seq(TokenSet) /\ row.labels \in Seq(TokenSet)
    /\ Len(row.ids) = off[Len(kept)] + o.prefix + Len(EosIds(o))
    /\ Len(row.labels) = Len(row.ids)
    /\ \A k \in 1..Len(kept) :
          /\ kept[k].source # 0
          /\ \A j \in 1..kept[k].source :
                /\ row.ids[PartsFrom(o.prefix, o) + (off[k - 1] + j)] = Token(lo + k, "source", j)
                /\ row.labels[PartsFrom(o.prefix, o) + (off[k - 1] + j)]
                      = PromptLabel(o, PartAt(k, Len(kept), o), j, Token(lo + k, "source", j))
          /\ \A j \in 1..kept[k].target :
                /\ row.ids[PartsFrom(o.prefix, o) + (off[k - 1] + (kept[k].source + j))]
                      = Token(lo + k, "target", j)
                /\ row.labels[PartsFrom(o.prefix, o) + (off[k - 1] + (kept[k].source + j))]
                      = ResponseLabel(o, PartAt(k, Len(kept), o), Token(lo + k, "target", j))
    /\ \A j \in 1..o.prefix :
          /\ row.ids[PrefixFrom(off[Len(kept)], o) + j] = Token(0, "image", j)
          /\ row.labels[PrefixFrom(off[Len(kept)], o) + j] = Ignore
    /\ o.efficient_eos =>
          /\ row.ids[off[Len(kept)] + o.prefix + 1] = Eos
          /\ row.labels[off[Len(kept)] + o.prefix + 1] = Eos

\* Any order of the cuts keeps as many tokens.
LEMMA OrderedSum ==
    ASSUME NEW cuts \in Seq(Cut), NEW o
    PROVE  /\ Ordered(cuts, o) \in Seq(Cut) /\ Len(Ordered(cuts, o)) = Len(cuts)
           /\ Mapped(Size, Ordered(cuts, o)) \in Seq(Nat)
           /\ Len(Mapped(Size, Ordered(cuts, o))) = Len(cuts)
           /\ \A k \in 1..Len(cuts) :
                 /\ PartAt(k, Len(cuts), o) \in 1..Len(cuts)
                 /\ Ordered(cuts, o)[k] = cuts[PartAt(k, Len(cuts), o)]
                 /\ Mapped(Size, Ordered(cuts, o))[k]
                       = Ordered(cuts, o)[k].source + Ordered(cuts, o)[k].target
           /\ Sum(Mapped(Size, Ordered(cuts, o))) = Sum(Mapped(Size, cuts))
<1>. DEFINE c == Len(cuts)
            q == Ordered(cuts, o)
            f == Mapped(Size, cuts)
            g == Mapped(Size, q)
<1>0. c \in Nat
  BY LenProperties
<1>1. /\ q \in Seq(Cut) /\ Len(q) = c
      /\ \A k \in 1..c : PartAt(k, c, o) \in 1..c /\ q[k] = cuts[PartAt(k, c, o)]
  BY OrderedParts
<1>. HIDE DEF q
<1>2. Size \in [Cut -> Nat] /\ \A x \in Cut : Size[x] = x.source + x.target
  BY DEF Size, Cut
<1>3. /\ f \in Seq(Nat) /\ Maps(Size, cuts, f) /\ g \in Seq(Nat) /\ Maps(Size, q, g)
  BY <1>1, <1>2, MappedType
<1>. HIDE DEF f, g
<1>4. Len(f) = c /\ Len(g) = c /\ (\A k \in 1..c : f[k] = Size[cuts[k]])
      /\ (\A k \in 1..c : g[k] = Size[q[k]])
  BY <1>1, <1>3 DEF Maps
<1>5. \A k \in 1..c : q[k] \in Cut
  BY <1>1, ElementOfSeq
<1>6. Sum(g) = Sum(f)
  <2>. DEFINE s == [k \in 1..c |-> PartAt(k, c, o)]
  <2>1. s \in Seq(Int) /\ Len(s) = c /\ \A k \in 1..c : s[k] = PartAt(k, c, o)
    <3>1. \A k \in 1..c : PartAt(k, c, o) \in Int
      BY <1>0, <1>1
    <3>. HIDE DEF c
    <3>. QED
      BY <1>0, <3>1
  <2>2. Distinct(s)
    <3>1. ASSUME NEW i \in 1..c, NEW j \in 1..c, PartAt(i, c, o) = PartAt(j, c, o) PROVE i = j
      BY <1>0, <3>1 DEF PartAt
    <3>. HIDE DEF s
    <3>. QED
      BY <2>1, <3>1 DEF Distinct
  <2>3. ToSet(s) = 1..c
    <3>1. ToSet(s) = {s[k] : k \in 1..c}
      BY <1>0 DEF ToSet
    <3>2. \A k \in 1..c : PartAt(k, c, o) \in 1..c /\ PartAt(PartAt(k, c, o), c, o) = k
      BY <1>0 DEF PartAt
    <3>. HIDE DEF s
    <3>. QED
      BY <2>1, <3>1, <3>2
  <2>4. Mapped(f, s) = g
    <3>1. DOMAIN s = 1..c
      OBVIOUS
    <3>2. \A k \in 1..c : f[PartAt(k, c, o)] = Size[cuts[PartAt(k, c, o)]]
      BY <1>1, <1>4
    <3>3. \A k \in 1..c : f[s[k]] = g[k]
      BY <1>1, <1>4, <2>1, <3>2
    <3>4. g = [k \in 1..c |-> g[k]]
      BY <1>3, <1>4, LenProperties
    <3>. HIDE DEF s
    <3>. QED
      BY <3>1, <3>3, <3>4 DEF Mapped
  <2>5. f \in Seq(Int)
    BY <1>3, SeqDef
  <2>. HIDE DEF s
  <2>6. Sum(Mapped(f, s)) = Sum(f)
    <3>1. ToSet(s) = 1..Len(f)
      BY <1>4, <2>3
    <3>. QED
      BY <2>1, <2>2, <2>5, <3>1, SumReordered
  <2>. QED
    BY <2>4, <2>6
<1>7. \A k \in 1..c : g[k] = q[k].source + q[k].target
  BY <1>2, <1>4, <1>5
<1>. QED
  BY <1>1, <1>3, <1>4, <1>6, <1>7 DEF f, g, q

\* The turns as they are encoded.
Pairs(ts, o) == [idx \in DOMAIN ts |-> ts[TurnAt(idx, Len(ts), o)]]

\* They are the turns, each at its place.
LEMMA PairsTyped ==
    ASSUME NEW ts \in Seq(Turn), NEW o
    PROVE  /\ Pairs(ts, o) \in Seq(Turn) /\ Len(Pairs(ts, o)) = Len(ts)
           /\ \A idx \in 1..Len(ts) :
                 /\ TurnAt(idx, Len(ts), o) \in 1..Len(ts)
                 /\ Pairs(ts, o)[idx] = ts[TurnAt(idx, Len(ts), o)]
<1>. DEFINE n == Len(ts)
<1>0. n \in Nat /\ DOMAIN ts = 1..n /\ \A i \in 1..n : ts[i] \in Turn
  BY LenProperties, ElementOfSeq
<1>1. \A idx \in 1..n : TurnAt(idx, n, o) \in 1..n
  BY <1>0 DEF TurnAt
<1>2. Pairs(ts, o) = [idx \in 1..n |-> ts[TurnAt(idx, n, o)]]
  BY <1>0 DEF Pairs
<1>. HIDE DEF n
<1>3. [idx \in 1..n |-> ts[TurnAt(idx, n, o)]] \in Seq(Turn)
  BY <1>0, <1>1
<1>. QED
  BY <1>0, <1>1, <1>2, <1>3 DEF n

\* The cuts of a conversation, and the row _encode_data_example makes of it.
CutsOf(ts, o) == Cuts(Pairs(ts, o), o.prefix + Len(EosIds(o)), o)
KeptOf(ts, o) == Ordered(CutsOf(ts, o), o)
LowOf(ts, o) == LeftOut(Len(ts), Len(CutsOf(ts, o)), o)

\* The parts of a row are in step with the order of the cuts.
LEMMA PartsInStep ==
    ASSUME NEW n \in Nat, NEW c \in 0..n, NEW k \in 1..c, NEW o
    PROVE  TurnAt(PartAt(k, c, o), n, o) = LeftOut(n, c, o) + k /\ LeftOut(n, c, o) \in Nat
BY DEF TurnAt, PartAt, LeftOut

\* _encode_data_example.
LEMMA EncodeIs ==
    ASSUME NEW ts \in Seq(Turn), NEW o, o.prefix \in Nat, o.cutoff \in Nat
    PROVE  /\ WellCut(CutsOf(ts, o), Pairs(ts, o), o.prefix + Len(EosIds(o)), o)
           /\ \E off : /\ Encoded(Encode(ts, o), o, LowOf(ts, o), KeptOf(ts, o), off)
                       /\ off[Len(CutsOf(ts, o))] = Sum(Mapped(Size, CutsOf(ts, o)))
<1>. DEFINE n == Len(ts)
            pairs == Pairs(ts, o)
            cuts == CutsOf(ts, o)
            c == Len(cuts)
            kept == Ordered(cuts, o)
            ls == Mapped(Size, kept)
            lo == LowOf(ts, o)
            P == o.prefix
            images == Ids(0, "image", P)
            ignored == Ignored(P)
            idParts == [idx \in DOMAIN cuts |-> TurnIds(TurnAt(idx, n, o), cuts[idx])]
            labelParts == [idx \in DOMAIN cuts |-> TurnLabels(TurnAt(idx, n, o), cuts[idx], idx, o)]
            row == Encode(ts, o)
<1>0. n \in Nat /\ P \in Nat
  BY LenProperties
<1>1. row = [ids |-> Joined(images, idParts, o), labels |-> Joined(ignored, labelParts, o)]
  BY DEF Encode, CutsOf, Pairs
<1>2. WellCut(cuts, pairs, P + Len(EosIds(o)), o)
  <2>1. P + Len(EosIds(o)) \in Nat
    BY <1>0, EosIdsAre, LenProperties
  <2>2. pairs \in Seq(Turn)
    BY PairsTyped
  <2>. HIDE DEF pairs, P
  <2>3. WellCut(Cuts(pairs, P + Len(EosIds(o)), o), pairs, P + Len(EosIds(o)), o)
    BY <2>1, <2>2, CutsAreWell
  <2>. QED
    BY <2>3 DEF CutsOf, pairs, P
<1>3. pairs \in Seq(Turn) /\ Len(pairs) = n
      /\ \A idx \in 1..n : TurnAt(idx, n, o) \in 1..n /\ pairs[idx] = ts[TurnAt(idx, n, o)]
  BY PairsTyped
<1>. HIDE DEF n, pairs, cuts, row, lo, P
<1>4. cuts \in Seq(Cut) /\ c \in 0..n /\ \A i \in 1..c : Trimmed(cuts[i], pairs[i])
  <2>1. cuts \in Seq(Cut) /\ c <= n /\ \A i \in 1..c : Trimmed(cuts[i], pairs[i])
    BY <1>2, <1>3 DEF WellCut
  <2>. QED
    BY <1>0, <2>1, LenProperties
<1>5. /\ kept \in Seq(Cut) /\ Len(kept) = c /\ ls \in Seq(Nat) /\ Len(ls) = c
      /\ \A k \in 1..c : /\ PartAt(k, c, o) \in 1..c /\ kept[k] = cuts[PartAt(k, c, o)]
                         /\ ls[k] = kept[k].source + kept[k].target
      /\ Sum(ls) = Sum(Mapped(Size, cuts))
  BY <1>4, OrderedSum
<1>6. PICK off : StepsBy(ls, off) /\ off[Len(ls)] = Sum(ls)
  BY <1>5, StepsExist
<1>7. DOMAIN cuts = 1..c /\ c \in Nat /\ \A i \in 1..c : cuts[i] \in Cut
  BY <1>4, LenProperties, ElementOfSeq
<1>8. ASSUME NEW idx \in 1..c
      PROVE  /\ cuts[idx].source # 0
             /\ TurnTokens(idParts[idx], TurnAt(idx, n, o), cuts[idx].source, cuts[idx].target)
             /\ TurnLabelled(labelParts[idx], TurnAt(idx, n, o), cuts[idx].source,
                             cuts[idx].target, idx, o)
  <2>. DEFINE t == TurnAt(idx, n, o)
              cut == cuts[idx]
  <2>1. idx \in 1..n
    BY <1>0, <1>4
  <2>2. t \in Nat
    BY <1>0, <1>3, <2>1
  <2>3. cut \in Cut
    BY <1>7
  <2>4. cut.source # 0
    <3>1. cut.source \in 1..pairs[idx].source
      BY <1>4 DEF Trimmed
    <3>. QED
      BY <3>1
  <2>5. idParts[idx] = TurnIds(t, cut) /\ labelParts[idx] = TurnLabels(t, cut, idx, o)
    BY <1>7
  <2>. HIDE DEF t, cut
  <2>6. /\ TurnTokens(TurnIds(t, cut), t, cut.source, cut.target)
        /\ TurnLabelled(TurnLabels(t, cut, idx, o), t, cut.source, cut.target, idx, o)
    BY <2>2, <2>3, <2>4, TurnIs
  <2>. HIDE DEF idParts, labelParts
  <2>. QED
    BY <2>4, <2>5, <2>6 DEF t, cut
<1>9. /\ idParts = [idx \in 1..c |-> idParts[idx]] /\ labelParts = [idx \in 1..c |-> labelParts[idx]]
  BY <1>7
<1>. HIDE DEF idParts, labelParts
<1>10. /\ idParts \in Seq(Seq(TokenSet)) /\ Len(idParts) = c
       /\ labelParts \in Seq(Seq(TokenSet)) /\ Len(labelParts) = c
  <2>1. \A idx \in 1..c : idParts[idx] \in Seq(TokenSet) /\ labelParts[idx] \in Seq(TokenSet)
    BY <1>8 DEF TurnTokens, TurnLabelled
  <2>. HIDE DEF c
  <2>2. /\ [idx \in 1..c |-> idParts[idx]] \in Seq(Seq(TokenSet))
        /\ [idx \in 1..c |-> labelParts[idx]] \in Seq(Seq(TokenSet))
    BY <1>7, <2>1
  <2>3. /\ DOMAIN idParts = 1..c /\ DOMAIN labelParts = 1..c
    BY <1>9
  <2>4. /\ idParts \in Seq(Seq(TokenSet)) /\ labelParts \in Seq(Seq(TokenSet))
    BY <1>9, <2>2
  <2>5. Len(idParts) = c
    BY <1>7, <2>3, <2>4, LenProperties
  <2>6. Len(labelParts) = c
    BY <1>7, <2>3, <2>4, LenProperties
  <2>. QED
    BY <2>4, <2>5, <2>6
<1>11. ASSUME NEW k \in 1..c
       PROVE  /\ kept[k] = cuts[PartAt(k, c, o)] /\ kept[k].source # 0
              /\ kept[k].source \in Nat /\ kept[k].target \in Nat
              /\ ls[k] = kept[k].source + kept[k].target
              /\ TurnTokens(idParts[PartAt(k, c, o)], lo + k, kept[k].source, kept[k].target)
              /\ TurnLabelled(labelParts[PartAt(k, c, o)], lo + k, kept[k].source,
                              kept[k].target, PartAt(k, c, o), o)
  <2>. DEFINE i == PartAt(k, c, o)
  <2>1. i \in 1..c /\ kept[k] = cuts[i] /\ ls[k] = kept[k].source + kept[k].target
    BY <1>5
  <2>2. TurnAt(i, n, o) = lo + k
    <3>1. TurnAt(PartAt(k, c, o), n, o) = LeftOut(n, c, o) + k
      <4>. HIDE DEF c
      <4>. QED
        BY <1>0, <1>4, PartsInStep
    <3>. QED
      BY <3>1 DEF lo, LowOf, cuts, n
  <2>3. cuts[i] \in Cut
    BY <1>7, <2>1
  <2>4. cuts[i].source \in Nat /\ cuts[i].target \in Nat
    BY <2>3 DEF Cut
  <2>. HIDE DEF i, kept, ls
  <2>. QED
    BY <1>8, <2>1, <2>2, <2>4 DEF i
<1>12. PartLengths(idParts, o, ls) /\ PartLengths(labelParts, o, ls)
  <2>1. \A k \in 1..c : /\ Len(idParts[PartAt(k, c, o)]) = ls[k]
                        /\ Len(labelParts[PartAt(k, c, o)]) = ls[k]
    BY <1>11 DEF TurnTokens, TurnLabelled
  <2>. QED
    BY <1>5, <1>10, <2>1 DEF PartLengths
<1>13. /\ images \in Seq(TokenSet) /\ Len(images) = P
       /\ \A j \in 1..P : images[j] = Token(0, "image", j)
       /\ ignored \in Seq(TokenSet) /\ Len(ignored) = P
       /\ \A j \in 1..P : ignored[j] = Ignore
  BY <1>0, IdsAre
<1>. HIDE DEF images, ignored, ls, kept
<1>14. /\ row.ids \in Seq(TokenSet) /\ RowIs(row.ids, images, idParts, o, off)
       /\ row.labels \in Seq(TokenSet) /\ RowIs(row.labels, ignored, labelParts, o, off)
  <2>1. /\ Joined(images, idParts, o) \in Seq(TokenSet)
        /\ RowIs(Joined(images, idParts, o), images, idParts, o, off)
    BY <1>5, <1>6, <1>10, <1>12, <1>13, JoinedLaid
  <2>2. /\ Joined(ignored, labelParts, o) \in Seq(TokenSet)
        /\ RowIs(Joined(ignored, labelParts, o), ignored, labelParts, o, off)
    BY <1>5, <1>6, <1>10, <1>12, <1>13, JoinedLaid
  <2>3. row.ids = Joined(images, idParts, o) /\ row.labels = Joined(ignored, labelParts, o)
    BY <1>1
  <2>. QED
    BY <2>1, <2>2, <2>3
<1>. DEFINE ids == row.ids
            labels == row.labels
            E == Len(EosIds(o))
<1>. HIDE DEF ids, labels
<1>15. /\ Len(ids) = off[c] + P + E
       /\ \A k \in 1..c : \A j \in 1..ls[k] :
             ids[PartsFrom(P, o) + (off[k - 1] + j)] = idParts[PartAt(k, c, o)][j]
       /\ \A j \in 1..P : ids[PrefixFrom(off[c], o) + j] = images[j]
       /\ o.efficient_eos => ids[off[c] + P + 1] = Eos
  <2>1. RowIs(ids, images, idParts, o, off)
    BY <1>14 DEF ids
  <2>2. \A k \in 1..c : Len(idParts[PartAt(k, c, o)]) = ls[k]
    BY <1>10, <1>12 DEF PartLengths
  <2>. QED
    BY <1>10, <1>13, <2>1, <2>2 DEF RowIs
<1>16. /\ Len(labels) = off[c] + P + E
       /\ \A k \in 1..c : \A j \in 1..ls[k] :
             labels[PartsFrom(P, o) + (off[k - 1] + j)] = labelParts[PartAt(k, c, o)][j]
       /\ \A j \in 1..P : labels[PrefixFrom(off[c], o) + j] = Ignore
       /\ o.efficient_eos => labels[off[c] + P + 1] = Eos
  <2>1. RowIs(labels, ignored, labelParts, o, off)
    BY <1>14 DEF labels
  <2>2. \A k \in 1..c : Len(labelParts[PartAt(k, c, o)]) = ls[k]
    BY <1>10, <1>12 DEF PartLengths
  <2>. QED
    BY <1>10, <1>13, <2>1, <2>2 DEF RowIs
<1>17. ASSUME NEW k \in 1..c, NEW j \in 1..kept[k].source
       PROVE  /\ ids[PartsFrom(P, o) + (off[k - 1] + j)] = Token(lo + k, "source", j)
              /\ labels[PartsFrom(P, o) + (off[k - 1] + j)]
                    = PromptLabel(o, PartAt(k, c, o), j, Token(lo + k, "source", j))
  <2>1. kept[k].source \in Nat /\ kept[k].target \in Nat
        /\ ls[k] = kept[k].source + kept[k].target
    BY <1>11
  <2>2. j \in 1..ls[k]
    BY <2>1
  <2>3. /\ idParts[PartAt(k, c, o)][j] = Token(lo + k, "source", j)
        /\ labelParts[PartAt(k, c, o)][j]
              = PromptLabel(o, PartAt(k, c, o), j, Token(lo + k, "source", j))
    BY <1>11 DEF TurnTokens, TurnLabelled
  <2>. QED
    BY <1>15, <1>16, <2>2, <2>3
<1>18. ASSUME NEW k \in 1..c, NEW j \in 1..kept[k].target
       PROVE  /\ ids[PartsFrom(P, o) + (off[k - 1] + (kept[k].source + j))]
                    = Token(lo + k, "target", j)
              /\ labels[PartsFrom(P, o) + (off[k - 1] + (kept[k].source + j))]
                    = ResponseLabel(o, PartAt(k, c, o), Token(lo + k, "target", j))
  <2>. DEFINE i == kept[k].source + j
  <2>1. kept[k].source \in Nat /\ kept[k].target \in Nat
        /\ ls[k] = kept[k].source + kept[k].target
    BY <1>11
  <2>2. i \in 1..ls[k]
    BY <2>1
  <2>3. /\ idParts[PartAt(k, c, o)][i] = Token(lo + k, "target", j)
        /\ labelParts[PartAt(k, c, o)][i]
              = ResponseLabel(o, PartAt(k, c, o), Token(lo + k, "target", j))
    BY <1>11 DEF TurnTokens, TurnLabelled
  <2>. HIDE DEF i
  <2>4. /\ ids[PartsFrom(P, o) + (off[k - 1] + i)] = Token(lo + k, "target", j)
        /\ labels[PartsFrom(P, o) + (off[k - 1] + i)]
              = ResponseLabel(o, PartAt(k, c, o), Token(lo + k, "target", j))
    BY <1>15, <1>16, <2>2, <2>3
  <2>. QED
    BY <2>4 DEF i
<1>19. Encoded(row, o, lo, kept, off)
  <2>1. \A j \in 1..P : ids[PrefixFrom(off[c], o) + j] = Token(0, "image", j)
    BY <1>13, <1>15
  <2>2. kept \in Seq(Cut) /\ Len(kept) = c /\ Mapped(Size, kept) \in Seq(Nat)
        /\ StepsBy(Mapped(Size, kept), off)
    BY <1>5, <1>6 DEF ls
  <2>3. \A k \in 1..c : kept[k].source # 0
    BY <1>11
  <2>. QED
    BY <1>14, <1>15, <1>16, <1>17, <1>18, <2>1, <2>2, <2>3 DEF Encoded, ids, labels, P, E
<1>20. off[c] = Sum(Mapped(Size, cuts))
  BY <1>5, <1>6
<1>. QED
  BY <1>2, <1>19, <1>20 DEF KeptOf, kept, cuts, row, lo, pairs, P
-----------------------------------------------------------------------------
(* Packing examples into rows. *)

\* What a function of the numbers in a sequence sums up to: with the right function
\* how many there are, or how many of one size.
Tally == [Int -> Int]
Tallied(g, s) == Sum(Mapped(g, s))

\* It is a sum over the parts of the sequence.
LEMMA TalliedParts ==
    ASSUME NEW g \in Tally, NEW s \in Seq(Int), NEW t \in Seq(Int), NEW e \in Int
    PROVE  /\ Tallied(g, s) \in Int /\ Tallied(g, <<>>) = 0
           /\ Tallied(g, Append(s, e)) = Tallied(g, s) + g[e]
           /\ Tallied(g, s \o t) = Tallied(g, s) + Tallied(g, t)
<1>1. g \in [Int -> Int] /\ g[e] \in Int
  BY DEF Tally
<1>2. Mapped(g, s) \in Seq(Int) /\ Mapped(g, t) \in Seq(Int)
  BY <1>1, MappedType
<1>3. Tallied(g, s) \in Int
  BY <1>2, SumType DEF Tallied
<1>4. Tallied(g, <<>>) = 0
  BY MappedEmpty, SumEmpty DEF Tallied
<1>5. Mapped(g, Append(s, e)) = Append(Mapped(g, s), g[e])
  BY MappedAppend
<1>6. Mapped(g, s \o t) = Mapped(g, s) \o Mapped(g, t)
  BY MappedJoined
<1>7. Tallied(g, Append(s, e)) = Tallied(g, s) + g[e]
  BY <1>1, <1>2, <1>5, SumAppend DEF Tallied
<1>8. Tallied(g, s \o t) = Tallied(g, s) + Tallied(g, t)
  BY <1>2, <1>6, SumJoined DEF Tallied
<1>. QED
  BY <1>3, <1>4, <1>7, <1>8

\* r is s without its i-th element.
Removed(s, i, r) ==
    /\ Len(r) = Len(s) - 1
    /\ \A j \in 1..(Len(s) - 1) : r[j] = IF j < i THEN s[j] ELSE s[j + 1]

\* s is the two together with e between them, r without it.
Parted(S, s, e, r) ==
    \E a \in Seq(S) : \E b \in Seq(S) : s = Append(a, e) \o b /\ r = a \o b

\* So does RemoveAt.
LEMMA RemovedAt ==
    ASSUME NEW S, NEW s \in Seq(S), NEW i \in 1..Len(s)
    PROVE  /\ RemoveAt(s, i) \in Seq(S) /\ Removed(s, i, RemoveAt(s, i))
           /\ Parted(S, s, s[i], RemoveAt(s, i))
<1>. DEFINE n == Len(s)
            h == i - 1
            m == n - i
            a == SubSeq(s, 1, i - 1)
            b == SubSeq(s, i + 1, n)
            c == Append(a, s[i])
            r == a \o b
            w == c \o b
<1>0. n \in Nat /\ h \in Nat /\ m \in Nat /\ i \in Nat /\ i = h + 1 /\ n = i + m
      /\ \A k \in 1..n : s[k] \in S
  BY LenProperties, ElementOfSeq
<1>1. a \in Seq(S) /\ Len(a) = h /\ \A k \in 1..h : a[k] = s[k]
  <2>1. \A k \in 1..(i - 1) : s[k] \in S
    BY <1>0
  <2>2. IF 1 <= i - 1 THEN Len(a) = (i - 1) - 1 + 1 ELSE Len(a) = 0
    BY <2>1, SubSeqProperties
  <2>3. a \in Seq(S) /\ \A k \in 1..((i - 1) - 1 + 1) : a[k] = s[1 + k - 1]
    BY <2>1, SubSeqProperties
  <2>4. h \in Nat /\ (i - 1) - 1 + 1 = h /\ i - 1 = h
    BY <1>0
  <2>. HIDE DEF a, h
  <2>5. Len(a) = h
    BY <2>2, <2>4
  <2>6. ASSUME NEW k \in 1..h PROVE a[k] = s[k]
    <3>1. 1 + k - 1 = k
      OBVIOUS
    <3>. QED
      BY <2>3, <2>4, <3>1
  <2>. QED
    BY <2>3, <2>5, <2>6
<1>2. b \in Seq(S) /\ Len(b) = m /\ \A k \in 1..m : b[k] = s[i + k]
  <2>1. \A k \in (i + 1)..n : s[k] \in S
    BY <1>0
  <2>2. IF i + 1 <= n THEN Len(b) = n - (i + 1) + 1 ELSE Len(b) = 0
    BY <1>0, <2>1, SubSeqProperties
  <2>3. b \in Seq(S) /\ \A k \in 1..(n - (i + 1) + 1) : b[k] = s[(i + 1) + k - 1]
    BY <1>0, <2>1, SubSeqProperties
  <2>. HIDE DEF b
  <2>4. n - (i + 1) + 1 = m /\ (i + 1 <= n <=> m # 0) /\ \A k \in 1..m : (i + 1) + k - 1 = i + k
    <3>. HIDE DEF n, m, h
    <3>. QED
      BY <1>0
  <2>5. Len(b) = m
    BY <1>0, <2>2, <2>4
  <2>6. \A k \in 1..m : b[k] = s[i + k]
    BY <2>3, <2>4
  <2>. QED
    BY <2>3, <2>5, <2>6
<1>. HIDE DEF a, b
<1>3. c \in Seq(S) /\ Len(c) = h + 1 /\ c[h + 1] = s[i] /\ \A k \in 1..h : c[k] = s[k]
  BY <1>0, <1>1, AppendProperties
<1>. HIDE DEF c
<1>4. r \in Seq(S) /\ Joins(a, b, r) /\ w \in Seq(S) /\ Joins(c, b, w)
  <2>1. a \o b \in Seq(S) /\ Joins(a, b, a \o b)
    BY <1>1, <1>2, ConcatProperties, JoinsConcat
  <2>2. c \o b \in Seq(S) /\ Joins(c, b, c \o b)
    BY <1>2, <1>3, ConcatProperties, JoinsConcat
  <2>. QED
    BY <2>1, <2>2
<1>. HIDE DEF r, w
<1>5. Len(w) = n
  BY <1>0, <1>2, <1>3, <1>4 DEF Joins
<1>6. ASSUME NEW k \in 1..n PROVE w[k] = s[k]
  <2>1. CASE k <= h
    BY <1>0, <1>3, <1>4, <2>1 DEF Joins
  <2>2. CASE k = h + 1
    BY <1>0, <1>3, <1>4, <2>2 DEF Joins
  <2>3. CASE k > h + 1
    <3>. DEFINE l == k - i
    <3>1. l \in 1..m /\ k = i + l /\ k = (h + 1) + l
      BY <1>0, <2>3
    <3>. HIDE DEF l
    <3>2. w[Len(c) + l] = b[l] /\ b[l] = s[i + l]
      BY <1>2, <1>4, <3>1 DEF Joins
    <3>. QED
      BY <1>3, <3>1, <3>2
  <2>. QED
    BY <1>0, <2>1, <2>2, <2>3
<1>7. w = s
  <2>. HIDE DEF n
  <2>1. Len(w) = Len(s) /\ \A k \in 1..Len(w) : w[k] = s[k]
    BY <1>5, <1>6 DEF n
  <2>. QED
    BY <1>4, <2>1, SeqEqual
<1>8. Len(r) = n - 1
  BY <1>0, <1>1, <1>2, <1>4 DEF Joins
<1>9. ASSUME NEW k \in 1..(n - 1) PROVE r[k] = IF k < i THEN s[k] ELSE s[k + 1]
  <2>1. CASE k <= h
    BY <1>0, <1>1, <1>4, <2>1 DEF Joins
  <2>2. CASE k > h
    <3>. DEFINE l == k - h
    <3>1. l \in 1..m /\ k = h + l /\ k + 1 = i + l
      BY <1>0, <2>2
    <3>. HIDE DEF l
    <3>2. r[Len(a) + l] = b[l] /\ b[l] = s[i + l]
      BY <1>2, <1>4, <3>1 DEF Joins
    <3>. QED
      BY <1>0, <1>1, <2>2, <3>1, <3>2
  <2>. QED
    BY <1>0, <2>1, <2>2
<1>10. RemoveAt(s, i) = r
  BY DEF RemoveAt, r, a, b
<1>11. Removed(s, i, r)
  BY <1>8, <1>9 DEF Removed
<1>12. s = Append(a, s[i]) \o b /\ r = a \o b
  BY <1>7 DEF w, c, r
<1>13. Parted(S, s, s[i], r)
  BY <1>1, <1>2, <1>12 DEF Parted
<1>. QED
  BY <1>4, <1>10, <1>11, <1>13

\* What it takes away.
LEMMA TalliedRemoved ==
    ASSUME NEW g \in Tally, NEW s \in Seq(Int), NEW i \in 1..Len(s)
    PROVE  Tallied(g, s) = Tallied(g, RemoveAt(s, i)) + g[s[i]]
<1>. DEFINE e == s[i]
            r == RemoveAt(s, i)
<1>0. e \in Int /\ g[e] \in Int
  BY ElementOfSeq DEF Tally
<1>1. Parted(Int, s, e, r)
  BY RemovedAt
<1>. HIDE DEF e, r
<1>2. PICK a \in Seq(Int) : \E b \in Seq(Int) : s = Append(a, e) \o b /\ r = a \o b
  BY <1>1 DEF Parted
<1>3. PICK b \in Seq(Int) : s = Append(a, e) \o b /\ r = a \o b
  BY <1>2
<1>. DEFINE c == Append(a, e)
<1>4. c \in Seq(Int)
  BY <1>0, AppendProperties
<1>5. Tallied(g, c) = Tallied(g, a) + g[e]
  BY <1>0, TalliedParts
<1>. HIDE DEF c
<1>6. Tallied(g, c \o b) = Tallied(g, c) + Tallied(g, b)
  BY <1>0, <1>4, TalliedParts
<1>7. Tallied(g, a \o b) = Tallied(g, a) + Tallied(g, b)
  BY <1>0, TalliedParts
<1>8. Tallied(g, a) \in Int /\ Tallied(g, b) \in Int
  BY <1>0, TalliedParts
<1>9. s = c \o b
  BY <1>3 DEF c
<1>10. Tallied(g, s) = Tallied(g, r) + g[e]
  BY <1>0, <1>3, <1>5, <1>6, <1>7, <1>8, <1>9
<1>. QED
  BY <1>10 DEF e, r

\* Numbers in ascending order.
Rising(s) == \A i, j \in 1..Len(s) : i < j => s[i] <= s[j]

\* They stay so.
LEMMA RemovedAscends ==
    ASSUME NEW s \in Seq(Int), Rising(s), NEW i \in 1..Len(s)
    PROVE  Rising(RemoveAt(s, i))
<1>. DEFINE r == RemoveAt(s, i)
            n == Len(s)
<1>1. Removed(s, i, r)
  BY RemovedAt
<1>. HIDE DEF r
<1>2. n \in Nat /\ Len(r) = n - 1 /\ \A j \in 1..(n - 1) : r[j] = s[IF j < i THEN j ELSE j + 1]
  BY <1>1, LenProperties DEF Removed
<1>3. ASSUME NEW j \in 1..Len(r), NEW k \in 1..Len(r), j < k PROVE r[j] <= r[k]
  <2>. DEFINE x == IF j < i THEN j ELSE j + 1
              y == IF k < i THEN k ELSE k + 1
  <2>1. x \in 1..n /\ y \in 1..n /\ x < y
    BY <1>2, <1>3
  <2>2. r[j] = s[x] /\ r[k] = s[y]
    BY <1>2
  <2>. HIDE DEF x, y
  <2>. QED
    BY <2>1, <2>2 DEF Rising
<1>. QED
  BY <1>3 DEF Rising, r

\* A set of the places up to n that has with every place those before it.
LEMMA FirstPlaces ==
    ASSUME NEW n \in Nat, NEW A, A \subseteq 1..n,
           \A i, j \in 1..n : i < j /\ j \in A => i \in A
    PROVE  Cardinality(A) \in 0..n /\ A = 1..Cardinality(A)
<1>. DEFINE T == {x \in 1..(n + 1) : x \notin A}
<1>1. n + 1 \in T /\ T \subseteq Nat
  OBVIOUS
<1>2. PICK x \in T : \A y \in T : x <= y
  BY <1>1, Least
<1>3. x - 1 \in 0..n /\ x - 1 \in Int
  BY <1>2
<1>. DEFINE b == x - 1
<1>4. ASSUME NEW i \in 1..b PROVE i \in A
  <2>1. i \in 1..(n + 1) /\ i < x
    BY <1>2
  <2>2. i \notin T
    BY <1>2, <2>1
  <2>. QED
    BY <2>1, <2>2
<1>5. ASSUME NEW i \in A PROVE i \in 1..b
  <2>1. i \in 1..n /\ x \notin A /\ x \in 1..(n + 1)
    BY <1>2
  <2>2. i < x
    <3>1. SUFFICES ASSUME x < i PROVE FALSE
      BY <2>1
    <3>2. x \in 1..n
      BY <2>1, <3>1
    <3>. QED
      BY <2>1, <3>1, <3>2
  <2>. QED
    BY <2>1, <2>2
<1>6. A = 1..b
  <2>. HIDE DEF b
  <2>. QED
    BY <1>4, <1>5
<1>7. Cardinality(1..b) = b
  <2>1. b \in Int /\ b >= 0
    BY <1>3
  <2>. HIDE DEF b
  <2>2. Cardinality(1..b) = IF 1 > b THEN 0 ELSE b - 1 + 1
    BY <2>1, FS_Interval
  <2>. QED
    BY <2>1, <2>2
<1>. QED
  BY <1>3, <1>6, <1>7

\* Of ascending numbers the first ones fit.
LEMMA FitsUpTo ==
    ASSUME NEW s \in Seq(Int), Rising(s), NEW room \in Int
    PROVE  /\ SearchForFit(s, room) \in 0..Len(s)
           /\ \A i \in 1..Len(s) : s[i] <= room <=> i <= SearchForFit(s, room)
<1>. DEFINE n == Len(s)
            A == {i \in DOMAIN s : s[i] <= room}
            m == Cardinality(A)
<1>1. n \in Nat /\ DOMAIN s = 1..n /\ \A i \in 1..n : s[i] \in Int
  BY LenProperties, ElementOfSeq
<1>2. A \subseteq 1..n /\ \A i \in 1..n : i \in A <=> s[i] <= room
  BY <1>1
<1>3. \A i, j \in 1..n : i < j /\ j \in A => i \in A
  BY <1>1, <1>2 DEF Rising
<1>. HIDE DEF A
<1>4. m \in 0..n /\ A = 1..m
  BY <1>1, <1>2, <1>3, FirstPlaces
<1>5. SearchForFit(s, room) = m
  BY DEF SearchForFit, A
<1>6. \A i \in 1..n : s[i] <= room <=> i <= m
  <2>. HIDE DEF m
  <2>. QED
    BY <1>1, <1>2, <1>4
<1>. QED
  BY <1>4, <1>5, <1>6

\* Members of a larger set.
LEMMA WiderSeq ==
    ASSUME NEW S, NEW T, S \subseteq T, NEW s \in Seq(S)
    PROVE  s \in Seq(T)
<1>1. Len(s) \in Nat /\ s \in [1..Len(s) -> T]
  BY LenProperties
<1>. QED
  BY <1>1, SeqDef

\* Two sequences hold together what a third one holds.
Shares(s, t, u) ==
    /\ Len(s) + Len(t) = Len(u)
    /\ \A g \in Tally : Tallied(g, s) + Tallied(g, t) = Tallied(g, u)

\* A sack while it is filled from these numbers, which are all in S.
Filling(S, numbers, capacity, fill) ==
    /\ fill.sack \in Seq(S) /\ fill.numbers \in Seq(S) /\ Rising(fill.numbers)
    /\ fill.remaining \in Nat /\ fill.remaining + Sum(fill.sack) = capacity
    /\ Shares(fill.sack, fill.numbers, numbers)

\* Nothing more goes into it.
Full(fill) == SearchForFit(fill.numbers, fill.remaining) = 0

\* One more number is put in, if one fits.
Further(S, numbers, capacity, fill, next) ==
    /\ Filling(S, numbers, capacity, next)
    /\ Full(fill) => next = fill
    /\ ~Full(fill) => Len(next.sack) = Len(fill.sack) + 1

\* AddFit puts in one more, or nothing.
LEMMA FitAdded ==
    ASSUME NEW S, S \subseteq Nat, NEW numbers, NEW capacity, NEW fill,
           Filling(S, numbers, capacity, fill)
    PROVE  Further(S, numbers, capacity, fill, AddFit(fill))
<1>. DEFINE s == fill.sack
            t == fill.numbers
            room == fill.remaining
            i == SearchForFit(t, room)
            e == t[i]
            a == Append(s, e)
            r == RemoveAt(t, i)
<1>1. /\ s \in Seq(S) /\ t \in Seq(S) /\ Rising(t) /\ room \in Nat
      /\ room + Sum(s) = capacity /\ Shares(s, t, numbers)
  BY DEF Filling
<1>2. s \in Seq(Int) /\ t \in Seq(Int)
  <2>1. S \subseteq Int
    OBVIOUS
  <2>. QED
    BY <1>1, <2>1, WiderSeq
<1>3. i \in 0..Len(t) /\ \A k \in 1..Len(t) : t[k] <= room <=> k <= i
  <2>1. room \in Int
    BY <1>1
  <2>. HIDE DEF t, room
  <2>. QED
    BY <1>1, <1>2, <2>1, FitsUpTo
<1>4. CASE i = 0
  <2>1. AddFit(fill) = fill /\ Full(fill)
    BY <1>4 DEF AddFit, Full
  <2>. QED
    BY <2>1 DEF Further
<1>5. CASE i # 0
  <2>1. AddFit(fill) = [sack |-> a, numbers |-> r, remaining |-> room - e]
    BY <1>5 DEF AddFit
  <2>2. i \in 1..Len(t) /\ Len(t) \in Nat /\ Len(s) \in Nat
    <3>1. Len(t) \in Nat /\ Len(s) \in Nat
      BY <1>1, LenProperties
    <3>. QED
      BY <1>3, <1>5, <3>1
  <2>. HIDE DEF i
  <2>3. e \in S /\ e \in Nat /\ e <= room
    <3>1. e \in S
      BY <1>1, <2>2, ElementOfSeq
    <3>2. i <= i
      BY <2>2
    <3>. QED
      BY <1>3, <2>2, <3>1, <3>2
  <2>4. r \in Seq(S) /\ Removed(t, i, r) /\ Rising(r)
    BY <1>1, <1>2, <2>2, RemovedAt, RemovedAscends
  <2>5. a \in Seq(S) /\ Len(a) = Len(s) + 1
    BY <1>1, <2>3, AppendProperties
  <2>6. Sum(a) = Sum(s) + e /\ Sum(s) \in Int
    <3>1. e \in Int
      BY <2>3
    <3>. HIDE DEF e, s
    <3>. QED
      BY <1>2, <3>1, SumAppend, SumType
  <2>7. room - e \in Nat /\ (room - e) + Sum(a) = capacity
    <3>. HIDE DEF e, room, a, s
    <3>. QED
      BY <1>1, <2>3, <2>6
  <2>8. Len(a) + Len(r) = Len(numbers)
    <3>1. Len(s) + Len(t) = Len(numbers) /\ Len(r) = Len(t) - 1
      BY <1>1, <2>4 DEF Shares, Removed
    <3>. HIDE DEF a, r, s, t
    <3>. QED
      BY <2>2, <2>5, <3>1
  <2>9. ASSUME NEW g \in Tally PROVE Tallied(g, a) + Tallied(g, r) = Tallied(g, numbers)
    <3>1. Tallied(g, s) + Tallied(g, t) = Tallied(g, numbers)
      BY <1>1 DEF Shares
    <3>2. Tallied(g, t) = Tallied(g, r) + g[e]
      BY <1>2, <2>2, TalliedRemoved
    <3>3. Tallied(g, a) = Tallied(g, s) + g[e] /\ Tallied(g, s) \in Int
      <4>1. e \in Int
        BY <2>3
      <4>. HIDE DEF e, s
      <4>. QED
        BY <1>2, <4>1, TalliedParts
    <3>4. Tallied(g, r) \in Int /\ g[e] \in Int
      <4>1. r \in Seq(Int) /\ e \in Int
        <5>1. S \subseteq Int
          OBVIOUS
        <5>2. r \in Seq(Int)
          BY <2>4, <5>1, WiderSeq
        <5>. QED
          BY <2>3, <5>2
      <4>2. g[e] \in Int
        BY <4>1 DEF Tally
      <4>. HIDE DEF r, e
      <4>. QED
        BY <4>1, <4>2, TalliedParts
    <3>. HIDE DEF a, r, e, s, t
    <3>. QED
      BY <3>1, <3>2, <3>3, <3>4
  <2>10. Shares(a, r, numbers)
    BY <2>8, <2>9 DEF Shares
  <2>. DEFINE next == [sack |-> a, numbers |-> r, remaining |-> room - e]
  <2>11. next.sack = a /\ next.numbers = r /\ next.remaining = room - e
    OBVIOUS
  <2>12. ~Full(fill)
    BY <1>5 DEF Full, i
  <2>. HIDE DEF a, r, e, next
  <2>13. Filling(S, numbers, capacity, next)
    BY <2>4, <2>5, <2>7, <2>10, <2>11 DEF Filling
  <2>14. Further(S, numbers, capacity, fill, next)
    BY <2>5, <2>11, <2>12, <2>13 DEF Further
  <2>. QED
    BY <2>1, <2>14 DEF next
<1>. QED
  BY <1>4, <1>5

\* A sack, number by number.
SackFills(numbers, capacity, m, fill) ==
    fill = [n \in 0..m |->
               IF n = 0 THEN [sack |-> <<>>, numbers |-> numbers, remaining |-> capacity]
               ELSE AddFit(fill[n - 1])]

\* A sack can be filled so.
LEMMA SackFillsExist ==
    ASSUME NEW numbers, NEW capacity, NEW m \in Nat
    PROVE  \E fill : SackFills(numbers, capacity, m, fill)
<1>. DEFINE none == [sack |-> <<>>, numbers |-> numbers, remaining |-> capacity]
            G == {k \in Nat : \E fill : SackFills(numbers, capacity, k, fill)}
<1>1. 0 \in G
  <2>1. SackFills(numbers, capacity, 0, [n \in 0..0 |-> none])
    BY DEF SackFills
  <2>. QED
    BY <2>1
<1>2. ASSUME NEW k \in Nat, k \in G PROVE k + 1 \in G
  <2>1. PICK f : SackFills(numbers, capacity, k, f)
    BY <1>2
  <2>. DEFINE next == AddFit(f[k])
              g == [n \in 0..(k + 1) |-> IF n < k + 1 THEN f[n] ELSE next]
  <2>2. f = [n \in 0..k |-> IF n = 0 THEN none ELSE AddFit(f[n - 1])]
    BY <2>1 DEF SackFills
  <2>3. ASSUME NEW n \in 0..(k + 1)
        PROVE  g[n] = IF n = 0 THEN none ELSE AddFit(g[n - 1])
    <3>1. CASE n = 0
      BY <2>2, <3>1
    <3>2. CASE n \in 1..k
      <4>1. g[n] = f[n] /\ g[n - 1] = f[n - 1] /\ n # 0 /\ n \in 0..k
        BY <3>2
      <4>. QED
        BY <2>2, <4>1
    <3>3. CASE n = k + 1
      <4>1. g[n] = next /\ g[n - 1] = f[k] /\ n # 0
        BY <3>3
      <4>. QED
        BY <3>3, <4>1
    <3>. QED
      BY <3>1, <3>2, <3>3
  <2>4. g = [n \in 0..(k + 1) |-> g[n]]
    OBVIOUS
  <2>. HIDE DEF g, none
  <2>5. g = [n \in 0..(k + 1) |-> IF n = 0 THEN none ELSE AddFit(g[n - 1])]
    BY <2>3, <2>4
  <2>6. SackFills(numbers, capacity, k + 1, g)
    BY <2>5 DEF SackFills, none
  <2>. QED
    BY <2>6
<1>3. \A k \in Nat : k \in G
  <2>. HIDE DEF G
  <2>. QED
    BY <1>1, <1>2, Counting
<1>. QED
  BY <1>3

\* FillKnapsack is what the last of them holds.
LEMMA KnapsackUnfold ==
    ASSUME NEW numbers \in Seq(Int), NEW capacity
    PROVE  \E fill : SackFills(numbers, capacity, Len(numbers), fill)
                     /\ FillKnapsack(numbers, capacity) = fill[Len(numbers)]
<1>1. \E fill : SackFills(numbers, capacity, Len(numbers), fill)
  BY SackFillsExist, LenProperties
<1>2. SackFills(numbers, capacity, Len(numbers),
                CHOOSE fill : SackFills(numbers, capacity, Len(numbers), fill))
  BY <1>1
<1>3. FillKnapsack(numbers, capacity)
          = (CHOOSE fill : SackFills(numbers, capacity, Len(numbers), fill))[Len(numbers)]
  BY DEF FillKnapsack, SackFills
<1>. QED
  BY <1>2, <1>3

\* A sack at the end.
LEMMA SackFilled ==
    ASSUME NEW S, S \subseteq Nat, NEW numbers \in Seq(S), Rising(numbers), NEW capacity \in Nat
    PROVE  /\ Filling(S, numbers, capacity, FillKnapsack(numbers, capacity))
           /\ Full(FillKnapsack(numbers, capacity))
<1>. DEFINE m == Len(numbers)
            none == [sack |-> <<>>, numbers |-> numbers, remaining |-> capacity]
<1>0. m \in Nat /\ numbers \in Seq(Int)
  <2>1. S \subseteq Int
    OBVIOUS
  <2>. QED
    BY <2>1, LenProperties, WiderSeq
<1>1. PICK fill : SackFills(numbers, capacity, m, fill) /\ FillKnapsack(numbers, capacity) = fill[m]
  BY <1>0, KnapsackUnfold
<1>2. /\ fill[0] = none
      /\ \A n \in 1..m : fill[n] = AddFit(fill[n - 1])
  <2>1. fill = [n \in 0..m |-> IF n = 0 THEN none ELSE AddFit(fill[n - 1])]
    BY <1>1 DEF SackFills
  <2>2. 0 \in 0..m /\ \A n \in 1..m : n \in 0..m /\ n # 0
    BY <1>0
  <2>. HIDE DEF none, m
  <2>. QED
    BY <2>1, <2>2
<1>3. Filling(S, numbers, capacity, none) /\ Len(none.sack) = 0
  <2>1. none.sack = <<>> /\ none.numbers = numbers /\ none.remaining = capacity
    OBVIOUS
  <2>2. <<>> \in Seq(S) /\ Len(<<>>) = 0 /\ <<>> \in Seq(Int)
    BY EmptySeq
  <2>3. capacity + Sum(<<>>) = capacity
    BY SumEmpty
  <2>4. ASSUME NEW g \in Tally PROVE Tallied(g, <<>>) + Tallied(g, numbers) = Tallied(g, numbers)
    <3>1. 0 \in Int
      OBVIOUS
    <3>2. Tallied(g, numbers) \in Int /\ Tallied(g, <<>>) = 0
      BY <1>0, <3>1, TalliedParts
    <3>. QED
      BY <3>2
  <2>5. 0 + Len(numbers) = Len(numbers)
    BY <1>0
  <2>6. Shares(<<>>, numbers, numbers)
    BY <2>2, <2>4, <2>5 DEF Shares
  <2>. HIDE DEF none
  <2>. QED
    BY <2>1, <2>2, <2>3, <2>6 DEF Filling
<1>. HIDE DEF none
<1>. DEFINE G == {n \in Nat : n <= m => /\ Filling(S, numbers, capacity, fill[n])
                                        /\ Full(fill[n]) \/ Len(fill[n].sack) = n}
<1>4. 0 \in G
  BY <1>2, <1>3
<1>5. ASSUME NEW n \in Nat, n \in G PROVE n + 1 \in G
  <2>1. SUFFICES ASSUME n + 1 <= m
                 PROVE  /\ Filling(S, numbers, capacity, fill[n + 1])
                        /\ Full(fill[n + 1]) \/ Len(fill[n + 1].sack) = n + 1
    OBVIOUS
  <2>2. n <= m /\ n + 1 \in 1..m /\ (n + 1) - 1 = n
    BY <1>0, <2>1
  <2>3. fill[n + 1] = AddFit(fill[n])
    BY <1>2, <2>2
  <2>4. Filling(S, numbers, capacity, fill[n]) /\ (Full(fill[n]) \/ Len(fill[n].sack) = n)
    BY <1>5, <2>2
  <2>5. Further(S, numbers, capacity, fill[n], AddFit(fill[n]))
    BY <2>4, FitAdded
  <2>. QED
    BY <2>3, <2>4, <2>5 DEF Further
<1>6. \A n \in Nat : n \in G
  <2>. HIDE DEF G
  <2>. QED
    BY <1>4, <1>5, Counting
<1>7. /\ Filling(S, numbers, capacity, fill[m])
      /\ Full(fill[m]) \/ Len(fill[m].sack) = m
  BY <1>0, <1>6
<1>8. ASSUME Len(fill[m].sack) = m PROVE Full(fill[m])
  <2>. DEFINE t == fill[m].numbers
              room == fill[m].remaining
  <2>1. t \in Seq(S) /\ Rising(t) /\ room \in Nat /\ Len(fill[m].sack) + Len(t) = m
    BY <1>7 DEF Filling, Shares
  <2>2. t \in Seq(Int) /\ Len(t) \in Nat
    <3>1. S \subseteq Int
      OBVIOUS
    <3>. QED
      BY <2>1, <3>1, WiderSeq, LenProperties
  <2>3. Len(t) = 0
    <3>. HIDE DEF t, m
    <3>. QED
      BY <1>0, <1>8, <2>1, <2>2
  <2>4. SearchForFit(t, room) \in 0..Len(t)
    <3>1. room \in Int
      BY <2>1
    <3>. HIDE DEF t, room
    <3>. QED
      BY <2>1, <2>2, <3>1, FitsUpTo
  <2>5. SearchForFit(t, room) = 0
    <3>. HIDE DEF t, room
    <3>. QED
      BY <2>3, <2>4
  <2>. QED
    BY <2>5 DEF Full
<1>. QED
  BY <1>1, <1>7, <1>8

\* A sack, and what is left for others: it is not empty, holds no more than it can,
\* and nothing that is left would go into it.
SackOf(S, numbers, capacity, sack, left) ==
    /\ sack \in Seq(S) /\ left \in Seq(S) /\ Rising(left) /\ Shares(sack, left, numbers)
    /\ Sum(sack) \in Int /\ Sum(sack) <= capacity /\ Len(sack) \in Nat \ {0}
    /\ \A i \in 1..Len(left) : Sum(sack) + left[i] > capacity

\* FillKnapsack fills a sack.
LEMMA SackIs ==
    ASSUME NEW capacity \in Nat, NEW S, S \subseteq 1..capacity, NEW numbers \in Seq(S),
           Rising(numbers), numbers # <<>>
    PROVE  SackOf(S, numbers, capacity, FillKnapsack(numbers, capacity).sack,
                  FillKnapsack(numbers, capacity).numbers)
<1>. DEFINE F == FillKnapsack(numbers, capacity)
            s == F.sack
            t == F.numbers
            room == F.remaining
<1>0. S \subseteq Nat /\ S \subseteq Int
  OBVIOUS
<1>1. Filling(S, numbers, capacity, F) /\ Full(F)
  BY <1>0, SackFilled
<1>. HIDE DEF F
<1>2. /\ s \in Seq(S) /\ t \in Seq(S) /\ Rising(t) /\ room \in Nat
      /\ room + Sum(s) = capacity /\ Shares(s, t, numbers)
  BY <1>1 DEF Filling
<1>3. s \in Seq(Int) /\ t \in Seq(Int) /\ Len(s) \in Nat /\ Len(t) \in Nat
  BY <1>0, <1>2, WiderSeq, LenProperties
<1>4. Sum(s) \in Int
  BY <1>3, SumType
<1>5. \A i \in 1..Len(t) : ~(t[i] <= room)
  <2>1. SearchForFit(t, room) = 0
    BY <1>1 DEF Full
  <2>2. room \in Int
    BY <1>2
  <2>. HIDE DEF t, room
  <2>3. \A i \in 1..Len(t) : t[i] <= room <=> i <= SearchForFit(t, room)
    BY <1>2, <1>3, <2>2, FitsUpTo
  <2>. QED
    BY <2>1, <2>3
<1>6. \A i \in 1..Len(t) : t[i] \in 1..capacity
  BY <1>2, ElementOfSeq
<1>7. ASSUME Len(s) = 0 PROVE FALSE
  <2>1. s = <<>>
    BY <1>2, <1>7, EmptySeq
  <2>2. room = capacity
    BY <1>2, <2>1, SumEmpty
  <2>3. Len(t) = Len(numbers) /\ Len(numbers) # 0
    <3>1. Len(s) + Len(t) = Len(numbers)
      BY <1>2 DEF Shares
    <3>2. Len(numbers) # 0
      BY EmptySeq
    <3>. HIDE DEF s, t
    <3>. QED
      BY <1>3, <1>7, <3>1, <3>2
  <2>4. 1 \in 1..Len(t)
    BY <1>3, <2>3
  <2>5. t[1] \in 1..capacity /\ ~(t[1] <= room)
    BY <1>5, <1>6, <2>4
  <2>. QED
    BY <2>2, <2>5
<1>8. ASSUME NEW i \in 1..Len(t) PROVE Sum(s) + t[i] > capacity
  <2>1. t[i] \in Int /\ ~(t[i] <= room)
    BY <1>5, <1>6
  <2>. DEFINE x == t[i]
              y == Sum(s)
  <2>2. x \in Int /\ ~(x <= room) /\ y \in Int /\ room + y = capacity /\ room \in Nat
    BY <1>2, <1>4, <2>1
  <2>. HIDE DEF x, y, room
  <2>3. y + x > capacity
    BY <2>2
  <2>. QED
    BY <2>3 DEF x, y
<1>9. Sum(s) <= capacity
  <2>. HIDE DEF s, room
  <2>. QED
    BY <1>2, <1>4
<1>. HIDE DEF s, t
<1>10. SackOf(S, numbers, capacity, s, t)
  BY <1>2, <1>3, <1>4, <1>7, <1>8, <1>9 DEF SackOf
<1>. QED
  BY <1>10 DEF s, t, F

\* The sum of numbers is not less than the first of them.
LEMMA SumHasFirst ==
    ASSUME NEW s \in Seq(Nat), Len(s) # 0
    PROVE  s[1] <= Sum(s) /\ s[1] \in Nat /\ Sum(s) \in Nat
<1>1. PICK off : StepsBy(s, off) /\ off[Len(s)] = Sum(s)
  BY StepsExist
<1>2. /\ \A k, l \in 0..Len(s) : k <= l => off[k] <= off[l]
      /\ \A k \in 0..Len(s) : off[k] \in Nat
      /\ Len(s) \in Nat /\ \A k \in 1..Len(s) : s[k] \in Nat
  BY <1>1, StepsGrow
<1>3. 1 \in 1..Len(s) /\ 1 \in 0..Len(s) /\ Len(s) \in 0..Len(s) /\ 1 <= Len(s) /\ 1 - 1 = 0
  BY <1>2
<1>4. off[1] = 0 + s[1]
  BY <1>1, <1>3 DEF StepsBy
<1>5. off[1] <= off[Len(s)] /\ s[1] \in Nat /\ off[Len(s)] \in Nat
  BY <1>2, <1>3
<1>. QED
  BY <1>1, <1>4, <1>5

\* Nothing of t would go into the sack.
Closed(sack, capacity, t) == \A i \in 1..Len(t) : Sum(sack) + t[i] > capacity

\* Sacks while they are filled, one after the other.
Sacked(S, numbers, capacity, sacks, left) ==
    /\ sacks \in Seq(Seq(S)) /\ left \in Seq(S) /\ Rising(left)
    /\ Shares(FlattenSeq(sacks), left, numbers)
    /\ \A r \in 1..Len(sacks) :
          /\ Sum(sacks[r]) \in Int /\ Sum(sacks[r]) <= capacity /\ Len(sacks[r]) \in Nat \ {0}
          /\ Closed(sacks[r], capacity, left)
    /\ \A r, q \in 1..Len(sacks) : r < q => Closed(sacks[r], capacity, sacks[q])

\* What nothing of t would go into, nothing of a part of t would.
LEMMA ClosedToPart ==
    ASSUME NEW S, NEW sack, NEW capacity, NEW t \in Seq(S), NEW u \in Seq(ToSet(t)),
           Closed(sack, capacity, t)
    PROVE  Closed(sack, capacity, u)
<1>. SUFFICES ASSUME NEW i \in 1..Len(u) PROVE Sum(sack) + u[i] > capacity
  BY DEF Closed
<1>1. u[i] \in ToSet(t) /\ DOMAIN t = 1..Len(t)
  BY ElementOfSeq, LenProperties
<1>2. PICK j \in 1..Len(t) : u[i] = t[j]
  BY <1>1 DEF ToSet
<1>. QED
  BY <1>2 DEF Closed

\* Shares of shares.
LEMMA SharesJoined ==
    ASSUME NEW a \in Seq(Int), NEW b \in Seq(Int), NEW t \in Seq(Int), NEW u \in Seq(Int),
           NEW numbers \in Seq(Int), Shares(a, t, numbers), Shares(b, u, t)
    PROVE  Shares(a \o b, u, numbers)
<1>1. Len(a \o b) = Len(a) + Len(b) /\ Len(a) \in Nat /\ Len(b) \in Nat /\ Len(u) \in Nat
  BY JoinedAt, LenProperties
<1>2. Len(a \o b) + Len(u) = Len(numbers)
  <2>1. Len(a) + Len(t) = Len(numbers) /\ Len(b) + Len(u) = Len(t)
    BY DEF Shares
  <2>. DEFINE c == a \o b
  <2>2. Len(c) = Len(a) + Len(b)
    BY <1>1
  <2>. DEFINE w == Len(c)
              x == Len(a)
              y == Len(b)
              z == Len(u)
              p == Len(t)
              q == Len(numbers)
  <2>3. w = x + y /\ x \in Nat /\ y \in Nat /\ z \in Nat /\ p \in Nat /\ q \in Nat
        /\ x + p = q /\ y + z = p
    BY <1>1, <2>1, <2>2, LenProperties
  <2>. HIDE DEF c, w, x, y, z, p, q
  <2>4. w + z = q
    BY <2>3
  <2>. QED
    BY <2>4 DEF c, w, z, q
<1>3. ASSUME NEW g \in Tally
      PROVE  Tallied(g, a \o b) + Tallied(g, u) = Tallied(g, numbers)
  <2>1. /\ Tallied(g, a) + Tallied(g, t) = Tallied(g, numbers)
        /\ Tallied(g, b) + Tallied(g, u) = Tallied(g, t)
    BY DEF Shares
  <2>2. 0 \in Int
    OBVIOUS
  <2>3. Tallied(g, a \o b) = Tallied(g, a) + Tallied(g, b) /\ Tallied(g, a) \in Int
    BY <2>2, TalliedParts
  <2>4. Tallied(g, b) \in Int /\ Tallied(g, u) \in Int
    BY <2>2, TalliedParts
  <2>. QED
    BY <2>1, <2>3, <2>4
<1>. QED
  BY <1>2, <1>3 DEF Shares

\* One more sack is filled.
LEMMA SackAdded ==
    ASSUME NEW capacity \in Nat, NEW S, S \subseteq 1..capacity, NEW numbers \in Seq(S),
           NEW fills, Sacked(S, numbers, capacity, fills.sacks, fills.numbers),
           fills.numbers # <<>>
    PROVE  /\ Sacked(S, numbers, capacity,
                     AddSack(fills, capacity).sacks, AddSack(fills, capacity).numbers)
           /\ Len(AddSack(fills, capacity).numbers) < Len(fills.numbers)
<1>. DEFINE F == FillKnapsack(fills.numbers, capacity)
            t == fills.numbers
            T == ToSet(t)
            old == fills.sacks
            b == F.sack
            u == F.numbers
            sacks == Append(old, b)
            m == Len(old)
<1>0. S \subseteq Int
  OBVIOUS
<1>1. /\ old \in Seq(Seq(S)) /\ t \in Seq(S) /\ Rising(t)
      /\ Shares(FlattenSeq(old), t, numbers)
      /\ \A r \in 1..m :
            /\ Sum(old[r]) \in Int /\ Sum(old[r]) <= capacity /\ Len(old[r]) \in Nat \ {0}
            /\ Closed(old[r], capacity, t)
      /\ \A r, q \in 1..m : r < q => Closed(old[r], capacity, old[q])
  BY DEF Sacked
<1>2. AddSack(fills, capacity) = [sacks |-> sacks, numbers |-> u]
  BY DEF AddSack
<1>3. SackOf(T, t, capacity, b, u)
  <2>1. T \subseteq S /\ t \in Seq(T)
    BY <1>1, ElementsType
  <2>2. T \subseteq 1..capacity
    BY <2>1
  <2>. HIDE DEF t, T
  <2>. QED
    BY <1>1, <2>1, <2>2, SackIs DEF t
<1>4. /\ b \in Seq(T) /\ u \in Seq(T) /\ Rising(u) /\ Shares(b, u, t)
      /\ Sum(b) \in Int /\ Sum(b) <= capacity /\ Len(b) \in Nat \ {0}
      /\ Closed(b, capacity, u)
  BY <1>3 DEF SackOf, Closed
<1>5. T \subseteq S
  BY <1>1, ElementsType
<1>. HIDE DEF b, u, F, T, t, old, m
<1>6. b \in Seq(S) /\ u \in Seq(S)
  BY <1>4, <1>5, WiderSeq
<1>7. b \in Seq(Int) /\ u \in Seq(Int) /\ t \in Seq(Int) /\ numbers \in Seq(Int)
  BY <1>0, <1>1, <1>6, WiderSeq
<1>8. m \in Nat /\ sacks \in Seq(Seq(S)) /\ Len(sacks) = m + 1 /\ sacks[m + 1] = b
      /\ \A r \in 1..m : sacks[r] = old[r]
  BY <1>1, <1>6, LenProperties, AppendProperties DEF m
<1>9. Shares(FlattenSeq(sacks), u, numbers)
  <2>1. FlattenSeq(sacks) = FlattenSeq(old) \o b /\ FlattenSeq(old) \in Seq(S)
    BY <1>1, <1>6, FlatAppend, FlatType
  <2>2. FlattenSeq(old) \in Seq(Int)
    BY <1>0, <2>1, WiderSeq
  <2>. QED
    BY <1>1, <1>4, <1>7, <2>1, <2>2, SharesJoined
<1>10. ASSUME NEW r \in 1..m PROVE Closed(old[r], capacity, u) /\ Closed(old[r], capacity, b)
  <2>1. Closed(old[r], capacity, t)
    BY <1>1 DEF m
  <2>2. b \in Seq(ToSet(t)) /\ u \in Seq(ToSet(t))
    BY <1>4 DEF T
  <2>. QED
    BY <1>1, <2>1, <2>2, ClosedToPart
<1>. HIDE DEF sacks
<1>11. ASSUME NEW r \in 1..Len(sacks)
       PROVE  /\ Sum(sacks[r]) \in Int /\ Sum(sacks[r]) <= capacity
              /\ Len(sacks[r]) \in Nat \ {0} /\ Closed(sacks[r], capacity, u)
  <2>1. CASE r = m + 1
    BY <1>4, <1>8, <2>1
  <2>2. CASE r \in 1..m
    BY <1>1, <1>8, <1>10, <2>2 DEF m
  <2>. QED
    BY <1>8, <2>1, <2>2
<1>12. ASSUME NEW r \in 1..Len(sacks), NEW q \in 1..Len(sacks), r < q
       PROVE  Closed(sacks[r], capacity, sacks[q])
  <2>1. r \in 1..m
    BY <1>8, <1>12
  <2>2. CASE q = m + 1
    BY <1>8, <1>10, <2>1, <2>2
  <2>3. CASE q \in 1..m
    BY <1>1, <1>8, <1>12, <2>1, <2>3 DEF m
  <2>. QED
    BY <1>8, <2>2, <2>3
<1>13. Len(u) < Len(t)
  <2>1. Len(b) + Len(u) = Len(t)
    BY <1>4 DEF Shares
  <2>2. Len(u) \in Nat
    BY <1>6, LenProperties
  <2>. QED
    BY <1>4, <2>1, <2>2
<1>14. Sacked(S, numbers, capacity, sacks, u)
  BY <1>4, <1>6, <1>8, <1>9, <1>11, <1>12 DEF Sacked
<1>. QED
  BY <1>2, <1>13, <1>14 DEF t

\* All sacks, one by one.
AllFills(numbers, capacity, m, fills) ==
    fills = [n \in 0..m |-> IF n = 0 THEN [sacks |-> <<>>, numbers |-> numbers]
                            ELSE AddSack(fills[n - 1], capacity)]

\* They can be filled so.
LEMMA AllFillsExist ==
    ASSUME NEW numbers, NEW capacity, NEW m \in Nat
    PROVE  \E fills : AllFills(numbers, capacity, m, fills)
<1>. DEFINE none == [sacks |-> <<>>, numbers |-> numbers]
            G == {k \in Nat : \E fills : AllFills(numbers, capacity, k, fills)}
<1>1. 0 \in G
  <2>1. AllFills(numbers, capacity, 0, [n \in 0..0 |-> none])
    BY DEF AllFills
  <2>. QED
    BY <2>1
<1>2. ASSUME NEW k \in Nat, k \in G PROVE k + 1 \in G
  <2>1. PICK f : AllFills(numbers, capacity, k, f)
    BY <1>2
  <2>. DEFINE next == AddSack(f[k], capacity)
              g == [n \in 0..(k + 1) |-> IF n < k + 1 THEN f[n] ELSE next]
  <2>2. f = [n \in 0..k |-> IF n = 0 THEN none ELSE AddSack(f[n - 1], capacity)]
    BY <2>1 DEF AllFills
  <2>3. ASSUME NEW n \in 0..(k + 1)
        PROVE  g[n] = IF n = 0 THEN none ELSE AddSack(g[n - 1], capacity)
    <3>1. CASE n = 0
      BY <2>2, <3>1
    <3>2. CASE n \in 1..k
      <4>1. g[n] = f[n] /\ g[n - 1] = f[n - 1] /\ n # 0 /\ n \in 0..k
        BY <3>2
      <4>. QED
        BY <2>2, <4>1
    <3>3. CASE n = k + 1
      <4>1. g[n] = next /\ g[n - 1] = f[k] /\ n # 0
        BY <3>3
      <4>. QED
        BY <3>3, <4>1
    <3>. QED
      BY <3>1, <3>2, <3>3
  <2>4. g = [n \in 0..(k + 1) |-> g[n]]
    OBVIOUS
  <2>. HIDE DEF g, none
  <2>5. g = [n \in 0..(k + 1) |-> IF n = 0 THEN none ELSE AddSack(g[n - 1], capacity)]
    BY <2>3, <2>4
  <2>6. AllFills(numbers, capacity, k + 1, g)
    BY <2>5 DEF AllFills, none
  <2>. QED
    BY <2>6
<1>3. \A k \in Nat : k \in G
  <2>. HIDE DEF G
  <2>. QED
    BY <1>1, <1>2, Counting
<1>. QED
  BY <1>3

\* FillAll is what the last of them holds.
LEMMA FillAllUnfold ==
    ASSUME NEW numbers \in Seq(Int), NEW capacity
    PROVE  \E fills : AllFills(numbers, capacity, Len(numbers), fills)
                      /\ FillAll(numbers, capacity) = fills[Len(numbers)].sacks
<1>1. \E fills : AllFills(numbers, capacity, Len(numbers), fills)
  BY AllFillsExist, LenProperties
<1>2. AllFills(numbers, capacity, Len(numbers),
               CHOOSE fills : AllFills(numbers, capacity, Len(numbers), fills))
  BY <1>1
<1>3. FillAll(numbers, capacity)
          = (CHOOSE fills : AllFills(numbers, capacity, Len(numbers), fills))[Len(numbers)].sacks
  BY DEF FillAll, AllFills
<1>. QED
  BY <1>2, <1>3

\* The sacks hold the numbers; none is empty or holds more than it can, and no two
\* would go into one.
SacksOf(S, numbers, capacity, sacks) ==
    /\ sacks \in Seq(Seq(S)) /\ Shares(FlattenSeq(sacks), <<>>, numbers)
    /\ \A r \in 1..Len(sacks) :
          Sum(sacks[r]) \in Nat /\ Sum(sacks[r]) <= capacity /\ Len(sacks[r]) \in Nat \ {0}
    /\ \A r, q \in 1..Len(sacks) : r # q => Sum(sacks[r]) + Sum(sacks[q]) > capacity

\* FillAll fills sacks until no number is left.
LEMMA SacksAre ==
    ASSUME NEW capacity \in Nat, NEW S, S \subseteq 1..capacity, NEW numbers \in Seq(S),
           Rising(numbers)
    PROVE  SacksOf(S, numbers, capacity, FillAll(numbers, capacity))
<1>. DEFINE m == Len(numbers)
            none == [sacks |-> <<>>, numbers |-> numbers]
<1>0. m \in Nat /\ numbers \in Seq(Int) /\ S \subseteq Nat
  <2>1. S \subseteq Int
    OBVIOUS
  <2>2. S \subseteq Nat
    OBVIOUS
  <2>3. numbers \in Seq(Int)
    BY <2>1, WiderSeq
  <2>. QED
    BY <2>2, <2>3, LenProperties
<1>1. PICK fills : AllFills(numbers, capacity, m, fills)
                   /\ FillAll(numbers, capacity) = fills[m].sacks
  BY <1>0, FillAllUnfold
<1>2. /\ fills[0] = none
      /\ \A n \in 1..m : fills[n] = AddSack(fills[n - 1], capacity)
  <2>1. fills = [n \in 0..m |-> IF n = 0 THEN none ELSE AddSack(fills[n - 1], capacity)]
    BY <1>1 DEF AllFills
  <2>2. 0 \in 0..m /\ \A n \in 1..m : n \in 0..m /\ n # 0
    BY <1>0
  <2>. HIDE DEF none, m
  <2>. QED
    BY <2>1, <2>2
<1>3. Sacked(S, numbers, capacity, none.sacks, none.numbers) /\ Len(none.numbers) <= m
  <2>1. none.sacks = <<>> /\ none.numbers = numbers
    OBVIOUS
  <2>2. <<>> \in Seq(Seq(S)) /\ Len(<<>>) = 0 /\ <<>> \in Seq(Int) /\ FlattenSeq(<<>>) = <<>>
    BY EmptySeq, FlatEmpty
  <2>3. ASSUME NEW g \in Tally PROVE Tallied(g, <<>>) + Tallied(g, numbers) = Tallied(g, numbers)
    <3>1. 0 \in Int
      OBVIOUS
    <3>2. Tallied(g, numbers) \in Int /\ Tallied(g, <<>>) = 0
      BY <1>0, <3>1, TalliedParts
    <3>. QED
      BY <3>2
  <2>4. 0 + Len(numbers) = Len(numbers)
    BY <1>0
  <2>5. Shares(FlattenSeq(<<>>), numbers, numbers)
    BY <2>2, <2>3, <2>4 DEF Shares
  <2>6. \A r : r \notin 1..Len(<<>>)
    BY <2>2
  <2>7. m <= m
    BY <1>0
  <2>. HIDE DEF none
  <2>. QED
    BY <2>1, <2>2, <2>5, <2>6, <2>7 DEF Sacked
<1>. HIDE DEF none
<1>. DEFINE State(n) == /\ Sacked(S, numbers, capacity, fills[n].sacks, fills[n].numbers)
                        /\ fills[n].numbers = <<>> \/ Len(fills[n].numbers) <= m - n
            G == {n \in Nat : n <= m => State(n)}
<1>4. 0 \in G
  <2>1. Len(fills[0].numbers) <= m - 0
    BY <1>0, <1>2, <1>3
  <2>. QED
    BY <1>2, <1>3, <2>1
<1>5. ASSUME NEW n \in Nat, n \in G PROVE n + 1 \in G
  <2>1. SUFFICES ASSUME n + 1 <= m PROVE State(n + 1)
    OBVIOUS
  <2>2. n <= m /\ n + 1 \in 1..m /\ (n + 1) - 1 = n
    BY <1>0, <2>1
  <2>3. fills[n + 1] = AddSack(fills[n], capacity)
    BY <1>2, <2>2
  <2>4. State(n)
    BY <1>5, <2>2
  <2>5. CASE fills[n].numbers = <<>>
    <3>1. fills[n + 1] = fills[n]
      BY <2>3, <2>5 DEF AddSack
    <3>. QED
      BY <2>4, <2>5, <3>1
  <2>6. CASE fills[n].numbers # <<>>
    <3>1. /\ Sacked(S, numbers, capacity,
                    AddSack(fills[n], capacity).sacks, AddSack(fills[n], capacity).numbers)
          /\ Len(AddSack(fills[n], capacity).numbers) < Len(fills[n].numbers)
      BY <2>4, <2>6, SackAdded
    <3>. DEFINE x == Len(fills[n + 1].numbers)
                y == Len(fills[n].numbers)
    <3>2. x < y /\ y <= m - n /\ x \in Nat /\ y \in Nat
      <4>1. fills[n + 1].numbers \in Seq(S) /\ fills[n].numbers \in Seq(S)
        BY <2>3, <2>4, <3>1 DEF Sacked
      <4>. QED
        BY <2>3, <2>4, <2>6, <3>1, <4>1, LenProperties
    <3>3. x <= m - (n + 1)
      <4>. HIDE DEF x, y, m
      <4>. QED
        BY <1>0, <3>2
    <3>. QED
      BY <2>3, <3>1, <3>3
  <2>. QED
    BY <2>5, <2>6
<1>6. \A n \in Nat : n \in G
  <2>. HIDE DEF G
  <2>. QED
    BY <1>4, <1>5, Counting
<1>7. State(m)
  BY <1>0, <1>6
<1>. DEFINE sacks == fills[m].sacks
            left == fills[m].numbers
<1>8. Sacked(S, numbers, capacity, sacks, left)
  BY <1>7
<1>9. left = <<>>
  <2>1. CASE Len(left) <= m - m
    <3>1. left \in Seq(S)
      BY <1>8 DEF Sacked
    <3>2. Len(left) = 0
      BY <1>0, <2>1, <3>1, LenProperties
    <3>. QED
      BY <3>1, <3>2, EmptySeq
  <2>. QED
    BY <1>7, <2>1
<1>. HIDE DEF sacks, left
<1>10. /\ sacks \in Seq(Seq(S)) /\ Shares(FlattenSeq(sacks), <<>>, numbers)
       /\ \A r \in 1..Len(sacks) :
             Sum(sacks[r]) \in Int /\ Sum(sacks[r]) <= capacity /\ Len(sacks[r]) \in Nat \ {0}
       /\ \A r, q \in 1..Len(sacks) : r < q => Closed(sacks[r], capacity, sacks[q])
  BY <1>8, <1>9 DEF Sacked
<1>11. ASSUME NEW r \in 1..Len(sacks)
       PROVE  /\ sacks[r][1] <= Sum(sacks[r]) /\ sacks[r][1] \in Nat /\ Sum(sacks[r]) \in Nat
              /\ 1 \in 1..Len(sacks[r])
  <2>1. sacks[r] \in Seq(S) /\ Len(sacks[r]) \in Nat \ {0}
    BY <1>10, ElementOfSeq
  <2>2. sacks[r] \in Seq(Nat) /\ Len(sacks[r]) # 0
    BY <1>0, <2>1, WiderSeq
  <2>. QED
    BY <2>1, <2>2, SumHasFirst
<1>12. ASSUME NEW r \in 1..Len(sacks), NEW q \in 1..Len(sacks), r < q
       PROVE  Sum(sacks[r]) + Sum(sacks[q]) > capacity
  <2>1. Closed(sacks[r], capacity, sacks[q]) /\ 1 \in 1..Len(sacks[q])
    BY <1>10, <1>11, <1>12
  <2>2. Sum(sacks[r]) + sacks[q][1] > capacity
    BY <2>1 DEF Closed
  <2>3. sacks[q][1] <= Sum(sacks[q]) /\ sacks[q][1] \in Nat /\ Sum(sacks[q]) \in Nat
        /\ Sum(sacks[r]) \in Nat
    BY <1>11
  <2>. QED
    BY <2>2, <2>3
<1>13. ASSUME NEW r \in 1..Len(sacks), NEW q \in 1..Len(sacks), r # q
       PROVE  Sum(sacks[r]) + Sum(sacks[q]) > capacity
  <2>1. Sum(sacks[r]) \in Nat /\ Sum(sacks[q]) \in Nat
    BY <1>11
  <2>2. Len(sacks) \in Nat
    BY <1>10, LenProperties
  <2>3. CASE r < q
    BY <1>12, <2>3
  <2>4. CASE q < r
    <3>1. Sum(sacks[q]) + Sum(sacks[r]) > capacity
      BY <1>12, <2>4
    <3>. QED
      BY <2>1, <3>1
  <2>. QED
    BY <1>13, <2>2, <2>3, <2>4
<1>14. SacksOf(S, numbers, capacity, sacks)
  BY <1>10, <1>11, <1>13 DEF SacksOf
<1>. QED
  BY <1>1, <1>14 DEF sacks

\* Knapsacks of numbers that fit in one.
LEMMA KnapsacksAre ==
    ASSUME NEW capacity \in Nat, NEW ls \in Seq(1..capacity)
    PROVE  SacksOf(1..capacity, ls, capacity, GreedyKnapsack(ls, capacity))
<1>. DEFINE S == 1..capacity
            T == ToSet(ls)
            less == {xy \in T \X T : xy[1] < xy[2]}
            s == SortedBy(ls, less)
<1>1. GreedyKnapsack(ls, capacity) = FillAll(s, capacity)
  BY DEF GreedyKnapsack, Sort
<1>2. S \subseteq Int /\ T \subseteq S /\ ls \in Seq(T) /\ ls \in Seq(Int)
  <2>1. S \subseteq Int
    OBVIOUS
  <2>2. T \subseteq S /\ ls \in Seq(T)
    BY ElementsType
  <2>3. ls \in Seq(S)
    OBVIOUS
  <2>. HIDE DEF S
  <2>4. ls \in Seq(Int)
    BY <2>1, <2>3, WiderSeq
  <2>. QED
    BY <2>1, <2>2, <2>4
<1>. HIDE DEF T
<1>3. \A x, y \in T : <<x, y>> \in less <=> x < y
  OBVIOUS
<1>4. WeakOrder(less, T)
  <2>1. \A x \in T : x \in Int
    BY <1>2
  <2>. HIDE DEF less
  <2>. QED
    BY <1>3, <2>1 DEF WeakOrder
<1>. HIDE DEF less
<1>5. s \in Seq(T) /\ Ascends(s, less)
  BY <1>2, <1>4, SortedType, SortedAscends
<1>6. s \in Seq(S) /\ s \in Seq(Int)
  <2>1. T \subseteq S /\ T \subseteq Int
    BY <1>2
  <2>. HIDE DEF S, s
  <2>. QED
    BY <1>5, <2>1, WiderSeq
<1>7. Len(s) = Len(ls)
  <2>1. Rearranged(ls, s)
    BY <1>2, SortedRearranges
  <2>. QED
    BY <2>1 DEF Rearranged
<1>8. \A g \in Tally : Tallied(g, s) = Tallied(g, ls)
  BY <1>2, SortedSum DEF Tally, Tallied
<1>. HIDE DEF s
<1>9. Rising(s)
  <2>1. SUFFICES ASSUME NEW i \in 1..Len(s), NEW j \in 1..Len(s), i < j PROVE s[i] <= s[j]
    BY DEF Rising
  <2>2. <<s[j], s[i]>> \notin less
    BY <1>5, <2>1 DEF Ascends
  <2>3. s[i] \in T /\ s[j] \in T
    BY <1>5, ElementOfSeq
  <2>4. ~(s[j] < s[i]) /\ s[i] \in Int /\ s[j] \in Int
    BY <1>2, <1>3, <2>2, <2>3
  <2>. QED
    BY <2>4
<1>10. SacksOf(S, s, capacity, FillAll(s, capacity))
  <2>1. S \subseteq 1..capacity
    OBVIOUS
  <2>. HIDE DEF S
  <2>. QED
    BY <1>6, <1>9, <2>1, SacksAre
<1>. DEFINE sacks == FillAll(s, capacity)
<1>11. Shares(FlattenSeq(sacks), <<>>, s)
  BY <1>10 DEF SacksOf
<1>12. Shares(FlattenSeq(sacks), <<>>, ls)
  BY <1>7, <1>8, <1>11 DEF Shares
<1>13. SacksOf(S, ls, capacity, sacks)
  BY <1>10, <1>12 DEF SacksOf
<1>. QED
  BY <1>1, <1>13

\* Where a number stands in a sequence.
Occurs(s, x) == {i \in 1..Len(s) : s[i] = x}
Indicator(x) == [y \in Int |-> IF y = x THEN 1 ELSE 0]

\* How often it does.
Often(s, x) == IsFiniteSet(Occurs(s, x)) /\ Cardinality(Occurs(s, x)) = Tallied(Indicator(x), s)

\* That is a tally.
LEMMA TalliedOnes ==
    ASSUME NEW s \in Seq(Int), NEW x \in Int
    PROVE  Often(s, x)
<1>. DEFINE G == {q \in Seq(Int) : Often(q, x)}
<1>0. Indicator(x) \in Tally /\ \A y \in Int : Indicator(x)[y] = IF y = x THEN 1 ELSE 0
  BY DEF Indicator, Tally
<1>1. <<>> \in G
  <2>1. Occurs(<<>>, x) = {} /\ <<>> \in Seq(Int)
    BY EmptySeq DEF Occurs
  <2>2. Tallied(Indicator(x), <<>>) = 0
    BY <1>0, <2>1, TalliedParts
  <2>. QED
    BY <2>1, <2>2, FS_EmptySet DEF Often
<1>2. ASSUME NEW q \in Seq(Int), NEW e \in Int, q \in G PROVE Append(q, e) \in G
  <2>. DEFINE r == Append(q, e)
              n == Len(q)
              A == Occurs(q, x)
              B == Occurs(r, x)
  <2>1. /\ r \in Seq(Int) /\ Len(r) = n + 1 /\ r[n + 1] = e /\ n \in Nat
        /\ \A i \in 1..n : r[i] = q[i]
    BY AppendProperties, LenProperties
  <2>2. Tallied(Indicator(x), r) = Tallied(Indicator(x), q) + Indicator(x)[e] /\ Tallied(Indicator(x), q) \in Int
    BY <1>0, TalliedParts
  <2>3. IsFiniteSet(A) /\ Cardinality(A) = Tallied(Indicator(x), q)
    BY <1>2 DEF Often
  <2>. HIDE DEF r
  <2>4. CASE e = x
    <3>1. B = A \cup {n + 1}
      BY <2>1, <2>4 DEF Occurs
    <3>2. n + 1 \notin A
      BY <2>1 DEF Occurs
    <3>. HIDE DEF A, B
    <3>3. IsFiniteSet(B) /\ Cardinality(B) = Cardinality(A) + 1
      BY <2>3, <3>1, <3>2, FS_AddElement
    <3>4. Often(r, x)
      BY <1>0, <2>2, <2>3, <2>4, <3>3 DEF Often, B
    <3>. QED
      BY <2>1, <3>4 DEF r
  <2>5. CASE e # x
    <3>0. \A i \in 1..(n + 1) : i \in 1..n \/ i = n + 1
      BY <2>1
    <3>1. B = A
      <4>1. ASSUME NEW i \in B PROVE i \in A
        <5>1. i \in 1..(n + 1) /\ r[i] = x
          BY <2>1 DEF Occurs
        <5>2. i # n + 1
          BY <2>1, <2>5, <5>1
        <5>. QED
          BY <2>1, <3>0, <5>1, <5>2 DEF Occurs
      <4>2. ASSUME NEW i \in A PROVE i \in B
        <5>1. i \in 1..n /\ q[i] = x /\ i \in 1..(n + 1)
          BY <2>1 DEF Occurs
        <5>. QED
          BY <2>1, <5>1 DEF Occurs
      <4>. HIDE DEF A, B
      <4>. QED
        BY <4>1, <4>2
    <3>2. Tallied(Indicator(x), r) = Tallied(Indicator(x), q)
      BY <1>0, <2>2, <2>5
    <3>3. Often(r, x)
      BY <2>3, <3>1, <3>2 DEF Often
    <3>. QED
      BY <2>1, <3>3 DEF r
  <2>. QED
    BY <2>4, <2>5
<1>3. \A q \in Seq(Int) : q \in G
  <2>. HIDE DEF G
  <2>. QED
    BY <1>1, <1>2, Appending
<1>. QED
  BY <1>3

\* s and t hold the same numbers, each as often.
SameNumbers(s, t) ==
    /\ Len(s) = Len(t)
    /\ \A x \in Int : /\ IsFiniteSet(Occurs(s, x)) /\ IsFiniteSet(Occurs(t, x))
                      /\ Cardinality(Occurs(s, x)) = Cardinality(Occurs(t, x))

\* As the flattened sacks do.
LEMMA SharesAll ==
    ASSUME NEW s \in Seq(Int), NEW t \in Seq(Int), Shares(s, <<>>, t)
    PROVE  SameNumbers(s, t)
<1>1. Len(s) = Len(t)
  <2>1. Len(s) + 0 = Len(t) /\ Len(s) \in Nat
    BY EmptySeq, LenProperties DEF Shares
  <2>. QED
    BY <2>1
<1>2. ASSUME NEW x \in Int
      PROVE  /\ IsFiniteSet(Occurs(s, x)) /\ IsFiniteSet(Occurs(t, x))
             /\ Cardinality(Occurs(s, x)) = Cardinality(Occurs(t, x))
  <2>1. Often(s, x) /\ Often(t, x)
    BY TalliedOnes
  <2>2. Indicator(x) \in Tally
    BY DEF Indicator, Tally
  <2>3. Tallied(Indicator(x), s) + Tallied(Indicator(x), <<>>) = Tallied(Indicator(x), t)
    BY <2>2 DEF Shares
  <2>4. Tallied(Indicator(x), <<>>) = 0 /\ Tallied(Indicator(x), s) \in Int
    BY <2>2, TalliedParts
  <2>. QED
    BY <2>1, <2>3, <2>4 DEF Often
<1>. QED
  BY <1>1, <1>2 DEF SameNumbers

\* A set of numbers up to n has a greatest one.
LEMMA MaxIsGreatest ==
    ASSUME NEW n \in Nat, NEW T, T \subseteq 1..n, T # {}
    PROVE  Max(T) \in T /\ \A y \in T : y <= Max(T)
<1>. DEFINE U == {k \in Nat : n - k \in T}
<1>1. U \subseteq Nat /\ U # {}
  <2>1. PICK y \in T : TRUE
    OBVIOUS
  <2>2. n - y \in Nat /\ n - (n - y) = y
    BY <2>1
  <2>3. n - y \in U
    BY <2>1, <2>2
  <2>. QED
    BY <2>3
<1>2. PICK k \in U : \A l \in U : k <= l
  <2>. HIDE DEF U
  <2>. QED
    BY <1>1, Least
<1>3. n - k \in T /\ k \in Nat
  OBVIOUS
<1>4. ASSUME NEW y \in T PROVE n - k >= y
  <2>1. n - y \in Nat /\ n - (n - y) = y /\ y \in Nat
    OBVIOUS
  <2>2. n - y \in U
    BY <2>1
  <2>3. k <= n - y
    BY <1>2, <2>2
  <2>. QED
    BY <1>3, <2>1, <2>3
<1>5. Max(T) \in T /\ \A y \in T : Max(T) >= y
  BY <1>3, <1>4 DEF Max
<1>6. \A y \in T : y \in Int
  OBVIOUS
<1>. QED
  BY <1>5, <1>6

\* Examples that stand for the first numbers of list.
Stands(lengths, list, p, k) ==
    /\ p \in Seq(1..Len(lengths)) /\ Len(p) = k /\ Distinct(p)
    /\ \A i \in 1..k : lengths[p[i]] = list[i]

\* An example of the next length is left.
LEMMA OneIsLeft ==
    ASSUME NEW lengths \in Seq(Int), NEW list \in Seq(Int), SameNumbers(list, lengths),
           NEW k \in Nat, k + 1 <= Len(list), NEW p, Stands(lengths, list, p, k)
    PROVE  \E j \in 1..Len(lengths) : lengths[j] = list[k + 1] /\ j \notin ToSet(p)
<1>. DEFINE x == list[k + 1]
            A == Occurs(lengths, x)
            C == Occurs(list, x)
            B == {i \in 1..k : list[i] = x}
            D == C \ {k + 1}
            f == [j \in A |-> CHOOSE i \in B : p[i] = j]
<1>0. Len(list) \in Nat /\ k + 1 \in 1..Len(list) /\ x \in Int
  <2>1. Len(list) \in Nat
    BY LenProperties
  <2>2. k + 1 \in 1..Len(list)
    BY <2>1
  <2>. QED
    BY <2>1, <2>2, ElementOfSeq
<1>1. IsFiniteSet(A) /\ IsFiniteSet(C) /\ Cardinality(C) = Cardinality(A)
  BY <1>0 DEF SameNumbers
<1>2. k + 1 \in C
  BY <1>0 DEF Occurs
<1>3. B \subseteq D
  <2>1. ASSUME NEW i \in B PROVE i \in D
    <3>1. i \in 1..k /\ list[i] = x /\ i \in 1..Len(list) /\ i # k + 1
      BY <1>0
    <3>. QED
      BY <3>1 DEF Occurs
  <2>. HIDE DEF B, D
  <2>. QED
    BY <2>1
<1>4. IsFiniteSet(D) /\ Cardinality(D) = Cardinality(C) - 1 /\ Cardinality(C) \in Nat
  <2>. HIDE DEF C
  <2>. QED
    BY <1>1, <1>2, FS_RemoveElement, FS_CardinalityType
<1>. HIDE DEF A, C
<1>5. IsFiniteSet(B) /\ Cardinality(B) < Cardinality(A)
  <2>. HIDE DEF B, D
  <2>1. IsFiniteSet(B) /\ Cardinality(B) <= Cardinality(D)
    BY <1>3, <1>4, FS_Subset
  <2>2. Cardinality(B) \in Nat
    BY <2>1, FS_CardinalityType
  <2>. QED
    BY <1>1, <1>4, <2>1, <2>2
<1>6. SUFFICES ASSUME \A j \in 1..Len(lengths) : lengths[j] = x => j \in ToSet(p) PROVE FALSE
  OBVIOUS
<1>7. /\ p \in Seq(1..Len(lengths)) /\ Len(p) = k /\ DOMAIN p = 1..k
      /\ \A i \in 1..k : lengths[p[i]] = list[i]
  BY LenProperties DEF Stands
<1>8. ASSUME NEW j \in A PROVE \E i \in B : p[i] = j
  <2>1. j \in 1..Len(lengths) /\ lengths[j] = x
    BY DEF A, Occurs
  <2>2. j \in ToSet(p)
    BY <1>6, <2>1
  <2>3. PICK i \in 1..k : p[i] = j
    BY <1>7, <2>2 DEF ToSet
  <2>4. list[i] = x
    BY <1>7, <2>1, <2>3
  <2>. QED
    BY <2>3, <2>4
<1>. HIDE DEF B, x
<1>9. f \in [A -> B] /\ \A j \in A : p[f[j]] = j
  BY <1>8
<1>. HIDE DEF f
<1>10. \E y, z \in A : y # z /\ f[y] = f[z]
  BY <1>1, <1>5, <1>9, FS_PigeonHole
<1>. QED
  BY <1>9, <1>10

\* One more example is popped.
LEMMA PopStands ==
    ASSUME NEW lengths \in Seq(Int), NEW list \in Seq(Int), SameNumbers(list, lengths),
           NEW k \in Nat, k + 1 <= Len(list), NEW p, Stands(lengths, list, p, k)
    PROVE  Stands(lengths, list, Pop(p, list[k + 1], lengths), k + 1)
<1>. DEFINE n == Len(lengths)
            x == list[k + 1]
            T == {j \in DOMAIN lengths : lengths[j] = x /\ j \notin ToSet(p)}
            e == Max(T)
            q == Append(p, e)
<1>0. n \in Nat /\ DOMAIN lengths = 1..n
  BY LenProperties
<1>1. T \subseteq 1..n /\ T # {}
  BY <1>0, OneIsLeft
<1>2. e \in T
  <2>. HIDE DEF T, n
  <2>. QED
    BY <1>0, <1>1, MaxIsGreatest
<1>3. Pop(p, x, lengths) = q
  BY DEF Pop
<1>4. e \in 1..n /\ lengths[e] = x /\ e \notin ToSet(p)
  BY <1>0, <1>2
<1>. HIDE DEF e, T
<1>5. /\ p \in Seq(1..n) /\ Len(p) = k /\ Distinct(p)
      /\ \A i \in 1..k : lengths[p[i]] = list[i]
      /\ DOMAIN p = 1..k
  BY LenProperties DEF Stands
<1>6. /\ q \in Seq(1..n) /\ Len(q) = k + 1 /\ q[k + 1] = e
      /\ \A i \in 1..k : q[i] = p[i]
  <2>. HIDE DEF n
  <2>1. /\ q \in Seq(1..n) /\ Len(q) = Len(p) + 1 /\ q[Len(p) + 1] = e
        /\ \A i \in 1..Len(p) : q[i] = p[i]
    BY <1>4, <1>5, AppendProperties
  <2>. QED
    BY <1>5, <2>1
<1>. HIDE DEF q
<1>6a. \A i \in 1..(k + 1) : i \in 1..k \/ i = k + 1
  OBVIOUS
<1>7. \A i \in 1..(k + 1) : lengths[q[i]] = list[i]
  BY <1>4, <1>5, <1>6, <1>6a
<1>8. \A i \in 1..k : q[i] # e
  BY <1>4, <1>5, <1>6 DEF ToSet
<1>9. ASSUME NEW i \in 1..(k + 1), NEW j \in 1..(k + 1), q[i] = q[j] PROVE i = j
  <2>1. CASE i \in 1..k /\ j \in 1..k
    BY <1>5, <1>6, <1>9, <2>1 DEF Distinct
  <2>2. CASE i = k + 1 \/ j = k + 1
    BY <1>6, <1>6a, <1>8, <1>9, <2>2
  <2>. QED
    BY <1>6a, <2>1, <2>2
<1>10. Distinct(q)
  BY <1>6, <1>9 DEF Distinct
<1>. QED
  BY <1>3, <1>6, <1>7, <1>10 DEF Stands

\* Popped examples, one by one.
Pops(lengths, list, m, popped) ==
    popped = [k \in 0..m |-> IF k = 0 THEN <<>> ELSE Pop(popped[k - 1], list[k], lengths)]

\* They can be popped so.
LEMMA PopsExist ==
    ASSUME NEW lengths, NEW list, NEW m \in Nat
    PROVE  \E popped : Pops(lengths, list, m, popped)
<1>. DEFINE G == {k \in Nat : \E popped : Pops(lengths, list, k, popped)}
<1>1. 0 \in G
  <2>1. Pops(lengths, list, 0, [n \in 0..0 |-> <<>>])
    BY DEF Pops
  <2>. QED
    BY <2>1
<1>2. ASSUME NEW k \in Nat, k \in G PROVE k + 1 \in G
  <2>1. PICK f : Pops(lengths, list, k, f)
    BY <1>2
  <2>. DEFINE next == Pop(f[k], list[k + 1], lengths)
              g == [n \in 0..(k + 1) |-> IF n < k + 1 THEN f[n] ELSE next]
  <2>2. f = [n \in 0..k |-> IF n = 0 THEN <<>> ELSE Pop(f[n - 1], list[n], lengths)]
    BY <2>1 DEF Pops
  <2>3. ASSUME NEW n \in 0..(k + 1)
        PROVE  g[n] = IF n = 0 THEN <<>> ELSE Pop(g[n - 1], list[n], lengths)
    <3>1. CASE n = 0
      BY <2>2, <3>1
    <3>2. CASE n \in 1..k
      <4>1. g[n] = f[n] /\ g[n - 1] = f[n - 1] /\ n # 0 /\ n \in 0..k
        BY <3>2
      <4>. QED
        BY <2>2, <4>1
    <3>3. CASE n = k + 1
      <4>1. g[n] = next /\ g[n - 1] = f[k] /\ n # 0
        BY <3>3
      <4>. QED
        BY <3>3, <4>1
    <3>. QED
      BY <3>1, <3>2, <3>3
  <2>4. g = [n \in 0..(k + 1) |-> g[n]]
    OBVIOUS
  <2>. HIDE DEF g
  <2>5. g = [n \in 0..(k + 1) |-> IF n = 0 THEN <<>> ELSE Pop(g[n - 1], list[n], lengths)]
    BY <2>3, <2>4
  <2>6. Pops(lengths, list, k + 1, g)
    BY <2>5 DEF Pops
  <2>. QED
    BY <2>6
<1>3. \A k \in Nat : k \in G
  <2>. HIDE DEF G
  <2>. QED
    BY <1>1, <1>2, Counting
<1>. QED
  BY <1>3

\* Indexes is the last of them.
LEMMA IndexesUnfold ==
    ASSUME NEW lengths, NEW list \in Seq(Int)
    PROVE  \E popped : Pops(lengths, list, Len(list), popped)
                       /\ Indexes(lengths, list) = popped[Len(list)]
<1>1. \E popped : Pops(lengths, list, Len(list), popped)
  BY PopsExist, LenProperties
<1>2. Pops(lengths, list, Len(list), CHOOSE popped : Pops(lengths, list, Len(list), popped))
  BY <1>1
<1>3. Indexes(lengths, list)
          = (CHOOSE popped : Pops(lengths, list, Len(list), popped))[Len(list)]
  BY DEF Indexes, Pops
<1>. QED
  BY <1>2, <1>3

\* Each length stands for an example of this length, and every example has one.
LEMMA IndexesAre ==
    ASSUME NEW lengths \in Seq(Int), NEW list \in Seq(Int), SameNumbers(list, lengths)
    PROVE  /\ Stands(lengths, list, Indexes(lengths, list), Len(list))
           /\ ToSet(Indexes(lengths, list)) = 1..Len(lengths)
<1>. DEFINE m == Len(list)
            n == Len(lengths)
<1>0. m \in Nat /\ n = m
  BY LenProperties DEF SameNumbers
<1>1. PICK popped : Pops(lengths, list, m, popped) /\ Indexes(lengths, list) = popped[m]
  BY IndexesUnfold
<1>2. /\ popped[0] = <<>>
      /\ \A k \in 1..m : popped[k] = Pop(popped[k - 1], list[k], lengths)
  <2>1. popped = [k \in 0..m |-> IF k = 0 THEN <<>> ELSE Pop(popped[k - 1], list[k], lengths)]
    BY <1>1 DEF Pops
  <2>2. 0 \in 0..m /\ \A k \in 1..m : k \in 0..m /\ k # 0
    BY <1>0
  <2>. HIDE DEF m
  <2>. QED
    BY <2>1, <2>2
<1>. DEFINE G == {k \in Nat : k <= m => Stands(lengths, list, popped[k], k)}
<1>3. 0 \in G
  <2>1. Stands(lengths, list, <<>>, 0)
    <3>1. <<>> \in Seq(1..n) /\ Len(<<>>) = 0
      BY EmptySeq
    <3>. QED
      BY <3>1 DEF Stands, Distinct
  <2>. QED
    BY <1>2, <2>1
<1>4. ASSUME NEW k \in Nat, k \in G PROVE k + 1 \in G
  <2>1. SUFFICES ASSUME k + 1 <= m PROVE Stands(lengths, list, popped[k + 1], k + 1)
    OBVIOUS
  <2>2. k <= m /\ k + 1 \in 1..m /\ (k + 1) - 1 = k
    BY <1>0, <2>1
  <2>3. popped[k + 1] = Pop(popped[k], list[k + 1], lengths)
    BY <1>2, <2>2
  <2>4. Stands(lengths, list, popped[k], k)
    BY <1>4, <2>2
  <2>. QED
    BY <2>1, <2>3, <2>4, PopStands
<1>5. \A k \in Nat : k \in G
  <2>. HIDE DEF G
  <2>. QED
    BY <1>3, <1>4, Counting
<1>. DEFINE p == popped[m]
<1>6. Stands(lengths, list, p, m)
  BY <1>0, <1>5
<1>. HIDE DEF p
<1>7. p \in Seq(1..n) /\ Len(p) = m /\ Distinct(p)
  BY <1>6 DEF Stands
<1>8. ToSet(p) = 1..n
  <2>1. Cardinality(ToSet(p)) = m
    BY <1>7, DistinctSize
  <2>2. ToSet(p) \subseteq 1..n
    BY <1>7, ElementsType
  <2>3. IsFiniteSet(1..n) /\ Cardinality(1..n) = n
    <3>1. n \in Nat
      BY <1>0
    <3>. HIDE DEF n
    <3>2. 1 \in Int /\ n \in Int
      BY <3>1
    <3>3. IsFiniteSet(1..n) /\ Cardinality(1..n) = IF 1 > n THEN 0 ELSE n - 1 + 1
      BY <3>2, FS_Interval
    <3>. QED
      BY <3>1, <3>3
  <2>. HIDE DEF n, m
  <2>. QED
    BY <1>0, <2>1, <2>2, <2>3, FS_Subset
<1>. QED
  BY <1>1, <1>6, <1>8 DEF p

\* How long the examples of a sack are.
SizesOf(lengths, sack) == [i \in 1..Len(sack) |-> lengths[sack[i]]]

\* A sack of different examples that fit in a row.
FittingSack(lengths, capacity, sack) ==
    /\ sack \in Seq(1..Len(lengths)) /\ Distinct(sack)
    /\ Sum(SizesOf(lengths, sack)) \in Nat /\ Sum(SizesOf(lengths, sack)) <= capacity

\* Every example is in one sack, and no two sacks would fit in one row.
SortedOut(lengths, capacity, ex) ==
    /\ Len(ex) \in Nat /\ DOMAIN ex = 1..Len(ex)
    /\ \A s \in 1..Len(ex) : FittingSack(lengths, capacity, ex[s])
    /\ \A s, r \in 1..Len(ex) : s # r =>
          /\ ToSet(ex[s]) \cap ToSet(ex[r]) = {}
          /\ Sum(SizesOf(lengths, ex[s])) + Sum(SizesOf(lengths, ex[r])) > capacity
    /\ \A j \in 1..Len(lengths) : \E s \in 1..Len(ex) : j \in ToSet(ex[s])

\* The examples of the s-th sack are those of the flattened sacks behind off[s - 1].
Piece(idx, off, ls, s, t, S) ==
    /\ t \in Seq(S) /\ Len(t) = ls[s] /\ DOMAIN t = 1..ls[s]
    /\ \A i \in 1..ls[s] : t[i] = idx[off[s - 1] + i] /\ off[s - 1] + i \in 1..Len(idx)

\* So are the pieces of a sequence that as many places long as the sacks are.
LEMMA PieceCut ==
    ASSUME NEW S, NEW idx \in Seq(S), NEW ls \in Seq(Nat), NEW off, StepsBy(ls, off),
           Len(idx) = off[Len(ls)], NEW s \in 1..Len(ls)
    PROVE  Piece(idx, off, ls, s, SubSeq(idx, off[s - 1] + 1, off[s]), S)
<1>0. /\ Len(ls) \in Nat /\ \A k \in 1..Len(ls) : ls[k] \in Nat
      /\ \A k \in 0..Len(ls) : off[k] \in Nat
      /\ \A k, l \in 0..Len(ls) : k <= l => off[k] <= off[l]
  BY StepsGrow
<1>1. off[s] = off[s - 1] + ls[s]
  BY DEF StepsBy
<1>2. s \in 0..Len(ls) /\ s - 1 \in 0..Len(ls) /\ Len(ls) \in 0..Len(ls) /\ s <= Len(ls)
  BY <1>0
<1>3. off[s] \in Nat /\ off[s - 1] \in Nat /\ ls[s] \in Nat /\ off[s] <= off[Len(ls)]
  BY <1>0, <1>2
<1>. DEFINE a == off[s - 1]
            d == off[s]
            e == ls[s]
            t == SubSeq(idx, a + 1, d)
<1>4. a \in Nat /\ e \in Nat /\ d = a + e /\ a + e <= Len(idx)
  BY <1>1, <1>3
<1>5. SubSeq(idx, a + 1, a + e) \in Seq(S) /\ IsSlice(SubSeq(idx, a + 1, a + e), idx, a, e)
  <2>. HIDE DEF a, d, e
  <2>. QED
    BY <1>4, SliceOf
<1>6. t \in Seq(S) /\ IsSlice(t, idx, a, e)
  <2>1. t = SubSeq(idx, a + 1, a + e)
    BY <1>4
  <2>. HIDE DEF t
  <2>. QED
    BY <1>5, <2>1
<1>7. Piece(idx, off, ls, s, t, S)
  <2>. HIDE DEF t
  <2>. QED
    BY <1>6 DEF IsSlice, Piece
<1>. QED
  BY <1>7

\* How long the sacks are.
SackSizes(sacks) == [r \in 1..Len(sacks) |-> Len(sacks[r])]
SackEnd(sacks, s) == Len(FlattenSeq(SubSeq(sacks, 1, s)))

\* Examples cuts the popped examples so.
LEMMA ExamplesCut ==
    ASSUME NEW S, NEW sacks \in Seq(Seq(S)), NEW lengths, NEW off,
           StepsBy(SackSizes(sacks), off),
           NEW idx \in Seq(1..Len(lengths)), idx = Indexes(lengths, FlattenSeq(sacks)),
           Len(idx) = off[Len(sacks)]
    PROVE  /\ Len(Examples(lengths, sacks)) = Len(sacks)
           /\ DOMAIN Examples(lengths, sacks) = 1..Len(sacks)
           /\ \A s \in 1..Len(sacks) :
                 Piece(idx, off, SackSizes(sacks), s, Examples(lengths, sacks)[s],
                       1..Len(lengths))
<1>. DEFINE ls == SackSizes(sacks)
            m == Len(sacks)
            ex == Examples(lengths, sacks)
<1>0. m \in Nat /\ DOMAIN sacks = 1..m /\ \A r \in 1..m : sacks[r] \in Seq(S)
  BY LenProperties, ElementOfSeq
<1>1. ls \in Seq(Nat) /\ Len(ls) = m /\ LengthsOf(sacks, ls)
  <2>1. \A r \in 1..m : Len(sacks[r]) \in Nat
    BY <1>0, LenProperties
  <2>2. ls = [r \in 1..m |-> Len(sacks[r])]
    BY DEF SackSizes
  <2>. HIDE DEF ls, m
  <2>3. ls \in [1..m -> Nat]
    BY <2>1, <2>2
  <2>4. ls \in Seq(Nat) /\ Len(ls) = m
    BY <1>0, <2>3
  <2>5. \A r \in 1..m : Len(sacks[r]) = ls[r]
    BY <2>2
  <2>6. Len(sacks) = m
    BY DEF m
  <2>. QED
    BY <2>4, <2>5, <2>6 DEF LengthsOf
<1>2. \A k \in 0..m : SackEnd(sacks, k) = off[k]
  <2>. HIDE DEF ls
  <2>1. StepsBy(ls, off)
    BY DEF ls
  <2>2. \A k \in 0..Len(ls) : Len(FlattenSeq(SubSeq(sacks, 1, k))) = off[k]
    BY <1>1, <2>1, FlatLaid
  <2>. QED
    BY <1>1, <2>2 DEF SackEnd
<1>3. ex = [s \in 1..m |-> SubSeq(idx, SackEnd(sacks, s - 1) + 1, SackEnd(sacks, s))]
  BY <1>0 DEF Examples, SackEnd
<1>4. ASSUME NEW s \in 1..m PROVE Piece(idx, off, ls, s, ex[s], 1..Len(lengths))
  <2>1. s \in 0..m /\ s - 1 \in 0..m
    BY <1>0
  <2>2. ex[s] = SubSeq(idx, off[s - 1] + 1, off[s])
    <3>1. ex[s] = SubSeq(idx, SackEnd(sacks, s - 1) + 1, SackEnd(sacks, s))
      BY <1>3
    <3>2. SackEnd(sacks, s - 1) = off[s - 1] /\ SackEnd(sacks, s) = off[s]
      BY <1>2, <2>1
    <3>. HIDE DEF ex
    <3>. QED
      BY <3>1, <3>2
  <2>3. Piece(idx, off, ls, s, SubSeq(idx, off[s - 1] + 1, off[s]), 1..Len(lengths))
    <3>1. StepsBy(ls, off) /\ Len(idx) = off[Len(ls)] /\ s \in 1..Len(ls) /\ ls \in Seq(Nat)
      BY <1>1
    <3>. HIDE DEF ls
    <3>. QED
      BY <3>1, PieceCut
  <2>. HIDE DEF ex, ls
  <2>. QED
    BY <2>2, <2>3
<1>5. DOMAIN ex = 1..m /\ Len(ex) = m
  <2>1. DOMAIN ex = 1..m
    BY <1>3
  <2>2. Len(ex) = m
    <3>. HIDE DEF m
    <3>. QED
      BY <1>0, <1>3
  <2>. QED
    BY <2>1, <2>2
<1>. QED
  BY <1>4, <1>5

\* The examples whose lengths the sacks hold.
StandFor(lengths, sacks, idx, off) ==
    /\ idx \in Seq(1..Len(lengths)) /\ Distinct(idx)
    /\ Len(idx) = off[Len(sacks)]
    /\ \A s \in 1..Len(sacks) : \A i \in 1..Len(sacks[s]) :
          lengths[idx[off[s - 1] + i]] = sacks[s][i]

\* A piece of them has the lengths of its sack.
LEMMA PieceSizes ==
    ASSUME NEW lengths, NEW sacks, NEW idx, NEW off, StandFor(lengths, sacks, idx, off),
           NEW s \in 1..Len(sacks), NEW t, Len(sacks) \in Nat,
           sacks[s] \in Seq(Int), off[s - 1] \in Nat,
           Piece(idx, off, SackSizes(sacks), s, t, 1..Len(lengths))
    PROVE  SizesOf(lengths, t) = sacks[s] /\ t \in Seq(1..Len(lengths)) /\ Distinct(t)
<1>. DEFINE ls == SackSizes(sacks)
            a == off[s - 1]
            e == ls[s]
            b == sacks[s]
<1>1. e = Len(b)
  BY DEF SackSizes
<1>2. Len(b) \in Nat /\ DOMAIN b = 1..Len(b) /\ b = [i \in 1..Len(b) |-> b[i]]
  BY LenProperties
<1>3. /\ t \in Seq(1..Len(lengths)) /\ Len(t) = e
      /\ \A i \in 1..e : t[i] = idx[a + i] /\ a + i \in 1..Len(idx)
  BY DEF Piece
<1>4. \A i \in 1..Len(b) : lengths[idx[a + i]] = b[i]
  BY DEF StandFor
<1>5. \A i, j \in 1..Len(idx) : idx[i] = idx[j] => i = j
  BY DEF StandFor, Distinct
<1>6. a \in Nat
  OBVIOUS
<1>. HIDE DEF ls, e, b, a
<1>7. \A i \in 1..Len(b) : lengths[t[i]] = b[i]
  BY <1>1, <1>3, <1>4
<1>8. SizesOf(lengths, t) = b
  BY <1>1, <1>2, <1>3, <1>7 DEF SizesOf
<1>9. ASSUME NEW i \in 1..Len(t), NEW j \in 1..Len(t), t[i] = t[j] PROVE i = j
  <2>1. i \in 1..e /\ j \in 1..e
    BY <1>3
  <2>2. a + i = a + j
    BY <1>3, <1>5, <1>9, <2>1
  <2>3. i \in Int /\ j \in Int
    OBVIOUS
  <2>. QED
    BY <1>6, <2>2, <2>3
<1>10. Distinct(t)
  BY <1>9 DEF Distinct
<1>. QED
  BY <1>3, <1>8, <1>10 DEF b

\* An example that is in the pieces of two sacks.
LEMMA PiecesApart ==
    ASSUME NEW lengths, NEW sacks, NEW idx, NEW off, NEW ls \in Seq(Nat), StepsBy(ls, off),
           Len(idx) = off[Len(ls)], Distinct(idx),
           NEW s \in 1..Len(ls), NEW r \in 1..Len(ls), s # r, NEW t, NEW u, NEW S,
           Piece(idx, off, ls, s, t, S), Piece(idx, off, ls, r, u, S)
    PROVE  ToSet(t) \cap ToSet(u) = {}
<1>1. SUFFICES ASSUME NEW x, x \in ToSet(t), x \in ToSet(u) PROVE FALSE
  OBVIOUS
<1>2. /\ DOMAIN t = 1..ls[s]
      /\ \A i \in 1..ls[s] : t[i] = idx[off[s - 1] + i] /\ off[s - 1] + i \in 1..Len(idx)
  BY DEF Piece
<1>3. /\ DOMAIN u = 1..ls[r]
      /\ \A i \in 1..ls[r] : u[i] = idx[off[r - 1] + i] /\ off[r - 1] + i \in 1..Len(idx)
  BY DEF Piece
<1>4. PICK i \in 1..ls[s] : x = t[i]
  BY <1>1, <1>2 DEF ToSet
<1>5. PICK j \in 1..ls[r] : x = u[j]
  BY <1>1, <1>3 DEF ToSet
<1>. DEFINE a == off[s - 1] + i
            b == off[r - 1] + j
<1>6. a \in 1..Len(idx) /\ b \in 1..Len(idx) /\ idx[a] = idx[b]
  BY <1>2, <1>3, <1>4, <1>5
<1>7. a = b
  <2>. HIDE DEF a, b
  <2>. QED
    BY <1>6 DEF Distinct
<1>8. off[s - 1] + i = off[r - 1] + j => s = r /\ i = j
  BY StepsApart
<1>. QED
  BY <1>7, <1>8

\* Every example is in one of them.
LEMMA PiecesCover ==
    ASSUME NEW idx, NEW off, NEW ls \in Seq(Nat), StepsBy(ls, off),
           Len(idx) = off[Len(ls)], NEW S, idx \in Seq(S), NEW j \in ToSet(idx),
           NEW ex, \A s \in 1..Len(ls) : Piece(idx, off, ls, s, ex[s], S)
    PROVE  \E s \in 1..Len(ls) : j \in ToSet(ex[s])
<1>1. DOMAIN idx = 1..Len(idx)
  BY LenProperties
<1>2. PICK p \in 1..Len(idx) : j = idx[p]
  BY <1>1 DEF ToSet
<1>3. p \in 1..off[Len(ls)]
  BY <1>2
<1>4. PICK s \in 1..Len(ls) : p - off[s - 1] \in 1..ls[s]
  BY <1>3, StepsCover
<1>5. off[s - 1] \in Nat
  <2>1. Len(ls) \in Nat /\ \A k \in 0..Len(ls) : off[k] \in Nat
    BY StepsGrow
  <2>2. s - 1 \in 0..Len(ls)
    BY <2>1
  <2>. QED
    BY <2>1, <2>2
<1>. DEFINE a == off[s - 1]
            i == p - a
<1>6. i \in 1..ls[s] /\ a + i = p
  <2>1. i \in 1..ls[s]
    BY <1>4
  <2>2. p \in Int /\ a \in Int
    BY <1>1, <1>5
  <2>. QED
    BY <2>1, <2>2
<1>7. DOMAIN ex[s] = 1..ls[s] /\ \A k \in 1..ls[s] : ex[s][k] = idx[a + k]
  BY DEF Piece
<1>8. ex[s][i] = j
  <2>. HIDE DEF i, a
  <2>. QED
    BY <1>2, <1>6, <1>7
<1>9. j \in ToSet(ex[s])
  <2>. HIDE DEF i, a
  <2>. QED
    BY <1>6, <1>7, <1>8 DEF ToSet
<1>. QED
  BY <1>9

\* So are the lengths of the examples that stand for the numbers of the flattened sacks.
LEMMA StandForSacks ==
    ASSUME NEW capacity \in Nat, NEW lengths \in Seq(1..capacity), NEW sacks,
           SacksOf(1..capacity, lengths, capacity, sacks),
           NEW off, StepsBy(SackSizes(sacks), off)
    PROVE  /\ StandFor(lengths, sacks, Indexes(lengths, FlattenSeq(sacks)), off)
           /\ ToSet(Indexes(lengths, FlattenSeq(sacks))) = 1..Len(lengths)
<1>. DEFINE S == 1..capacity
            ls == SackSizes(sacks)
            m == Len(sacks)
            flat == FlattenSeq(sacks)
            idx == Indexes(lengths, flat)
<1>1. sacks \in Seq(Seq(S)) /\ Shares(flat, <<>>, lengths)
  BY DEF SacksOf
<1>2. m \in Nat /\ \A r \in 1..m : sacks[r] \in Seq(S)
  BY <1>1, LenProperties, ElementOfSeq
<1>3. ls \in Seq(Nat) /\ Len(ls) = m /\ LengthsOf(sacks, ls) /\ \A r \in 1..m : ls[r] = Len(sacks[r])
  <2>1. \A r \in 1..m : Len(sacks[r]) \in Nat
    BY <1>2, LenProperties
  <2>2. ls = [r \in 1..m |-> Len(sacks[r])]
    BY DEF SackSizes
  <2>. HIDE DEF ls, m
  <2>3. ls \in [1..m -> Nat]
    BY <2>1, <2>2
  <2>4. ls \in Seq(Nat) /\ Len(ls) = m
    BY <1>2, <2>3
  <2>5. \A r \in 1..m : Len(sacks[r]) = ls[r]
    BY <2>2
  <2>6. Len(sacks) = m
    BY DEF m
  <2>. QED
    BY <2>4, <2>5, <2>6 DEF LengthsOf
<1>4. flat \in Seq(S) /\ Len(flat) = off[m] /\ Laid(sacks, flat, off)
  <2>1. StepsBy(ls, off)
    OBVIOUS
  <2>. HIDE DEF ls, S, m, flat
  <2>2. /\ FlattenSeq(sacks) \in Seq(S) /\ Len(FlattenSeq(sacks)) = off[Len(ls)]
        /\ Laid(sacks, FlattenSeq(sacks), off)
    BY <1>1, <1>3, <2>1, FlatLaid
  <2>. QED
    BY <1>3, <2>2 DEF flat
<1>5. flat \in Seq(Int) /\ lengths \in Seq(Int)
  <2>1. S \subseteq Int
    OBVIOUS
  <2>. HIDE DEF flat
  <2>. QED
    BY <1>4, <2>1, WiderSeq
<1>6. SameNumbers(flat, lengths)
  <2>. HIDE DEF flat
  <2>. QED
    BY <1>1, <1>5, SharesAll
<1>7. Stands(lengths, flat, idx, Len(flat)) /\ ToSet(idx) = 1..Len(lengths)
  <2>. HIDE DEF flat
  <2>. QED
    BY <1>5, <1>6, IndexesAre
<1>8. /\ idx \in Seq(1..Len(lengths)) /\ Len(idx) = off[m] /\ Distinct(idx)
      /\ \A i \in 1..off[m] : lengths[idx[i]] = flat[i]
  <2>. HIDE DEF idx, flat, m
  <2>. QED
    BY <1>4, <1>7 DEF Stands
<1>9. ASSUME NEW s \in 1..m, NEW i \in 1..Len(sacks[s])
      PROVE  lengths[idx[off[s - 1] + i]] = sacks[s][i]
  <2>1. flat[off[s - 1] + i] = sacks[s][i]
    BY <1>4 DEF Laid
  <2>2. i \in 1..ls[s] /\ s \in 1..Len(ls)
    BY <1>3
  <2>3. off[s - 1] + i \in 1..off[Len(ls)]
    <3>1. StepsBy(ls, off)
      OBVIOUS
    <3>. HIDE DEF ls
    <3>. QED
      BY <1>3, <2>2, <3>1, StepsApart
  <2>. DEFINE p == off[s - 1] + i
  <2>4. p \in 1..off[m]
    BY <1>3, <2>3
  <2>5. lengths[idx[p]] = flat[p]
    <3>. HIDE DEF p, idx, flat, m
    <3>. QED
      BY <1>8, <2>4
  <2>. QED
    BY <2>1, <2>5
<1>10. StandFor(lengths, sacks, idx, off)
  <2>. HIDE DEF idx
  <2>. QED
    BY <1>8, <1>9 DEF StandFor
<1>. QED
  BY <1>7, <1>10

\* Every example is in one sack; the sacks are what the knapsacks give.
LEMMA ExamplesSortedOut ==
    ASSUME NEW capacity \in Nat, NEW lengths \in Seq(1..capacity), NEW sacks,
           SacksOf(1..capacity, lengths, capacity, sacks)
    PROVE  SortedOut(lengths, capacity, Examples(lengths, sacks))
<1>. DEFINE S == 1..capacity
            ls == SackSizes(sacks)
            m == Len(sacks)
            N == 1..Len(lengths)
            idx == Indexes(lengths, FlattenSeq(sacks))
            ex == Examples(lengths, sacks)
<1>1. /\ sacks \in Seq(Seq(S))
      /\ \A r \in 1..m : Sum(sacks[r]) \in Nat /\ Sum(sacks[r]) <= capacity
      /\ \A r, q \in 1..m : r # q => Sum(sacks[r]) + Sum(sacks[q]) > capacity
  BY DEF SacksOf
<1>2. m \in Nat /\ \A r \in 1..m : sacks[r] \in Seq(S)
  BY <1>1, LenProperties, ElementOfSeq
<1>2a. \A r \in 1..m : sacks[r] \in Seq(Int)
  <2>1. S \subseteq Int
    OBVIOUS
  <2>. HIDE DEF S, m
  <2>. QED
    BY <1>2, <2>1, WiderSeq
<1>3. ls \in Seq(Nat) /\ Len(ls) = m
  <2>1. \A r \in 1..m : Len(sacks[r]) \in Nat
    BY <1>2, LenProperties
  <2>2. ls = [r \in 1..m |-> Len(sacks[r])]
    BY DEF SackSizes
  <2>. HIDE DEF ls, m
  <2>3. ls \in [1..m -> Nat]
    BY <2>1, <2>2
  <2>. QED
    BY <1>2, <2>3
<1>4. PICK off : StepsBy(ls, off)
  <2>. HIDE DEF ls
  <2>. QED
    BY <1>3, StepsExist
<1>5. StandFor(lengths, sacks, idx, off) /\ ToSet(idx) = N
  BY <1>4, StandForSacks
<1>6. idx \in Seq(N) /\ Len(idx) = off[m] /\ Distinct(idx)
  <2>. HIDE DEF idx
  <2>. QED
    BY <1>5 DEF StandFor
<1>7. Len(ex) = m /\ DOMAIN ex = 1..m /\ \A s \in 1..m : Piece(idx, off, ls, s, ex[s], N)
  <2>1. idx \in Seq(1..Len(lengths)) /\ idx = Indexes(lengths, FlattenSeq(sacks))
        /\ Len(idx) = off[Len(sacks)] /\ StepsBy(SackSizes(sacks), off)
    BY <1>4, <1>6
  <2>. HIDE DEF idx
  <2>. QED
    BY <1>1, <2>1, ExamplesCut
<1>. HIDE DEF idx, ex, ls, m
<1>8. ASSUME NEW s \in 1..m
      PROVE  SizesOf(lengths, ex[s]) = sacks[s] /\ ex[s] \in Seq(N) /\ Distinct(ex[s])
  <2>1. off[s - 1] \in Nat
    <3>1. \A k \in 0..Len(ls) : off[k] \in Nat
      BY <1>3, <1>4, StepsGrow
    <3>2. s - 1 \in 0..m
      BY <1>2
    <3>. QED
      BY <1>3, <3>1, <3>2
  <2>2. Piece(idx, off, SackSizes(sacks), s, ex[s], 1..Len(lengths)) /\ sacks[s] \in Seq(Int)
        /\ s \in 1..Len(sacks) /\ Len(sacks) \in Nat
    BY <1>2, <1>2a, <1>7 DEF ls, m
  <2>. QED
    BY <1>5, <2>1, <2>2, PieceSizes
<1>9. ASSUME NEW s \in 1..m PROVE FittingSack(lengths, capacity, ex[s])
  BY <1>1, <1>8, <1>9 DEF FittingSack
<1>10. ASSUME NEW s \in 1..m, NEW r \in 1..m, s # r
       PROVE  /\ ToSet(ex[s]) \cap ToSet(ex[r]) = {}
              /\ Sum(SizesOf(lengths, ex[s])) + Sum(SizesOf(lengths, ex[r])) > capacity
  <2>1. Piece(idx, off, ls, s, ex[s], N) /\ Piece(idx, off, ls, r, ex[r], N)
        /\ s \in 1..Len(ls) /\ r \in 1..Len(ls) /\ Len(idx) = off[Len(ls)]
    BY <1>3, <1>6, <1>7
  <2>2. ToSet(ex[s]) \cap ToSet(ex[r]) = {}
    <3>. HIDE DEF N
    <3>. QED
      BY <1>3, <1>4, <1>6, <1>10, <2>1, PiecesApart
  <2>. QED
    BY <1>1, <1>8, <1>10, <2>2
<1>11. ASSUME NEW j \in N PROVE \E s \in 1..m : j \in ToSet(ex[s])
  <2>1. Len(idx) = off[Len(ls)] /\ j \in ToSet(idx)
        /\ \A s \in 1..Len(ls) : Piece(idx, off, ls, s, ex[s], N)
    BY <1>3, <1>5, <1>6, <1>7
  <2>. HIDE DEF N
  <2>2. \E s \in 1..Len(ls) : j \in ToSet(ex[s])
    BY <1>3, <1>4, <1>6, <2>1, PiecesCover
  <2>. QED
    BY <1>3, <2>2
<1>12. SortedOut(lengths, capacity, ex)
  BY <1>2, <1>7, <1>9, <1>10, <1>11 DEF SortedOut
<1>. QED
  BY <1>12 DEF ex

\* The parts of a row, one after the other, and padding behind them.
PaddedTo(t, parts, off, n, pad, last) ==
    /\ Len(t) = n /\ DOMAIN t = 1..n /\ Laid(parts, t, off)
    /\ \A p \in 1..n : p > last => t[p] = pad

\* Flattened parts, padded.
LEMMA PartsPadded ==
    ASSUME NEW S, NEW parts \in Seq(Seq(S)), NEW ls \in Seq(Nat), NEW off,
           LengthsOf(parts, ls), StepsBy(ls, off), NEW last \in Nat, last = off[Len(ls)],
           NEW more \in Nat, NEW pad \in S
    PROVE  PaddedTo(FlattenSeq(parts) \o Times(more, pad), parts, off, last + more, pad, last)
<1>. DEFINE a == FlattenSeq(parts)
            b == Times(more, pad)
            t == a \o b
            n == last + more
<1>1. a \in Seq(S) /\ Len(a) = last /\ Laid(parts, a, off)
  BY FlatLaid
<1>2. b \in Seq(S) /\ Len(b) = more /\ \A i \in 1..more : b[i] = pad
  <2>1. b = [i \in 1..more |-> pad]
    BY DEF Times
  <2>. HIDE DEF b
  <2>. QED
    BY <2>1
<1>3. /\ t \in Seq(S) /\ Len(t) = Len(a) + Len(b)
      /\ \A i \in 1..Len(a) : t[i] = a[i]
      /\ \A i \in 1..Len(b) : t[Len(a) + i] = b[i]
  <2>. HIDE DEF a, b
  <2>. QED
    BY <1>1, <1>2, JoinedAt
<1>. HIDE DEF a, b, t
<1>4. Len(t) = n /\ DOMAIN t = 1..n
  BY <1>1, <1>2, <1>3, LenProperties
<1>5. ASSUME NEW p \in 1..n, p > last PROVE t[p] = pad
  <2>. DEFINE i == p - last
  <2>1. i \in 1..more /\ p = last + i
    BY <1>5
  <2>. HIDE DEF i
  <2>. QED
    BY <1>1, <1>2, <1>3, <2>1
<1>6. ASSUME NEW k \in 1..Len(parts), NEW j \in 1..Len(parts[k]) PROVE t[off[k - 1] + j] = parts[k][j]
  <2>1. a[off[k - 1] + j] = parts[k][j]
    BY <1>1 DEF Laid
  <2>2. k \in 1..Len(ls) /\ j \in 1..ls[k]
    BY DEF LengthsOf
  <2>3. off[k - 1] + j \in 1..off[Len(ls)]
    BY <2>2, StepsApart
  <2>. QED
    BY <1>1, <1>3, <2>1, <2>3
<1>7. Laid(parts, t, off)
  BY <1>6 DEF Laid
<1>8. PaddedTo(t, parts, off, n, pad, last)
  <2>. HIDE DEF n
  <2>. QED
    BY <1>4, <1>5, <1>7 DEF PaddedTo
<1>. QED
  BY <1>8 DEF t, a, b

\* What a row is made of.
IdParts(lengths, sack) == [i \in DOMAIN sack |-> Counted(sack[i], lengths[sack[i]])]
PositionParts(lengths, sack) == [i \in DOMAIN sack |-> Positions(lengths[sack[i]])]
MaskParts(lengths, sack, neat) ==
    [i \in DOMAIN sack |-> Times(lengths[sack[i]], IF neat THEN Segment(i) ELSE 1)]

\* Parts of these lengths.
PartsOf(parts, S, ls) == parts \in Seq(Seq(S)) /\ LengthsOf(parts, ls)

\* Parts with the lengths of their examples.
LEMMA RowPartsTyped ==
    ASSUME NEW S, NEW n \in Nat, NEW ls \in Seq(Nat), Len(ls) = n, NEW parts,
           parts = [i \in 1..n |-> parts[i]],
           \A i \in 1..n : parts[i] \in Seq(S) /\ Len(parts[i]) = ls[i]
    PROVE  PartsOf(parts, S, ls)
<1>1. parts \in [1..n -> Seq(S)]
  OBVIOUS
<1>2. parts \in Seq(Seq(S))
  BY ONLY <1>1, n \in Nat, SeqDef
<1>3. Len(parts) = n
  BY <1>1
<1>. QED
  BY <1>2, <1>3 DEF PartsOf, LengthsOf

\* The sizes of a sack.
LEMMA SizesTyped ==
    ASSUME NEW lengths \in Seq(Nat), NEW sack \in Seq(1..Len(lengths))
    PROVE  /\ SizesOf(lengths, sack) \in Seq(Nat) /\ Len(SizesOf(lengths, sack)) = Len(sack)
           /\ Len(sack) \in Nat /\ DOMAIN sack = 1..Len(sack)
           /\ \A i \in 1..Len(sack) :
                 /\ sack[i] \in 1..Len(lengths) /\ sack[i] \in Nat /\ sack[i] # 0
                 /\ SizesOf(lengths, sack)[i] = lengths[sack[i]] /\ lengths[sack[i]] \in Nat
<1>. DEFINE ls == SizesOf(lengths, sack)
            m == Len(sack)
<1>1. m \in Nat /\ DOMAIN sack = 1..m /\ \A i \in 1..m : sack[i] \in 1..Len(lengths)
  BY LenProperties, ElementOfSeq
<1>1a. \A i \in 1..m : sack[i] \in Nat /\ sack[i] # 0
  <2>1. Len(lengths) \in Nat
    BY LenProperties
  <2>. QED
    BY <1>1, <2>1
<1>2. \A i \in 1..m : lengths[sack[i]] \in Nat
  BY <1>1, ElementOfSeq
<1>3. ls = [i \in 1..m |-> lengths[sack[i]]]
  BY DEF SizesOf
<1>4. ls \in Seq(Nat) /\ Len(ls) = m
  <2>. HIDE DEF ls, m
  <2>1. ls \in [1..m -> Nat]
    BY <1>2, <1>3
  <2>. QED
    BY <1>1, <2>1
<1>. QED
  BY <1>1, <1>1a, <1>2, <1>3, <1>4

\* The three kinds of parts have the lengths of the examples.
LEMMA RowParts ==
    ASSUME NEW lengths \in Seq(Nat), NEW sack \in Seq(1..Len(lengths)), NEW neat
    PROVE  /\ PartsOf(IdParts(lengths, sack), Nat \X Nat, SizesOf(lengths, sack))
           /\ PartsOf(PositionParts(lengths, sack), Nat, SizesOf(lengths, sack))
           /\ PartsOf(MaskParts(lengths, sack, neat), Nat, SizesOf(lengths, sack))
<1>. DEFINE ls == SizesOf(lengths, sack)
            m == Len(sack)
            A == IdParts(lengths, sack)
            B == PositionParts(lengths, sack)
            C == MaskParts(lengths, sack, neat)
<1>1. /\ ls \in Seq(Nat) /\ Len(ls) = m /\ m \in Nat /\ DOMAIN sack = 1..m
      /\ \A i \in 1..m : sack[i] \in Nat /\ ls[i] = lengths[sack[i]] /\ ls[i] \in Nat
  BY SizesTyped
<1>2. /\ A = [i \in 1..m |-> Counted(sack[i], ls[i])]
      /\ B = [i \in 1..m |-> Positions(ls[i])]
      /\ C = [i \in 1..m |-> Times(ls[i], IF neat THEN Segment(i) ELSE 1)]
  BY <1>1 DEF IdParts, PositionParts, MaskParts
<1>. HIDE DEF A, B, C, ls, m
<1>3. ASSUME NEW i \in 1..m PROVE Counted(sack[i], ls[i]) \in Seq(Nat \X Nat)
                                  /\ Len(Counted(sack[i], ls[i])) = ls[i]
  <2>. DEFINE c == Counted(sack[i], ls[i])
              j == sack[i]
              n == ls[i]
  <2>1. c = [k \in 1..n |-> <<j, k>>] /\ j \in Nat /\ n \in Nat
    BY <1>1 DEF Counted
  <2>. HIDE DEF c, j, n
  <2>2. \A k \in 1..n : <<j, k>> \in Nat \X Nat
    BY <2>1
  <2>3. c \in [1..n -> Nat \X Nat]
    BY <2>1, <2>2
  <2>4. c \in Seq(Nat \X Nat) /\ Len(c) = n
    <3>1. c \in Seq(Nat \X Nat)
      BY ONLY <2>1, <2>3, SeqDef
    <3>. QED
      BY <2>1, <2>3, <3>1
  <2>. QED
    BY <2>4 DEF c, n, j
<1>4. ASSUME NEW i \in 1..m PROVE Positions(ls[i]) \in Seq(Nat) /\ Len(Positions(ls[i])) = ls[i]
  <2>. DEFINE c == Positions(ls[i])
              n == ls[i]
  <2>1. c = [k \in 1..n |-> k - 1] /\ n \in Nat
    BY <1>1 DEF Positions
  <2>. HIDE DEF c, n
  <2>2. \A k \in 1..n : k - 1 \in Nat
    BY <2>1
  <2>3. c \in [1..n -> Nat]
    BY <2>1, <2>2
  <2>4. c \in Seq(Nat) /\ Len(c) = n
    BY <2>1, <2>3
  <2>. QED
    BY <2>4 DEF c, n
<1>5. ASSUME NEW i \in 1..m, NEW x \in Nat PROVE Times(ls[i], x) \in Seq(Nat) /\ Len(Times(ls[i], x)) = ls[i]
  <2>. DEFINE c == Times(ls[i], x)
              n == ls[i]
  <2>1. c = [k \in 1..n |-> x] /\ n \in Nat
    BY <1>1 DEF Times
  <2>. HIDE DEF c, n
  <2>2. c \in Seq(Nat) /\ Len(c) = n
    BY <2>1
  <2>. QED
    BY <2>2 DEF c, n
<1>6. PartsOf(A, Nat \X Nat, ls)
  <2>1. A = [i \in 1..m |-> A[i]] /\ \A i \in 1..m : A[i] \in Seq(Nat \X Nat) /\ Len(A[i]) = ls[i]
    BY <1>2, <1>3
  <2>. QED
    BY <1>1, <2>1, RowPartsTyped
<1>7. PartsOf(B, Nat, ls)
  <2>1. B = [i \in 1..m |-> B[i]] /\ \A i \in 1..m : B[i] \in Seq(Nat) /\ Len(B[i]) = ls[i]
    BY <1>2, <1>4
  <2>. QED
    BY <1>1, <2>1, RowPartsTyped
<1>8. PartsOf(C, Nat, ls)
  <2>1. \A i \in 1..m : (IF neat THEN Segment(i) ELSE 1) \in Nat
    BY DEF Segment
  <2>2. C = [i \in 1..m |-> C[i]] /\ \A i \in 1..m : C[i] \in Seq(Nat) /\ Len(C[i]) = ls[i]
    BY <1>2, <1>5, <2>1
  <2>. QED
    BY <1>1, <2>2, RowPartsTyped
<1>. QED
  BY <1>6, <1>7, <1>8 DEF A, B, C, ls

\* Where a row has the tokens of its examples, with their positions and their mask.
RowLaid(row, lengths, sack, cutoff, neat, off) ==
    /\ Len(row.ids) = cutoff + 1 /\ DOMAIN row.ids = 1..(cutoff + 1)
    /\ Len(row.attention_mask) = cutoff + 1 /\ Len(row.position_ids) = cutoff + 1
    /\ \A i \in 1..Len(sack) : \A k \in 1..lengths[sack[i]] :
          /\ row.ids[off[i - 1] + k] = <<sack[i], k>>
          /\ row.position_ids[off[i - 1] + k] = k - 1
          /\ row.attention_mask[off[i - 1] + k] = IF neat THEN i ELSE 1
    /\ \A p \in 1..(cutoff + 1) : p > off[Len(sack)] =>
          row.ids[p] = PadToken /\ row.attention_mask[p] = IF neat THEN 0 ELSE 1

\* That is how packing fills it.
LEMMA RowIsLaid ==
    ASSUME NEW cutoff \in Nat, NEW lengths \in Seq(Nat), NEW sack \in Seq(1..Len(lengths)),
           NEW neat, NEW off, StepsBy(SizesOf(lengths, sack), off), off[Len(sack)] <= cutoff
    PROVE  RowLaid(PackedRow(lengths, sack, cutoff, neat), lengths, sack, cutoff, neat, off)
<1>. DEFINE ls == SizesOf(lengths, sack)
            m == Len(sack)
            A == IdParts(lengths, sack)
            B == PositionParts(lengths, sack)
            C == MaskParts(lengths, sack, neat)
            last == off[m]
            more == cutoff - Len(FlattenSeq(A)) + 1
            none == IF neat THEN 0 ELSE 1
            a == FlattenSeq(A) \o Times(more, PadToken)
            b == FlattenSeq(B) \o Times(more, 0)
            c == FlattenSeq(C) \o Times(more, none)
            row == PackedRow(lengths, sack, cutoff, neat)
<1>1. /\ ls \in Seq(Nat) /\ Len(ls) = m /\ m \in Nat /\ DOMAIN sack = 1..m
      /\ \A i \in 1..m : sack[i] \in Nat /\ ls[i] = lengths[sack[i]] /\ ls[i] \in Nat
  BY SizesTyped
<1>2. PartsOf(A, Nat \X Nat, ls) /\ PartsOf(B, Nat, ls) /\ PartsOf(C, Nat, ls)
  BY RowParts
<1>3. row = [ids |-> a, position_ids |-> b, attention_mask |-> c]
  BY DEF PackedRow, IdParts, PositionParts, MaskParts
<1>4. StepsBy(ls, off) /\ last \in Nat /\ last = off[Len(ls)]
  <2>1. StepsBy(ls, off)
    OBVIOUS
  <2>. HIDE DEF ls
  <2>2. \A k \in 0..Len(ls) : off[k] \in Nat
    BY <1>1, <2>1, StepsGrow
  <2>. QED
    BY <1>1, <2>1, <2>2
<1>5. A \in Seq(Seq(Nat \X Nat)) /\ B \in Seq(Seq(Nat)) /\ C \in Seq(Seq(Nat))
      /\ LengthsOf(A, ls) /\ LengthsOf(B, ls) /\ LengthsOf(C, ls)
  BY <1>2 DEF PartsOf
<1>6. Len(FlattenSeq(A)) = last
  <2>. HIDE DEF A, ls, last
  <2>. QED
    BY <1>1, <1>4, <1>5, FlatLaid
<1>7. more \in Nat /\ last + more = cutoff + 1
  <2>1. more = cutoff - last + 1 /\ last <= cutoff
    BY <1>6
  <2>. HIDE DEF more, last
  <2>. QED
    BY <1>4, <2>1
<1>. HIDE DEF A, B, C, ls, last, more
<1>8. PaddedTo(a, A, off, last + more, PadToken, last)
  <2>1. PadToken \in Nat \X Nat
    BY DEF PadToken
  <2>. QED
    BY <1>1, <1>4, <1>5, <1>7, <2>1, PartsPadded
<1>9. PaddedTo(b, B, off, last + more, 0, last)
  BY <1>1, <1>4, <1>5, <1>7, PartsPadded
<1>10. PaddedTo(c, C, off, last + more, none, last)
  <2>1. none \in Nat
    OBVIOUS
  <2>. HIDE DEF none
  <2>. QED
    BY <1>1, <1>4, <1>5, <1>7, <2>1, PartsPadded
<1>. HIDE DEF a, b, c, row, none
<1>11. /\ Len(a) = cutoff + 1 /\ DOMAIN a = 1..(cutoff + 1) /\ Laid(A, a, off)
       /\ \A p \in 1..(cutoff + 1) : p > last => a[p] = PadToken
  BY <1>7, <1>8 DEF PaddedTo
<1>12. Len(b) = cutoff + 1 /\ Laid(B, b, off)
  BY <1>7, <1>9 DEF PaddedTo
<1>13. /\ Len(c) = cutoff + 1 /\ Laid(C, c, off)
       /\ \A p \in 1..(cutoff + 1) : p > last => c[p] = none
  BY <1>7, <1>10 DEF PaddedTo
<1>14. ASSUME NEW i \in 1..m, NEW k \in 1..ls[i]
       PROVE  /\ a[off[i - 1] + k] = <<sack[i], k>>
              /\ b[off[i - 1] + k] = k - 1
              /\ c[off[i - 1] + k] = IF neat THEN i ELSE 1
  <2>1. i \in 1..Len(A) /\ i \in 1..Len(B) /\ i \in 1..Len(C)
        /\ k \in 1..Len(A[i]) /\ k \in 1..Len(B[i]) /\ k \in 1..Len(C[i])
    BY <1>1, <1>5 DEF LengthsOf
  <2>2. a[off[i - 1] + k] = A[i][k] /\ b[off[i - 1] + k] = B[i][k] /\ c[off[i - 1] + k] = C[i][k]
    BY <1>11, <1>12, <1>13, <2>1 DEF Laid
  <2>3. ls[i] = lengths[sack[i]] /\ i \in DOMAIN sack
    BY <1>1
  <2>4. A[i] = Counted(sack[i], ls[i]) /\ B[i] = Positions(ls[i])
        /\ C[i] = Times(ls[i], IF neat THEN i ELSE 1)
    BY <2>3 DEF A, B, C, IdParts, PositionParts, MaskParts, Segment
  <2>5. Counted(sack[i], ls[i])[k] = <<sack[i], k>> /\ Positions(ls[i])[k] = k - 1
    BY DEF Counted, Positions
  <2>6. Times(ls[i], IF neat THEN i ELSE 1)[k] = IF neat THEN i ELSE 1
    BY DEF Times
  <2>. QED
    BY <2>2, <2>4, <2>5, <2>6
<1>15. row.ids = a /\ row.position_ids = b /\ row.attention_mask = c
  BY <1>3
<1>16. \A i \in 1..m : \A k \in 1..lengths[sack[i]] :
          /\ a[off[i - 1] + k] = <<sack[i], k>>
          /\ b[off[i - 1] + k] = k - 1
          /\ c[off[i - 1] + k] = IF neat THEN i ELSE 1
  BY <1>1, <1>14
<1>17. RowLaid(row, lengths, sack, cutoff, neat, off)
  BY <1>11, <1>12, <1>13, <1>15, <1>16 DEF RowLaid, none, last, m
<1>. QED
  BY <1>17 DEF row
=============================================================================
