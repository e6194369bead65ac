------------------------------- MODULE SftData -------------------------------
(***************************************************************************)
(* The rows LLaMA-Factory trains on in supervised fine tuning              *)
(* (data/processor/supervised.py, processor_utils.py, data/collator.py):   *)
(* a conversation is cut to cutoff_len and labelled turn by turn, whole    *)
(* examples are packed into rows of one length, and the attention mask     *)
(* keeps the examples of a row apart.                                      *)
(*                                                                         *)
(* A turn is the lengths of its prompt and its response.  A token is named *)
(* by where it comes from: turn, side and place.                           *)
(***************************************************************************)
EXTENDS Sorting

Special(kind) == [turn |-> 0, side |-> kind, at |-> 0]
Eos == Special("eos")
Ignore == Special("ignore")     \* IGNORE_INDEX
Ignored(n) == [k \in 1 .. n |-> Ignore]
Ids(turn, side, n) == [k \in 1 .. n |-> [turn |-> turn, side |-> side, at |-> k]]

\* How much of a response may stay: the shorter side goes first, two long sides
\* share. What two long sides get is a product of floating point numbers cut to an
\* integer: for lengths below 2^25 the quotient, or where this is exact possibly one
\* less (int(22 * (30 / 44)) is 14), unless the sides are equal. o.short holds the
\* <<cutoff, source, target>> where it falls short.
FallsShort(turn, cutoff, o) ==
    /\ <<cutoff, turn.source, turn.target>> \in o.short
    /\ turn.source # turn.target
    /\ (cutoff * turn.target) % (turn.source + turn.target) = 0
Quotient(turn, cutoff, o) ==
    (cutoff * turn.target) \div (turn.source + turn.target)
        - (IF FallsShort(turn, cutoff, o) THEN 1 ELSE 0)

MaxTarget(turn, cutoff, o) ==
    CASE 2 * turn.target < cutoff -> cutoff
      [] 2 * turn.target >= cutoff /\ 2 * turn.source < cutoff -> cutoff - turn.source
      [] OTHER -> Quotient(turn, cutoff, o)

InferSeqlen(turn, cutoff, o) ==
    LET target == Min({MaxTarget(turn, cutoff, o), turn.target})
    IN  [source |-> Min({Max({cutoff - target, 0}), turn.source}), target |-> target]

\* Bug: what earlier turns have taken is forgotten.
Bug_Cuts(pairs, used, o) == [i \in DOMAIN pairs |-> InferSeqlen(pairs[i], o.cutoff - used, o)]

\* The lengths the turns are cut to, until the row is full.
AddCut(row, turn, o) ==
    IF row.used >= o.cutoff THEN row
    ELSE LET cut == InferSeqlen(turn, o.cutoff - row.used, o)
         IN  [used |-> row.used + cut.source + cut.target, cuts |-> Append(row.cuts, cut)]
Cuts(pairs, used, o) ==
    LET row[n \in 0..Len(pairs)] ==
            IF n = 0 THEN [used |-> used, cuts |-> <<>>] ELSE AddCut(row[n - 1], pairs[n], o)
    IN  row[Len(pairs)].cuts

\* Labels of a turn, the idx-th to be encoded, with these tokens.
Bug_SourceLabel(o, idx, ids) ==     \* the first turn ends another one
    IF o.train_on_prompt THEN ids
    ELSE IF o.efficient_eos THEN <<Eos>> \o Ignored(Len(ids) - 1) ELSE Ignored(Len(ids))
SourceLabel(o, idx, ids) ==
    CASE o.train_on_prompt -> ids
      [] ~o.train_on_prompt /\ o.efficient_eos /\ idx # 1 -> <<Eos>> \o Ignored(Len(ids) - 1)
      [] OTHER -> Ignored(Len(ids))

Bug_TargetLabel(o, idx, ids) ==     \* the first turn in place of the last
    IF o.mask_history /\ idx = 1 THEN Ignored(Len(ids)) ELSE ids
TargetLabel(o, idx, ids) ==
    IF o.mask_history /\ idx # 1 THEN Ignored(Len(ids)) ELSE ids

\* What a row holds of a turn, the idx-th to be encoded, cut to these lengths.
TurnIds(turn, cut) == Ids(turn, "source", cut.source) \o Ids(turn, "target", cut.target)
TurnLabels(turn, cut, idx, o) ==
    SourceLabel(o, idx, Ids(turn, "source", cut.source))
        \o TargetLabel(o, idx, Ids(turn, "target", cut.target))

\* With mask_history the last turns go first, and every earlier one is put in front;
\* what a plugin puts in a row first (o.prefix image tokens) then comes last.
EosIds(o) == IF o.efficient_eos THEN <<Eos>> ELSE <<>>
Joined(prefix, parts, o) ==
    (IF o.mask_history THEN FlattenSeq(Reverse(parts)) \o prefix
                       ELSE prefix \o FlattenSeq(parts)) \o EosIds(o)

\* _encode_data_example.
TurnAt(idx, n, o) == IF o.mask_history THEN n + 1 - idx ELSE idx
Encode(turns, o) ==
    LET pairs == [idx \in DOMAIN turns |-> turns[TurnAt(idx, Len(turns), o)]]
        cuts == Cuts(pairs, o.prefix + Len(EosIds(o)), o)
    IN  [ids |-> Joined(Ids(0, "image", o.prefix),
                        [idx \in DOMAIN cuts |-> TurnIds(TurnAt(idx, Len(turns), o), cuts[idx])], o),
         labels |-> Joined(Ignored(o.prefix),
                        [idx \in DOMAIN cuts |->
                            TurnLabels(TurnAt(idx, Len(turns), o), cuts[idx], idx, o)], o)]
-----------------------------------------------------------------------------
\* The place of the largest number that fits, 0 if none does; they are sorted.
SearchForFit(numbers, capacity) == Cardinality({i \in DOMAIN numbers : numbers[i] <= capacity})

AddFit(fill) ==
    LET i == SearchForFit(fill.numbers, fill.remaining) IN
    IF i = 0 THEN fill
    ELSE [sack |-> Append(fill.sack, fill.numbers[i]), numbers |-> RemoveAt(fill.numbers, i),
          remaining |-> fill.remaining - fill.numbers[i]]

FillKnapsack(numbers, capacity) ==
    LET fill[n \in 0..Len(numbers)] ==
            IF n = 0 THEN [sack |-> <<>>, numbers |-> numbers, remaining |-> capacity]
            ELSE AddFit(fill[n - 1])
    IN  fill[Len(numbers)]

AddSack(fills, capacity) ==
    IF fills.numbers = <<>> THEN fills
    ELSE LET filled == FillKnapsack(fills.numbers, capacity)
         IN  [sacks |-> Append(fills.sacks, filled.sack), numbers |-> filled.numbers]

FillAll(numbers, capacity) ==
    LET fills[n \in 0..Len(numbers)] ==
            IF n = 0 THEN [sacks |-> <<>>, numbers |-> numbers]
            ELSE AddSack(fills[n - 1], capacity)
    IN  fills[Len(numbers)].sacks

GreedyKnapsack(numbers, capacity) == FillAll(Sort(numbers, <), capacity)

\* Which examples the lengths in list stand for: of those of one length the last goes
\* first (length2indexes[length].pop).
Pop(popped, n, lengths) ==
    Append(popped, Max({j \in DOMAIN lengths : lengths[j] = n /\ j \notin ToSet(popped)}))
Indexes(lengths, list) ==
    LET popped[k \in 0..Len(list)] ==
            IF k = 0 THEN <<>> ELSE Pop(popped[k - 1], list[k], lengths)
    IN  popped[Len(list)]

Examples(lengths, sacks) ==
    LET End(s) == Len(FlattenSeq(SubSeq(sacks, 1, s)))
    IN  [s \in DOMAIN sacks |->
            SubSeq(Indexes(lengths, FlattenSeq(sacks)), End(s - 1) + 1, End(s))]

\* Bug: counted from zero, which means padding.
Bug_Segment(i) == i - 1
Segment(i) == i

Times(n, x) == [k \in 1 .. n |-> x]

\* A row: the k-th token of example j is <<j, k>>.
PadToken == <<0, 0>>
Counted(j, n) == [k \in 1 .. n |-> <<j, k>>]
Positions(n) == [k \in 1 .. n |-> k - 1]
PackedRow(lengths, sack, cutoff, neat) ==
    LET ids == FlattenSeq([i \in DOMAIN sack |-> Counted(sack[i], lengths[sack[i]])])
        padding == cutoff - Len(ids) + 1
    IN  [ids |-> ids \o Times(padding, PadToken),
         position_ids |->
            FlattenSeq([i \in DOMAIN sack |-> Positions(lengths[sack[i]])]) \o Times(padding, 0),
         attention_mask |->
            FlattenSeq([i \in DOMAIN sack |->
                           Times(lengths[sack[i]], IF neat THEN Segment(i) ELSE 1)])
                \o Times(padding, IF neat THEN 0 ELSE 1)]

\* PackedSupervisedDatasetProcessor.preprocess_dataset, of examples that fit in a row.
Packed(lengths, cutoff, neat) ==
    LET sacks == Examples(lengths, GreedyKnapsack(lengths, cutoff))
    IN  [s \in DOMAIN sacks |-> PackedRow(lengths, sacks[s], cutoff, neat)]

\* prepare_4d_attention_mask: does the token at p see the one at q?
Sees(mask, p, q) == mask[q] = mask[p] /\ mask[q] # 0 /\ q <= p
=============================================================================
