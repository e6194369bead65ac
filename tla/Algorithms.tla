----------------------------- MODULE Algorithms -----------------------------
(***************************************************************************)
(* The pure algorithms, each for every input of a bounded size: a state is *)
(* an input, made longer step by step, and the invariants say what the     *)
(* algorithm computes from it.                                             *)
(*                                                                         *)
(*   contexts  the trajectories planned in a round    SelectionLists       *)
(*   lens      the lengths of a batch's rows          SeqlenBalancing,     *)
(*                                                    TrainingBatch        *)
(*   rollouts  the rollouts of a batch                ToolRewards          *)
(*   turns     the turns of a conversation, or the    SftData              *)
(*             examples of a dataset                                       *)
(***************************************************************************)
EXTENDS SelectionLists, TrainingBatch, ToolRewards, SftData

CONSTANTS
    Length,       \* lengths a row may have
    MaxRows,      \* bound: rows of a batch
    MaxRollouts,  \* bound: rollouts of a batch
    Sides,        \* lengths a prompt or a response may have
    MaxTurns      \* bound: turns of a conversation, or examples of a dataset

ASSUME AlgorithmsAssumption ==
    /\ Length \subseteq Nat /\ Sides \subseteq Nat
    /\ {MaxRows, MaxRollouts, MaxTurns} \subseteq Nat

VARIABLES lens, rollouts, turns

vars == <<contexts, lens, rollouts, turns>>

Required ==
    {{}, {"crop"}, {"rotate_90"}, {"rotate_90", "crop"}, {"rotate_90", "flip_vertical", "crop"}}
Used ==
    {{}, {"rotate_270"}, {"rotate_90"}, {"crop"}, {"rotate_270", "crop"}, {"sharpen"}}

\* Boxes of crops only, and transforms only where code ran; the first rollout fixes
\* what its prompt requires, and the other prompt requires a crop.
Rollouts(batch) ==
    {r \in [uid : {1, 2}, required : Required, used : Used, correct : BOOLEAN,
            ious : {{}, {6}, {One}}, codes : {0, 1, 3}, fmt : {One}] :
        /\ "crop" \in r.used <=> r.ious # {}
        /\ IF r.used = {} THEN r.codes # 1 ELSE r.codes = 1
        /\ batch = <<>> => r.uid = 1
        /\ batch # <<>> => r.required = IF r.uid = 1 THEN batch[1].required ELSE {"crop"}}

AddRow == Len(lens) < MaxRows /\ \E n \in Length : lens' = Append(lens, n)
AddRollout ==
    Len(rollouts) < MaxRollouts /\ \E r \in Rollouts(rollouts) : rollouts' = Append(rollouts, r)

AddTurn ==
    Len(turns) < MaxTurns /\ \E t \in [source : Sides, target : Sides] : turns' = Append(turns, t)

AllInit == Init /\ lens = <<>> /\ rollouts = <<>> /\ turns = <<>>
AllNext ==
    \/ lens = <<>> /\ rollouts = <<>> /\ turns = <<>> /\ PlanOne /\ UNCHANGED <<lens, rollouts, turns>>
    \/ contexts = <<>> /\ rollouts = <<>> /\ turns = <<>> /\ AddRow /\ UNCHANGED <<contexts, rollouts, turns>>
    \/ contexts = <<>> /\ lens = <<>> /\ turns = <<>> /\ AddRollout /\ UNCHANGED <<contexts, lens, turns>>
    \/ contexts = <<>> /\ lens = <<>> /\ rollouts = <<>> /\ AddTurn /\ UNCHANGED <<contexts, lens, rollouts>>
AllSpec == AllInit /\ [][AllNext]_vars
-----------------------------------------------------------------------------
Items == DOMAIN lens
Tokens(items) == Sum([i \in DOMAIN items |-> lens[items[i]]])
Sums(parts) == {Tokens(parts[p]) : p \in DOMAIN parts}

\* The ways to split a batch into equal parts.
Divisors == {k \in Items : Len(lens) % k = 0}

\* get_seqlen_balanced_partitions: "If any resulting partition is empty" it raises,
\* and so it does when an index is lost. With at least as many items as partitions
\* none of this happens, items without a token included, and equal sizes are equal.
PartitionsAreSound(parts, k, equal) ==
    /\ \A p \in 1..k : parts[p] # <<>>
    /\ IsInjective(FlattenSeq(parts)) /\ ToSet(FlattenSeq(parts)) = Items
    /\ equal => \A p \in 1..k : Len(parts[p]) * k = Len(lens)

\* The partitions are balanced: no two differ by more than one item may, the longest
\* without equal sizes, and with them the longest instead of the shortest.
Differ(sums, most) == Max(sums) - Min(sums) <= most
PartitionsAreBalanced(parts, equal) ==
    Differ(Sums(parts), Max(ToSet(lens)) - (IF equal THEN Min(ToSet(lens)) ELSE 0))

\* The largest micro batch of a batch that rearrange_micro_batches accepts.
Largest(max) == Max(Sums(MicroBatches(lens, NumMicroBatches(lens, max))))

\* A micro batch stays below max_token_len and one sequence more, the longest: how far
\* what WithinMaxTokenLen says can be wrong.
MicroBatchesFit ==
    \A max \in Max(ToSet(lens) \cup {1})..(Total(lens) + 1) :
        lens # <<>> /\ Min(ToSet(lens)) > 0 => Largest(max) < max + Max(ToSet(lens))

\* rearrange_micro_batches: "max_token_len (int): max sum of attention_mask per
\* micro-batch".
WithinMaxTokenLen ==
    \A max \in Max(ToSet(lens) \cup {1})..(Total(lens) + 1) :
        lens # <<>> /\ Min(ToSet(lens)) > 0 => Largest(max) <= max

PartitionsInOrder(parts, k, equal) ==
    PartitionsAreSound(parts, k, equal) /\ PartitionsAreBalanced(parts, equal)

\* What get_seqlen_balanced_partitions and rearrange_micro_batches return is sound.
BalancingIsSound ==
    /\ \A k \in Items, equal \in BOOLEAN :
          (equal => k \in Divisors) =>
              PartitionsInOrder(BalancedPartitions(lens, k, equal), k, equal)
    /\ MicroBatchesFit

Worlds == {w \in (1..3) \X (1..2) : w[1] * w[2] \in Divisors}
Groupings == {g \in (1..2) \X (1..3) : g[1] \in Divisors /\ g[2] \in Divisors}
MaxTokens == {Max(ToSet(lens) \cup {1}), 4}

OwnColumns(batch) ==
    /\ \A i \in DOMAIN batch :
          /\ batch[i].of = batch[i].uid
          /\ batch[i].old_log_prob = batch[i].response
    /\ {batch[i].response : i \in DOMAIN batch} = Items

\* Every row of the batch the actor is updated with carries the prompt its response
\* was generated for, and the log probabilities of this response, after the chunks
\* of workers, the balancing, the ranks' chunks and the micro batches.
RowsStayTogether ==
    \A g \in Groupings, w \in Worlds, max \in MaxTokens :
        lens # <<>> /\ Min(ToSet(lens)) > 0 =>
            OwnColumns(StepBatch(lens, g[1], g[2], w[1], w[2], max))

InStep(passes, batch, w) ==
    LET firsts == {r \in Ranks(w[1], w[2]) : IsCollect(r, w[2])}
        rows(r) == FlattenSeq(FlattenSeq(passes[r]))
    IN  /\ \A r, q \in Ranks(w[1], w[2]) :
              /\ Len(passes[r]) = Len(passes[q])
              /\ \A m \in DOMAIN passes[r] : Len(passes[r][m]) = Len(passes[q][m])
              /\ DpRank(r, w[1], w[2]) = DpRank(q, w[1], w[2]) => passes[r] = passes[q]
        /\ UNION {ToSet(rows(r)) : r \in firsts} = ToSet(batch)
        /\ \A r \in firsts : IsInjective(rows(r)) /\ Len(rows(r)) * w[1] = Len(batch)
UpdatesInStep(batch, w, mini, max) == InStep(Backward(batch, w[1], w[2], mini, max), batch, w)

\* All ranks make the same backward passes, so that none waits in a collective the
\* others never enter; workers of one dp rank see the same rows; and over the dp
\* ranks every row of the batch is used exactly once in an epoch.
RanksInStep ==
    \A w \in Worlds, mini \in 1..3, max \in MaxTokens :
        lens # <<>> /\ Min(ToSet(lens)) > 0 =>
            UpdatesInStep(BalanceBatch(Generated(lens, 1, 1), w[1] * w[2]), w, mini, max)

\* Validation pads its batch for any number of workers, more than rows too: what is
\* left after the cut are the outputs of its own rows, in their order.
PaddingIsCut ==
    \A n \in Divisors, workers \in 1..(2 * MaxRows) :
        LET batch == ValidateBatch(Len(lens) \div n, n, workers) IN
        /\ Len(batch) = Len(lens)
        /\ \A i \in DOMAIN batch :
              batch[i].output.response = i /\ batch[i].output.uid = batch[i].uid

\* In training and in validation every row is with its own prompt.
RowsKeepTheirPrompt == RowsStayTogether /\ PaddingIsCut
-----------------------------------------------------------------------------
With(i, used, ious, runs) ==
    [rollouts EXCEPT ![i].used = @ \cup used, ![i].ious = @ \cup ious, ![i].codes = @ + runs]

\* A rollout's reward depends on the rollouts of its own prompt only, and neither on
\* where in the batch these are nor on their order, which chunks and balancing decide:
\* each is paid the same in every list of exactly the rollouts of its prompt.
GroupedByPrompt ==
    \A i \in DOMAIN rollouts :
        LET own == {j \in DOMAIN rollouts : rollouts[j].uid = rollouts[i].uid}
        IN  \A order \in Bijection(1..Cardinality(own), own) : \A k \in DOMAIN order :
               Reward([n \in DOMAIN order |-> rollouts[order[n]]], k)
                   = Reward(rollouts, order[k])

Degrees(t) ==
    CASE t = "rotate_90" -> 90 [] t = "rotate_180" -> 180 [] t = "rotate_270" -> 270
      [] OTHER -> 0
Corrects(t, need) ==
    IF Degrees(need) = 0 THEN t = need
    ELSE Degrees(t) > 0 /\ (Degrees(t) + Degrees(need)) % 360 = 0

\* The runs of code a transform takes are free, or cost less than its share is worth.
Affordable(r, runs) ==
    \/ r.codes + runs <= FreeRuns(r)
    \/ Gamma * runs * One < Alpha * (One \div Cardinality(Expected(r)))

\* A rollout is better off having used a transform too that brings the image back to
\* what it was, or a crop of the right place, with the runs of code that takes, as long
\* as it can afford them.  (Past the free runs a third expected transform earns less,
\* with the default weights, than the run costs.)
CorrectingPays ==
    \A i \in DOMAIN rollouts : \A t \in CoreOps \ rollouts[i].used, runs \in 0..2 :
        (/\ \E need \in rollouts[i].required : Corrects(t, need)
         /\ Affordable(rollouts[i], runs)) =>
            Reward(With(i, {t}, IF t = "crop" THEN {One} ELSE {}, runs), i)
                > Reward(rollouts, i)

\* A rollout that has used tools gains nothing from turning or flipping the image
\* without need, in as many runs as it likes.
SpuriousNeverPays ==
    \A i \in DOMAIN rollouts : \A t \in Orientations \ rollouts[i].used, runs \in 0..2 :
        (/\ UsedTool(rollouts[i])
         /\ ~\E need \in rollouts[i].required : Corrects(t, need)) =>
            Reward(With(i, {t}, {}, runs), i) <= Reward(rollouts, i)

\* The reward pulls towards the tools a sample needs, and not to others.
ToolsPayWhenNeeded == CorrectingPays /\ SpuriousNeverPays

\* The bonus for a necessary tool is only paid for prompts that some rollout without
\* tools got wrong.
BonusNeedsWitness ==
    \A i \in DOMAIN rollouts :
        Necessity(rollouts, i) > 0 =>
            \E j \in GroupOf(rollouts, i) : ~UsedTool(rollouts[j]) /\ ~rollouts[j].correct

\* What the other rollouts of its prompt add to a rollout's reward is theirs to add.
BonusIsEarned == GroupedByPrompt /\ BonusNeedsWitness
-----------------------------------------------------------------------------
\* data_args: "`mask_history` is incompatible with `train_on_prompt`".
Options ==
    {o \in [cutoff : {1, 4, 7}, efficient_eos : BOOLEAN, train_on_prompt : BOOLEAN,
            mask_history : BOOLEAN, prefix : {0, 2}, short : {{}, {4} \X Sides \X Sides}] :
        ~(o.mask_history /\ o.train_on_prompt)}

IsTarget(id) == id.side = "target"

\* A token is trained on itself if and only if it belongs to a response, with
\* mask_history to the last, or to a prompt that is to be trained, or ends the row.
ToBeTrained(id, o) ==
    \/ IsTarget(id) /\ (o.mask_history => id.turn = Len(turns))
    \/ o.train_on_prompt /\ id.side = "source"
    \/ id = Eos

\* With efficient_eos the first token of a prompt that is not trained has the end of
\* the turn before it as its label. With mask_history this trains the ends of earlier
\* turns, whose responses are ignored to "train on the last turn only": the code does
\* so, and here it is stated.
AsksForEnd(id, o) ==
    /\ o.efficient_eos /\ ~o.train_on_prompt
    /\ id.side = "source" /\ id.at = 1
    /\ id.turn # (IF o.mask_history THEN Len(turns) ELSE 1)

LabelFor(id, o) ==
    IF ToBeTrained(id, o) THEN id ELSE IF AsksForEnd(id, o) THEN Eos ELSE Ignore

\* The i-th token comes right after the turn before its own, and after its response
\* unless this is ignored.
FollowsTurn(row, i, o) ==
    i > 1 => /\ row.ids[i - 1].turn = row.ids[i].turn - 1
             /\ ~o.mask_history => IsTarget(row.ids[i - 1])

Labelled(row, o) ==
    /\ Len(row.labels) = Len(row.ids)
    /\ \A i \in DOMAIN row.ids :
          /\ row.labels[i] = LabelFor(row.ids[i], o)
          /\ AsksForEnd(row.ids[i], o) => FollowsTurn(row, i, o)

\* Where a row has the tokens of a turn, those of no turn being images or the end.
TokensOf(row, t) == {i \in DOMAIN row.ids : row.ids[i].turn = t}
Kept(row) == {row.ids[i].turn : i \in DOMAIN row.ids} \ {0}

\* They are the first ones of its prompt, and then the first ones of its response.
KeptInOrder(row, t) ==
    \E at, n, m \in 0 .. Len(row.ids) :
        /\ n > 0 /\ TokensOf(row, t) = (at + 1) .. (at + n + m)
        /\ SubSeq(row.ids, at + 1, at + n + m) = Ids(t, "source", n) \o Ids(t, "target", m)

\* A row is a run of turns in their order, from the first on or up to the last, that
\* stays within cutoff_len, and nothing was cut while there was room.
CutToFit(row, o) ==
    /\ Len(row.ids) <= Max({o.cutoff, Cardinality(TokensOf(row, 0))})
    /\ \A i, j \in DOMAIN row.ids :
          i < j /\ 0 \notin {row.ids[i].turn, row.ids[j].turn} =>
              row.ids[i].turn <= row.ids[j].turn
    /\ \A t \in Kept(row) : KeptInOrder(row, t)
    /\ Kept(row) = IF o.mask_history THEN (Len(turns) + 1 - Cardinality(Kept(row))) .. Len(turns)
                                     ELSE 1 .. Cardinality(Kept(row))
    /\ (\E t \in DOMAIN turns :
          Cardinality(TokensOf(row, t)) < turns[t].source + turns[t].target) =>
              Len(row.ids) >= o.cutoff

\* What supervised training learns from a conversation is its responses, aligned
\* with the tokens they answer to (preprocess_dataset: `labels with format <ignore>
\* ... <ignore> Y <eos>').
LabelsMatchTargets ==
    \A o \in Options :
        LET row == Encode(turns, o) IN Labelled(row, o) /\ CutToFit(row, o)

\* The examples of a dataset of single turns, as long as they are encoded.
ExampleLengths(cutoff) ==
    [j \in DOMAIN turns |->
        Len(Encode(<<turns[j]>>, [cutoff |-> cutoff, efficient_eos |-> FALSE, prefix |-> 0,
                                  train_on_prompt |-> FALSE, mask_history |-> FALSE,
                                  short |-> {}]).ids)]

\* The examples in a row, and the places of the tokens of one.
ExamplesIn(row) == {row.ids[p][1] : p \in DOMAIN row.ids} \ {0}
PlacesOf(row, j) == {p \in DOMAIN row.ids : row.ids[p][1] = j}
Filled(row) == {p \in DOMAIN row.ids : row.ids[p] # PadToken}

\* Every example is whole in exactly one row, and no two rows would have fit in one.
EachInOneRow(rows, lengths, cutoff) ==
    /\ UNION {ExamplesIn(rows[s]) : s \in DOMAIN rows} = DOMAIN lengths
    /\ \A s, r \in DOMAIN rows : s # r =>
          /\ ExamplesIn(rows[s]) \cap ExamplesIn(rows[r]) = {}
          /\ Cardinality(Filled(rows[s])) + Cardinality(Filled(rows[r])) > cutoff

\* A row is as long as it has to be, and its examples are in it from their first token
\* to their last, which are counted from zero.
WholeExamples(row, lengths, cutoff) ==
    /\ {Len(row.ids), Len(row.attention_mask), Len(row.position_ids)} = {cutoff + 1}
    /\ \A j \in ExamplesIn(row) : \E at \in 0 .. cutoff :
          /\ PlacesOf(row, j) = (at + 1) .. (at + lengths[j])
          /\ \A k \in 1 .. lengths[j] :
                row.ids[at + k] = <<j, k>> /\ row.position_ids[at + k] = k - 1

\* With neat_packing a token sees exactly the earlier ones of its own example, and
\* padding sees nothing.
SeeOwnExample(row) ==
    \A p, q \in DOMAIN row.ids :
        Sees(row.attention_mask, p, q) <=>
            /\ PadToken \notin {row.ids[p], row.ids[q]}
            /\ row.ids[p][1] = row.ids[q][1] /\ row.ids[q][2] <= row.ids[p][2]

PackedInRows(rows, lengths, cutoff, neat) ==
    /\ EachInOneRow(rows, lengths, cutoff)
    /\ \A s \in DOMAIN rows :
          WholeExamples(rows[s], lengths, cutoff) /\ (neat => SeeOwnExample(rows[s]))

\* What preprocess_dataset packs.
PackedApart ==
    \A cutoff \in {4, 7, 10}, neat \in BOOLEAN :
        PackedInRows(Packed(ExampleLengths(cutoff), cutoff, neat),
                     ExampleLengths(cutoff), cutoff, neat)
=============================================================================
