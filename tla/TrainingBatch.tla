---------------------------- MODULE TrainingBatch ----------------------------
(***************************************************************************)
(* The way of one batch through a training step of RayPPOTrainer.fit:      *)
(* prompts are repeated, cut into chunks for the agent loop workers,       *)
(* joined with the prompts again, reordered for balance, cut into chunks   *)
(* for the data parallel ranks, there into mini and micro batches, and     *)
(* every result is put next to the row it belongs to by position alone.    *)
(*                                                                         *)
(* A row is a record.  What a worker computes for a row is named by the    *)
(* row's response, and a response by the place of its request; so a column *)
(* that does not name its own row's response came to the wrong row.        *)
(***************************************************************************)
EXTENDS SeqlenBalancing

(* DataProto. *)

\* repeat with interleave: the n copies of a row stay together.
Repeat(batch, n) == [i \in 1..(Len(batch) * n) |-> batch[((i - 1) \div n) + 1]]

\* chunk, which asserts that the chunks are equal.
Chunk(batch, n) ==
    LET size == Len(batch) \div n
    IN  [c \in 1..n |-> SubSeq(batch, (c - 1) * size + 1, c * size)]

\* split: the last piece may be shorter.
Split(batch, size) ==
    [p \in 1..CeilDiv(Len(batch), size) |->
        SubSeq(batch, (p - 1) * size + 1, Min({p * size, Len(batch)}))]

Reorder(batch, idx) == [i \in DOMAIN idx |-> batch[idx[i]]]

PadSize(batch, n) == (n - (Len(batch) % n)) % n

\* Bug: padded in front.
Bug_Pad(batch, n) ==
    [i \in 1..PadSize(batch, n) |-> batch[((i - 1) % Len(batch)) + 1]] \o batch

\* pad_dataproto_to_divisor: whole copies of the batch, then its first rows.
Pad(batch, n) ==
    batch \o [i \in 1..PadSize(batch, n) |-> batch[((i - 1) % Len(batch)) + 1]]
Unpad(batch, pad) == SubSeq(batch, 1, Len(batch) - pad)

\* union: both columns, row by row; keys in both must agree.
Union(batch, column, results) ==
    [i \in DOMAIN batch |->
        [key \in DOMAIN batch[i] \cup {column} |->
            IF key = column THEN results[i] ELSE batch[i][key]]]
-----------------------------------------------------------------------------
(* The agent loop workers. *)

\* gather returns in the order of the requests, whichever loop ends first.
Rollout(requests, lens) ==
    [i \in DOMAIN requests |->
        [uid |-> requests[i].uid, response |-> requests[i].at, len |-> lens[requests[i].at]]]

\* AgentLoopManager.generate_sequences: one chunk per worker, concatenated.
GenerateSequences(requests, lens, workers) ==
    FlattenSeq([w \in 1..workers |-> Rollout(Chunk(requests, workers)[w], lens)])

Numbered(batch) == [i \in DOMAIN batch |-> [uid |-> batch[i].uid, at |-> i]]
Prompts(n) == [i \in 1..n |-> [uid |-> i]]

\* fit, up to the union: the driver's rows next to what was generated for them.
Generated(lens, n, workers) ==
    LET prompts == Prompts(Len(lens) \div n)
        output == GenerateSequences(Numbered(Repeat(prompts, n)), lens, workers)
        rows == Repeat(prompts, n)
    IN  [i \in DOMAIN rows |->
            [of |-> rows[i].uid, uid |-> output[i].uid, response |-> output[i].response,
             len |-> output[i].len]]

Lens(batch) == [i \in DOMAIN batch |-> batch[i].len]

\* _balance_batch: similar numbers of tokens for each of the world's ranks.
BalanceBatch(batch, world) ==
    Reorder(batch, FlattenSeq(BalancedPartitions(Lens(batch), world, TRUE)))
-----------------------------------------------------------------------------
(* A call of the workers: dp ranks of sp workers each (Ulysses). *)

Ranks(dp, sp) == 0..(dp * sp - 1)

\* Bug: the dp rank is taken along the other dimension of the mesh.
Bug_DpRank(rank, dp, sp) == rank % dp

DpRank(rank, dp, sp) == rank \div sp
IsCollect(rank, sp) == rank % sp = 0

\* dispatch_nd_compute_dataproto: workers of one dp rank get the same chunk.
Dispatch(batch, dp, sp) ==
    [r \in Ranks(dp, sp) |-> Chunk(batch, dp)[DpRank(r, dp, sp) + 1]]

\* collect_nd_compute_dataproto: one output per dp rank, in the order of ranks.
Collect(outputs, dp, sp) ==
    FlattenSeq([i \in 1..(dp * sp) |->
                    IF IsCollect(i - 1, sp) THEN outputs[i - 1] ELSE <<>>])

\* Bug: every rank splits by its own number of tokens.
Bug_MicroNumber(chunks, r, max) == NumMicroBatches(Lens(chunks[r]), max)

\* The number of micro batches, an all_reduce of the maximum over all ranks.
MicroNumber(chunks, r, max) ==
    Max({NumMicroBatches(Lens(chunks[q]), max) : q \in DOMAIN chunks})

\* compute_log_prob of one worker, for num micro batches: a result for each row.
Passes(rows, parts) == [p \in DOMAIN parts |-> Reorder(rows, parts[p])]
Results(passes) ==
    FlattenSeq([p \in DOMAIN passes |-> [i \in DOMAIN passes[p] |-> passes[p][i].response]])
Restored(rows, parts) == Restore(Results(Passes(rows, parts)), parts)
LogProbs(rows, num) == Restored(rows, MicroBatches(Lens(rows), num))

Computed(chunks, max) ==
    [r \in DOMAIN chunks |-> LogProbs(chunks[r], MicroNumber(chunks, r, max))]
ComputeLogProb(batch, dp, sp, max) == Collect(Computed(Dispatch(batch, dp, sp), max), dp, sp)

\* The step's batch when the actor is updated.
WithLogProb(batch, dp, sp, max) ==
    Union(batch, "old_log_prob", ComputeLogProb(batch, dp, sp, max))
StepBatch(lens, n, workers, dp, sp, max) ==
    WithLogProb(BalanceBatch(Generated(lens, n, workers), dp * sp), dp, sp, max)

\* update_policy: the rows of each backward pass of each rank, mini batch by mini
\* batch; the m-th of every rank agree on a number of micro batches.
MiniBatches(chunks, mini) == [r \in DOMAIN chunks |-> Split(chunks[r], mini)]
MiniBatchPasses(rows, max) ==
    [r \in DOMAIN rows |->
        Passes(rows[r], MicroBatches(Lens(rows[r]), MicroNumber(rows, r, max)))]
PassesOf(minis, max) ==
    [r \in DOMAIN minis |-> [m \in DOMAIN minis[r] |->
        MiniBatchPasses([q \in DOMAIN minis |-> minis[q][m]], max)[r]]]
Backward(batch, dp, sp, mini, max) ==
    PassesOf(MiniBatches(Dispatch(batch, dp, sp), mini), max)
-----------------------------------------------------------------------------
(* _validate: padded for the agent loop workers, and cut again. *)

ValidateBatch(prompts, n, workers) ==
    LET batch == Repeat(Prompts(prompts), n)
        padded == Numbered(Pad(batch, workers))
        output == GenerateSequences(padded, [i \in DOMAIN padded |-> 1], workers)
    IN  Union(batch, "output", Unpad(output, PadSize(batch, workers)))
=============================================================================
