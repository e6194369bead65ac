-------------------------- MODULE MCRewardBatching --------------------------
(***************************************************************************)
(* Instances of the reward batching for TLC; the .cfg files choose them.   *)
(***************************************************************************)
EXTENDS RewardBatching

\* A reward model rank per worker, two calls, anything may fail; and a reward
\* model on one rank with batches of at most two.
MCConfigs ==
    {[micro_batch_size |-> 3, max_batch_size |-> 0, calls |-> 2, faults |-> {"loop", "batch"}],
     [micro_batch_size |-> 1, max_batch_size |-> 2, calls |-> 1, faults |-> {"batch"}]}

\* Two reward model ranks for three workers.
MCStarved ==
    {[micro_batch_size |-> 2, max_batch_size |-> 0, calls |-> 1, faults |-> {}]}
=============================================================================
