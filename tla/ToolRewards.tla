----------------------------- MODULE ToolRewards -----------------------------
(***************************************************************************)
(* AgentLoopManager._post_aggregate_tool_rewards: the reward of every      *)
(* rollout of a batch, from its own answer and transforms and from the     *)
(* other rollouts of its prompt.                                           *)
(*                                                                         *)
(* Rewards are integers, One standing for 1.0, and weights are tenths, so  *)
(* that a total is in tenths of One.  A rollout is a record: uid of the    *)
(* prompt, required and used transforms, correct (its score is above 0.5), *)
(* ious of its crop boxes with the ground truth, codes run, and fmt, its   *)
(* format reward.  A rollout used a tool when it used a transform or ran   *)
(* code.                                                                   *)
(***************************************************************************)
EXTENDS Integers, Sequences, FiniteSets, FiniteSetsExt

CONSTANTS
    Alpha, Beta, Gamma, \* tool_reward weights, in tenths
    FmtWeight,          \* format_reward_weight, in tenths
    EmergeWeight        \* emerge_reward_weight, in tenths

ASSUME ToolRewardsAssumption == {Alpha, Beta, Gamma, FmtWeight, EmergeWeight} \subseteq Nat

\* Divisible by every number of required transforms, and of rollouts, up to four.
One == 120

\* allowed_spurious_ops and core_ops.
Orientations == {"rotate_90", "rotate_180", "rotate_270", "flip_horizontal", "flip_vertical"}
CoreOps == Orientations \cup {"crop"}

\* Bug: the transform that was applied is expected, not the one that undoes it.
Bug_Undo(t) == t

\* _expected_transforms: an image that was rotated must be rotated back.
Undo(t) ==
    CASE t = "rotate_90" -> "rotate_270"
      [] t = "rotate_270" -> "rotate_90"
      [] OTHER -> t
Expected(r) == {Undo(t) : t \in r.required}

BestIou(r) == Max(r.ious \cup {0})

\* The share of the expected transforms that were used; a crop counts for its best box.
Mandatory(r) ==
    LET need == Expected(r) IN
    IF need = {} THEN 0
    ELSE (Cardinality((need \ {"crop"}) \cap r.used) * One
          + (IF "crop" \in need \cap r.used THEN BestIou(r) ELSE 0)) \div Cardinality(need)

\* Bug: two runs are free, however many transforms are expected.
Bug_Usage(r) == IF r.codes >= 2 THEN (r.codes - 2) * One ELSE 0

\* Runs of code that cost nothing: as many as transforms are expected, and two at least.
FreeRuns(r) == Max({2, Cardinality(Expected(r))})

\* _code_usage_penalty
Usage(r) == IF r.codes >= FreeRuns(r) THEN (r.codes - FreeRuns(r)) * One ELSE 0

\* _spurious_penalty: orientations used although none was needed.
Spurious(r) ==
    IF Expected(r) \cap Orientations = {}
    THEN Cardinality(r.used \cap Orientations) * One ELSE 0

\* _exact_match_reward, 0.1
Exact(r) ==
    LET need == Expected(r) \cap CoreOps
    IN  IF need # {} /\ need = r.used \cap CoreOps THEN One \div 10 ELSE 0

\* Bug: every transform that is not expected counts.
Bug_Emerging(r) == IF r.correct /\ r.used \ Expected(r) # {} THEN EmergeWeight * One ELSE 0

\* _emerging_tool_bonus, in tenths of One
Emerging(r) == IF r.correct /\ r.used \ CoreOps # {} THEN EmergeWeight * One ELSE 0
-----------------------------------------------------------------------------
UsedTool(r) == r.used # {} \/ r.codes > 0

\* Bug: groups are taken to be the pairs of neighbours.
Bug_GroupOf(batch, i) == {j \in DOMAIN batch : (j - 1) \div 2 = (i - 1) \div 2}

\* _group_indices_by_uid
GroupOf(batch, i) == {j \in DOMAIN batch : batch[j].uid = batch[i].uid}

Share(part, all) == IF all = {} THEN 0 ELSE (Cardinality(part) * One) \div Cardinality(all)

\* Bug: a group whose rollouts all used a tool counts as one that needed it.
Bug_Necessity(batch, i) ==
    LET with == {j \in GroupOf(batch, i) : UsedTool(batch[j])}
        without == GroupOf(batch, i) \ with
        Right(all) == {j \in all : batch[j].correct}
    IN  IF /\ i \in Right(with) /\ Cardinality(Right(without)) < 2
        THEN Max({0, Share(Right(with), with) - Share(Right(without), without)})
        ELSE 0

\* How much more often the group was right with tools than without; earned by
\* rollouts that are right with a tool while the prompt is hard without.
Necessity(batch, i) ==
    LET with == {j \in GroupOf(batch, i) : UsedTool(batch[j])}
        without == GroupOf(batch, i) \ with
        Right(all) == {j \in all : batch[j].correct}
    IN  IF /\ i \in Right(with) /\ without # {} /\ Cardinality(Right(without)) < 2
        THEN Max({0, Share(Right(with), with) - Share(Right(without), without)})
        ELSE 0

\* The required crop, and nearly everything else, was missed.
Missed(r) == "crop" \in Expected(r) /\ Mandatory(r) < One \div 10

\* _compute_tool_reward_for_sample: r_total.
Reward(batch, i) ==
    LET r == batch[i]
        acc == IF ~r.correct THEN 0 ELSE IF Missed(r) THEN Mandatory(r) ELSE One
        necessity == IF Missed(r) THEN 0 ELSE Necessity(batch, i)
    IN  10 * acc + FmtWeight * r.fmt
        + Alpha * Mandatory(r) + Beta * necessity + 10 * Exact(r) + Emerging(r)
        - Gamma * (Usage(r) + Spurious(r))
=============================================================================
