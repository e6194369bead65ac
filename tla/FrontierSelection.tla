------------------------- MODULE FrontierSelection -------------------------
(***************************************************************************)
(* Which suggestions of a planning round become child trajectories:        *)
(* OrchestratorV01._select_frontier_candidates.                            *)
(*                                                                         *)
(* A trajectory is named by the path of suggestion ids from the root (the  *)
(* code's id "<parent>__rNNN_<suggestion>" spells the same path).          *)
(* Suggestion ids are naturals, so that their order stands for the order   *)
(* of the strings.  A context is what planning one trajectory produced;    *)
(* an empty suggestion list is the planner's direct answer (PlannerOutput  *)
(* admits exactly one of an answer and a non-empty list).                  *)
(***************************************************************************)
EXTENDS Integers, Sequences, FiniteSets

CONSTANTS
    Suggestion,               \* suggestion ids a planner may emit
    PlannerSuggestionCount,   \* OrchestratorConfig.planner_suggestion_count
    MaxChild                  \* OrchestratorConfig.max_child_trajectories

ASSUME SelectionAssumption ==
    /\ Suggestion \subseteq Nat
    /\ PlannerSuggestionCount \in Nat \ {0}
    /\ MaxChild \in Nat \ {0}

TrajectoryId == Seq(Suggestion)

MAX_PLANNER_SUGGESTIONS == 3

Lesser(a, b) == IF a < b THEN a ELSE b

EffectiveSuggestionCount ==
    Lesser(PlannerSuggestionCount, MAX_PLANNER_SUGGESTIONS)

\* String order of two trajectory ids of one frontier, whose paths are equally long.
IdLess(a, b) ==
    \E i \in 1..Lesser(Len(a), Len(b)) :
        /\ a[i] < b[i]
        /\ \A j \in 1..(i - 1) : a[j] = b[j]

\* The sort key (-parent_frontier_score, suggestion_order, trajectory_id).
Before(x, y) ==
    \/ x.score > y.score
    \/ x.score = y.score /\ x.order < y.order
    \/ x.score = y.score /\ x.order = y.order /\ IdLess(x.id, y.id)

UsableOrders(c) == 1..Lesser(Len(c.sugg), EffectiveSuggestionCount)

Candidates(contexts) ==
    UNION {{[id |-> contexts[i].id, order |-> k, score |-> contexts[i].score,
             suggestion |-> contexts[i].sugg[k]] :
               k \in UsableOrders(contexts[i])} : i \in DOMAIN contexts}

Top1(contexts) == {x \in Candidates(contexts) : x.order = 1}
Remaining(contexts) == {x \in Candidates(contexts) : x.order # 1}

\* The n first elements of S in the order of the sort key.
Best(S, n) == {x \in S : Cardinality({y \in S : Before(y, x)}) < n}

\* Bug: one ranking for all suggestions.
Bug_OneRanking(contexts) == Best(Candidates(contexts), MaxChild)

\* Every parent's first suggestion goes before any parent's second one.
SelectCandidates(contexts) ==
    LET top == Top1(contexts)
        slots == MaxChild - Cardinality(top)
    IN  IF slots <= 0
        THEN Best(top, MaxChild)
        ELSE top \cup Best(Remaining(contexts), slots)
=============================================================================
