--------------------------- MODULE SelectionLists ---------------------------
(***************************************************************************)
(* _select_frontier_candidates as it is written: two lists filled context  *)
(* by context, sorted by _candidate_sort_key, sliced and joined.           *)
(* FrontierSelection describes the same choice as a ranking of sets, which *)
(* is what the loop's model uses; here the two are compared for every      *)
(* frontier of a bounded size, and the order of the list, which the sets   *)
(* do not have, is shown to be one the spawning loop can rely on.          *)
(***************************************************************************)
EXTENDS FrontierSelection, Sorting

CONSTANTS
    Score,          \* scores a parent may have
    MaxSuggestions, \* bound: the longest suggestion list
    MaxFrontier     \* bound: the most trajectories planned in a round

ASSUME SelectionListsAssumption ==
    /\ Score \subseteq Int
    /\ MaxSuggestions \in Nat /\ MaxFrontier \in Nat

VARIABLE contexts

CandidateList(c) ==
    [k \in UsableOrders(c) |-> [id |-> c.id, order |-> k, score |-> c.score,
                                suggestion |-> c.sugg[k]]]

\* The candidates of every context in turn; the first of each goes to one list and
\* the others to the other.
FirstCandidates(cs) ==
    FlattenSeq([i \in DOMAIN cs |-> SubSeq(CandidateList(cs[i]), 1, Lesser(1, Len(CandidateList(cs[i]))))])
OtherCandidates(cs) ==
    FlattenSeq([i \in DOMAIN cs |-> SubSeq(CandidateList(cs[i]), 2, Len(CandidateList(cs[i])))])

Sorted(list) == Sort(list, Before)
Slice(list, n) == SubSeq(list, 1, Lesser(n, Len(list)))

Top1List(cs) == Sorted(FirstCandidates(cs))
RemainingList(cs) == Sorted(OtherCandidates(cs))

\* Bug: the remaining ones get as many slots as there are children.
Bug_AllSlots(cs) == Slice(Top1List(cs), MaxChild) \o Slice(RemainingList(cs), MaxChild)

\* Bug: joined in the wrong order before the cut.
Bug_RemainingFirst(cs) == Slice(RemainingList(cs) \o Top1List(cs), MaxChild)

SelectedList(cs) ==
    LET top == Top1List(cs) IN
    IF Len(top) >= MaxChild
    THEN Slice(top, MaxChild)
    ELSE top \o Slice(RemainingList(cs), MaxChild - Len(top))
-----------------------------------------------------------------------------
\* The frontier's trajectories are pairwise different paths of one length.
Planned(cs) == {cs[i].id : i \in DOMAIN cs}

\* Which suggestion it is that comes after those that are used makes no difference.
SuggestionLists ==
    {list \in UNION {[1..n -> Suggestion] : n \in 0..MaxSuggestions} :
        \A k \in (EffectiveSuggestionCount + 1)..Len(list) : list[k] = list[1]}

\* Paths of one length that differ in the first place or in the second.
Paths == {path \in [1..2 -> Suggestion] : path[1] + path[2] <= 3}

Contexts == [id : Paths, score : Score, sugg : SuggestionLists]

Init == contexts = <<>>

\* One more trajectory was planned.
PlanOne ==
    /\ Len(contexts) < MaxFrontier
    /\ \E c \in Contexts :
          /\ c.id \notin Planned(contexts)
          /\ contexts' = Append(contexts, c)
-----------------------------------------------------------------------------
\* The list holds the candidates the ranking selects, each once, in whatever order
\* the frontier was planned; and a parent's suggestions come out in the planner's
\* order and without a gap, so that run(), which spawns in list order, tries none
\* while a better one of the same parent was left out.
ListMatchesRanking ==
    LET list == SelectedList(contexts) IN
    /\ ToSet(list) = SelectCandidates(contexts) /\ IsInjective(list)
    /\ \A i \in DOMAIN list : list[i].order > 1 =>
          \E j \in 1..(i - 1) :
             list[j].id = list[i].id /\ list[j].order = list[i].order - 1
=============================================================================
