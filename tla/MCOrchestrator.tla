--------------------------- MODULE MCOrchestrator ---------------------------
(***************************************************************************)
(* Instances of the branching loop for TLC; the .cfg files choose them.    *)
(*                                                                         *)
(* All failures, results, scores and suggestions over three rounds are     *)
(* more than TLC can explore. The initial budget chooses between two cases *)
(* of one behaviour: CaseSpec has, for the largest budget, the behaviours  *)
(* of Keeping, which build the deepest trees, and for the smaller ones     *)
(* those of Failing.                                                       *)
(***************************************************************************)
EXTENDS Orchestrator

\* What the planner suggested to the trajectories of this round.
Suggested == {contexts[i].sugg : i \in DOMAIN contexts}

\* Every step leaves an image and reaches the threshold, so that parents compete with
\* scores of different steps; a planner may suggest one id twice, whose second fork is
\* refused, and nothing else fails. Crashes and reruns as always.
Keeping ==
    /\ Suggested' \subseteq {<<>>, <<1>>, <<1, 1>>, <<1, 2>>, <<2, 1>>}
    /\ outcome' \in {"none", "image"}
    /\ pc' = "judged" => verdict' >= KeepThreshold
    /\ \A t \in DOMAIN traj' : traj'[t].err \in {"none", "child_init_error"}

\* Any call may fail, every result is possible, a score is at the threshold or below,
\* and a suggestion id may be one that cannot become a directory.
Failing ==
    /\ Suggested' \subseteq {<<>>, <<1>>, <<3>>, <<1, 2>>, <<1, 3>>, <<3, 1>>}
    /\ verdict' <= KeepThreshold

Case == IF budget0 = MaxRounds THEN Keeping ELSE Failing

CaseSpec == Init /\ [][Next /\ Case]_vars /\ WF_vars(Step /\ Case)
=============================================================================
