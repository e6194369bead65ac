---------------------------- MODULE Orchestrator ----------------------------
(***************************************************************************)
(* The branching loop of the offline SFT pipeline (OrchestratorV01.run)    *)
(* together with the files OfflineTrajectoryStore keeps for it.            *)
(*                                                                         *)
(* One action is one write to the store or one call of a planner, executor,*)
(* runtime or judge; the process may die between any two of them (Crash)   *)
(* and may be started again on the same sample (Rerun).                    *)
(*                                                                         *)
(* On disk, per trajectory directory:                                      *)
(*   dir[t]   what the directory holds besides trajectory.json: planner    *)
(*            rounds, runtime results and judge scores by step, messages;  *)
(*   traj[t]  trajectory.json.                                             *)
(* A reference from trajectory.json to a file is <<owner, index>>, owner   *)
(* being the directory the stored relative path leads to: when a child     *)
(* inherits a record, rebasing rewrites the path and keeps its target.     *)
(***************************************************************************)
EXTENDS FrontierSelection

CONSTANTS
    Unsafe,           \* suggestion ids build_child_trajectory_id refuses
    MaxSuggestions,   \* bound: the longest list a planner returns
    MaxRounds,        \* bound: the largest initial budget
    Score,            \* judge scores, after clamping
    KeepThreshold,    \* JudgePolicyConfig.keep_threshold
    Result,           \* what the runtime may report of a step
    Fault,            \* the calls that may raise
    StopUnselected    \* OrchestratorConfig.stop_unselected_trajectories

ASSUME OrchestratorAssumption ==
    /\ Unsafe \subseteq Suggestion
    /\ MaxSuggestions \in Nat
    /\ MaxRounds \in Nat
    /\ Score \subseteq Nat
    /\ KeepThreshold \in Nat
    /\ Result \subseteq {"failed", "blank", "text", "image"}
    /\ Fault \subseteq {"root", "planner", "executor", "runtime", "judge"}
    /\ StopUnselected \in BOOLEAN

Root == <<>>
NoId == <<0 - 1>>     \* no trajectory: not a path of suggestions

Terminal == {"answered", "pruned", "failed", "stopped_early",
             "max_step_reached", "error"}
Status == {"running", "expanded"} \cup Terminal

VARIABLES
    dir, traj,        \* the store
    budget0,          \* the budget the run was given
    pc,               \* what the process does next
    frontier,         \* trajectories still to plan in this round
    contexts,         \* planned trajectories still to be dispatched
    chosen,           \* selected candidates still to be spawned
    parent,           \* refreshed_parent: the parent's record as read after registration
    created,          \* child_created
    child,            \* the child being executed
    outcome,          \* its runtime result
    verdict,          \* its judge score
    nextFrontier

disk == <<dir, traj>>
queue == <<frontier, contexts, chosen, nextFrontier>>
family == <<parent, created>>
execution == <<child, outcome, verdict>>
memory == <<pc, queue, family, execution>>
vars == <<disk, budget0, memory>>

Ended == {"done", "raised", "crashed"}

-----------------------------------------------------------------------------
(* Records and files. *)

Larger(a, b) == IF a > b THEN a ELSE b
Put(f, k, v) == [x \in DOMAIN f \cup {k} |-> IF x = k THEN v ELSE f[x]]

MessageKind == {"system_instruction", "user_question", "executor_step",
                "tool_result", "final_answer"}

\* messages.json after n steps: system and user, then a call and its result per step.
Transcript(n) ==
    [i \in 1..(2 + 2 * n) |->
        CASE i = 1 -> <<"system_instruction", 0>>
          [] i = 2 -> <<"user_question", 0>>
          [] i > 2 /\ i % 2 = 1 -> <<"executor_step", (i - 1) \div 2>>
          [] OTHER -> <<"tool_result", (i - 2) \div 2>>]

FinalAnswer == <<"final_answer", 0>>

EmptyDir == [plans |-> {}, results |-> <<>>, judges |-> <<>>, msgs |-> Transcript(0)]

\* judge_records is a list without repetitions that is read from its end: judged
\* is the set of its entries, lastJudged the last one.
NoRef == <<NoId, 0>>

NewRecord(b) ==
    [status |-> "running", budget |-> b, lastRound |-> -1, planned |-> {},
     steps |-> {}, step |-> 0, judged |-> {}, lastJudged |-> NoRef, pending |-> FALSE,
     err |-> "none", answered |-> FALSE]

NoRecord == NewRecord(0)

\* Bug: pending_execution survives a change of status.
Bug_KeepsPending(r, s) == [r EXCEPT !.status = s]

\* mark_trajectory_status: last_error is only ever overwritten, never cleared.
Marked(r, s) == [r EXCEPT !.status = s, !.pending = FALSE]
MarkedError(r, code) == [Marked(r, "error") EXCEPT !.err = code]

\* Bug: the child inherits its parent's budget.
Bug_SameBudget(p) ==
    [p EXCEPT !.status = "running", !.pending = TRUE, !.err = "none"]

\* init_child_trajectory: the parent's record with a record of its own fork.
ForkedRecord(p) ==
    [p EXCEPT !.status = "running", !.pending = TRUE, !.err = "none",
              !.budget = IF p.budget > 0 THEN p.budget - 1 ELSE 0]

\* An entry replaces the one of the same index.
Registered(refs, ref) == {x \in refs : x[2] # ref[2]} \cup {ref}

\* A record with one more step, or judge record.
Stepped(r, ref) ==
    [r EXCEPT !.steps = Registered(r.steps, ref), !.step = Larger(r.step, ref[2]),
              !.pending = FALSE]
Judged(r, ref) == [r EXCEPT !.judged = r.judged \cup {ref}, !.lastJudged = ref]

NextRound(r) == r.lastRound + 1
NextStep(r) == r.step + 1
HasLatestImage(t) ==
    /\ traj[t].step > 0
    /\ traj[t].step \in DOMAIN dir[t].results
    /\ dir[t].results[traj[t].step] = "image"

ScoreAt(ref) == dir[ref[1]].judges[ref[2]]

\* Bug: a missing record scores -1.
Bug_NegativeScore(t) ==
    IF traj[t].judged = {} THEN -1 ELSE ScoreAt(traj[t].lastJudged)

\* Bug: the records are searched from the oldest on.
Bug_OldestScore(t) ==
    LET refs == traj[t].judged
    IN  IF refs = {} THEN 0
        ELSE ScoreAt(CHOOSE r \in refs : \A q \in refs : r[2] <= q[2])

\* _load_parent_frontier_score: the score of the last judge record, 0 without one.
FrontierScore(t) == IF traj[t].judged = {} THEN 0 ELSE ScoreAt(traj[t].lastJudged)

\* What the planner may return: <<>> is a direct answer.
SuggestionLists == UNION {[1..n -> Suggestion] : n \in 0..MaxSuggestions}

ChildId(t, s) == Append(t, s)
Current == contexts[1]
OrdersOf(t) == {x.order : x \in {y \in chosen : y.id = t}}
-----------------------------------------------------------------------------
(* Starting. *)

\* Nothing is kept in memory.
Idle ==
    /\ frontier = <<>> /\ contexts = <<>> /\ chosen = {} /\ nextFrontier = <<>>
    /\ parent = NoRecord /\ created = FALSE /\ child = NoId
    /\ outcome = "none" /\ verdict = 0

Init ==
    /\ dir = <<>> /\ traj = <<>>
    /\ budget0 \in 0..MaxRounds
    /\ pc = "start"
    /\ Idle

Forget ==
    /\ frontier' = <<>> /\ contexts' = <<>> /\ chosen' = {} /\ nextFrontier' = <<>>
    /\ parent' = NoRecord /\ created' = FALSE /\ child' = NoId
    /\ outcome' = "none" /\ verdict' = 0
    /\ UNCHANGED <<disk, budget0>>

\* An exception leaves run(): what was in memory is gone.
Raise == pc' = "raised" /\ Forget

\* A root image is missing: raised before the trajectory's directory exists.
InitRootFails ==
    /\ pc = "start" /\ Root \notin DOMAIN dir
    /\ "root" \in Fault
    /\ Raise

\* init_root_trajectory refuses a sample that was already started.
InitRootRefused ==
    /\ pc = "start" /\ Root \in DOMAIN dir
    /\ Raise

InitRootFiles ==
    /\ pc = "start" /\ Root \notin DOMAIN dir
    /\ dir' = Put(dir, Root, EmptyDir)
    /\ pc' = "root"
    /\ UNCHANGED <<traj, budget0, queue, family, execution>>

InitRootRecord ==
    /\ pc = "root"
    /\ traj' = Put(traj, Root, NewRecord(budget0))
    /\ frontier' = <<Root>>
    /\ pc' = "plan"
    /\ UNCHANGED <<dir, budget0, contexts, chosen, family, execution, nextFrontier>>
-----------------------------------------------------------------------------
(* Planning the frontier. *)

Asked(t) == traj[t].status = "running" /\ traj[t].budget > 0

\* No longer running, or out of rounds: the planner is not asked.
SkipTrajectory ==
    LET t == frontier[1] IN
    /\ pc = "plan" /\ frontier # <<>>
    /\ ~Asked(t)
    /\ traj' = IF traj[t].status = "running"
               THEN [traj EXCEPT ![t] = Marked(@, "max_step_reached")]
               ELSE traj
    /\ frontier' = Tail(frontier)
    /\ UNCHANGED <<dir, budget0, pc, contexts, chosen, family, execution, nextFrontier>>

Plannable == pc = "plan" /\ frontier # <<>> /\ Asked(frontier[1])

PlannerFails ==
    /\ Plannable
    /\ "planner" \in Fault
    /\ traj' = [traj EXCEPT ![frontier[1]] = MarkedError(@, "planner_error")]
    /\ frontier' = Tail(frontier)
    /\ UNCHANGED <<dir, budget0, pc, contexts, chosen, family, execution, nextFrontier>>

\* The output stays in memory until the whole frontier has been planned.
PlanTrajectory ==
    LET t == frontier[1] IN
    /\ Plannable
    /\ \E sugg \in SuggestionLists :
          contexts' = Append(contexts, [id |-> t, sugg |-> sugg,
                                        score |-> FrontierScore(t),
                                        round |-> NextRound(traj[t])])
    /\ frontier' = Tail(frontier)
    /\ UNCHANGED <<disk, budget0, pc, chosen, family, execution, nextFrontier>>

SelectFrontier ==
    /\ pc = "plan" /\ frontier = <<>> /\ contexts # <<>>
    /\ chosen' = SelectCandidates(contexts)
    /\ pc' = "register"
    /\ UNCHANGED <<disk, budget0, frontier, contexts, family, execution, nextFrontier>>

\* Nothing was planned, or the frontier of the next round is empty.
Finish ==
    /\ pc = "plan" /\ frontier = <<>> /\ contexts = <<>>
    /\ pc' = "done"
    /\ UNCHANGED <<disk, budget0, queue, family, execution>>
-----------------------------------------------------------------------------
(* Dispatching one planned trajectory. *)

\* Bug: the round's file is left for later.
Bug_NoPlannerFile ==
    /\ pc = "register" /\ contexts # <<>>
    /\ pc' = "record"
    /\ UNCHANGED <<disk, budget0, queue, family, execution>>

\* register_planner_round, first write: planner/round_NNN.json.
SavePlannerOutput ==
    /\ pc = "register" /\ contexts # <<>>
    /\ dir' = [dir EXCEPT ![Current.id].plans = @ \cup {Current.round}]
    /\ pc' = "record"
    /\ UNCHANGED <<traj, budget0, queue, family, execution>>

\* Bug: an answer makes the trajectory terminal as the round is registered.
Bug_AnsweredEarly ==
    LET t == Current.id
        updated == [traj[t] EXCEPT
                       !.planned = Registered(@, <<t, Current.round>>),
                       !.lastRound = Current.round,
                       !.status = IF Current.sugg = <<>> THEN "answered" ELSE @,
                       !.answered = @ \/ Current.sugg = <<>>]
    IN
    /\ pc = "record"
    /\ traj' = [traj EXCEPT ![t] = updated]
    /\ parent' = updated
    /\ created' = FALSE
    /\ pc' = IF Current.sugg = <<>> THEN "answer" ELSE "spawn"
    /\ UNCHANGED <<dir, budget0, queue, execution>>

\* register_planner_round, second write; the record it returns is the copy
\* every later test of this parent reads.
RegisterPlannerRound ==
    LET t == Current.id
        updated == [traj[t] EXCEPT
                       !.planned = Registered(@, <<t, Current.round>>),
                       !.lastRound = Current.round,
                       !.pending = FALSE,
                       !.answered = @ \/ Current.sugg = <<>>]
    IN
    /\ pc = "record"
    /\ traj' = [traj EXCEPT ![t] = updated]
    /\ parent' = updated
    /\ created' = FALSE
    /\ pc' = IF Current.sugg = <<>> THEN "answer" ELSE "spawn"
    /\ UNCHANGED <<dir, budget0, queue, execution>>

AppendFinalAnswer ==
    /\ pc = "answer"
    /\ dir' = [dir EXCEPT ![Current.id].msgs = Append(@, FinalAnswer)]
    /\ pc' = "answered"
    /\ UNCHANGED <<traj, budget0, queue, family, execution>>

MarkAnswered ==
    /\ pc = "answered"
    /\ traj' = [traj EXCEPT ![Current.id] = Marked(@, "answered")]
    /\ contexts' = Tail(contexts)
    /\ pc' = "register"
    /\ UNCHANGED <<dir, budget0, frontier, chosen, family, execution, nextFrontier>>

-----------------------------------------------------------------------------
(* Spawning the selected children of one parent, in suggestion order. *)

NextCandidate == CHOOSE x \in chosen :
    /\ x.id = Current.id
    /\ \A k \in OrdersOf(Current.id) : x.order <= k
NextSuggestion == NextCandidate.suggestion
NextChild == ChildId(Current.id, NextSuggestion)

\* Bug: an existing directory is used again (exist_ok).
Bug_Overwrites == NextSuggestion \notin Unsafe

\* No path separator in the id, and no directory of that name.
Spawnable == NextSuggestion \notin Unsafe /\ NextChild \notin DOMAIN dir

MoreToSpawn == pc = "spawn" /\ OrdersOf(Current.id) # {}

\* Bug: the failed candidate is tried again.
Bug_Retries ==
    /\ MoreToSpawn
    /\ ~Spawnable
    /\ traj' = [traj EXCEPT ![Current.id] = MarkedError(@, "child_init_error")]
    /\ UNCHANGED <<dir, budget0, pc, queue, family, execution>>

\* Bug: child_created is reset by a failed fork.
Bug_ForgetsChild ==
    /\ MoreToSpawn
    /\ ~Spawnable
    /\ traj' = [traj EXCEPT ![Current.id] = MarkedError(@, "child_init_error")]
    /\ chosen' = chosen \ {NextCandidate}
    /\ created' = FALSE
    /\ UNCHANGED <<dir, budget0, pc, frontier, contexts, parent, execution, nextFrontier>>

\* The error is written to disk only: `parent` still says running.
SpawnFails ==
    /\ MoreToSpawn
    /\ ~Spawnable
    /\ traj' = [traj EXCEPT ![Current.id] = MarkedError(@, "child_init_error")]
    /\ chosen' = chosen \ {NextCandidate}
    /\ UNCHANGED <<dir, budget0, pc, frontier, contexts, family, execution, nextFrontier>>

\* Bug: the child starts a conversation of its own.
Bug_FreshMessages ==
    /\ MoreToSpawn
    /\ Spawnable
    /\ dir' = Put(dir, NextChild, [dir[Current.id] EXCEPT !.msgs = Transcript(0)])
    /\ child' = NextChild
    /\ pc' = "child"
    /\ UNCHANGED <<traj, budget0, queue, family, outcome, verdict>>

\* init_child_trajectory up to messages.json: the parent's files are copied.
SpawnFiles ==
    /\ MoreToSpawn
    /\ Spawnable
    /\ dir' = Put(dir, NextChild, dir[Current.id])
    /\ child' = NextChild
    /\ pc' = "child"
    /\ UNCHANGED <<traj, budget0, queue, family, outcome, verdict>>

\* Its last write, trajectory.json, from the parent's record in memory.
SpawnRecord ==
    /\ pc = "child"
    /\ traj' = Put(traj, child, ForkedRecord(parent))
    /\ chosen' = chosen \ {NextCandidate}
    /\ created' = TRUE
    /\ pc' = "execute"
    /\ UNCHANGED <<dir, budget0, frontier, contexts, parent, execution, nextFrontier>>

\* _finalize_unselected_parent.
FinalizeUnselected(t) ==
    IF StopUnselected THEN [traj EXCEPT ![t] = Marked(@, "stopped_early")] ELSE traj

\* Bug: a parent with children is left as it is.
Bug_NotExpanded ==
    /\ pc = "spawn" /\ OrdersOf(Current.id) = {}
    /\ traj' = IF ~created /\ parent.status = "running"
               THEN FinalizeUnselected(Current.id) ELSE traj
    /\ contexts' = Tail(contexts)
    /\ pc' = "register"
    /\ UNCHANGED <<dir, budget0, frontier, chosen, family, execution, nextFrontier>>

\* mark_trajectory_expanded; with no child, the test is of the copy in memory.
\* A parent none of whose suggestions was selected ends here too: its copy
\* was taken a moment ago and is running.
CloseParent ==
    LET t == Current.id IN
    /\ pc = "spawn" /\ OrdersOf(t) = {}
    /\ traj' = IF created THEN [traj EXCEPT ![t] = Marked(@, "expanded")]
               ELSE IF parent.status = "running" THEN FinalizeUnselected(t)
               ELSE traj
    /\ contexts' = Tail(contexts)
    /\ pc' = "register"
    /\ UNCHANGED <<dir, budget0, frontier, chosen, family, execution, nextFrontier>>

StartNextRound ==
    /\ pc = "register" /\ contexts = <<>>
    /\ frontier' = nextFrontier
    /\ nextFrontier' = <<>>
    /\ parent' = NoRecord /\ created' = FALSE
    /\ pc' = "plan"
    /\ UNCHANGED <<disk, budget0, contexts, chosen, execution>>
-----------------------------------------------------------------------------
(* Executing the first step of the child's suggestion. *)

\* The child is finished with: back to its parent's next candidate.
LeaveChild ==
    /\ child' = NoId /\ outcome' = "none" /\ verdict' = 0
    /\ pc' = "spawn"

ChildError(code) ==
    /\ traj' = [traj EXCEPT ![child] = MarkedError(@, code)]
    /\ LeaveChild
    /\ UNCHANGED <<dir, budget0, queue, family>>

\* input_image = "current" without a previous image: _resolve_runtime_input
\* raises outside every try, and run() ends with the exception.
ResolveInputFails ==
    /\ pc = "execute"
    /\ ~HasLatestImage(child)
    /\ Raise

ExecutorFails == pc = "execute" /\ "executor" \in Fault /\ ChildError("executor_error")

RunExecutor ==
    /\ pc = "execute"
    /\ pc' = "runtime"
    /\ UNCHANGED <<disk, budget0, queue, family, execution>>

\* The wrapper raises, or what it has already written is refused
\* (ExecutorRuntimeResult.from_dict).
RuntimeFails ==
    pc \in {"runtime", "messages"} /\ "runtime" \in Fault /\ ChildError("runtime_error")

\* The wrapper writes runtime_result.json into the step's directory.
RunRuntime ==
    /\ pc = "runtime"
    /\ \E r \in Result :
          /\ outcome' = r
          /\ dir' = [dir EXCEPT ![child].results = Put(@, NextStep(traj[child]), r)]
    /\ pc' = "messages"
    /\ UNCHANGED <<traj, budget0, queue, family, child, verdict>>

AppendStepMessages ==
    LET n == NextStep(traj[child]) IN
    /\ pc = "messages"
    /\ dir' = [dir EXCEPT ![child].msgs =
                  @ \o <<<<"executor_step", n>>, <<"tool_result", n>>>>]
    /\ pc' = "step"
    /\ UNCHANGED <<traj, budget0, queue, family, execution>>

RegisterStepRecord ==
    LET n == NextStep(traj[child]) IN
    /\ pc = "step"
    /\ traj' = [traj EXCEPT ![child] = Stepped(@, <<child, n>>)]
    /\ pc' = "judge"
    /\ UNCHANGED <<dir, budget0, queue, family, execution>>

JudgeFails == pc = "judge" /\ "judge" \in Fault /\ ChildError("judge_error")

\* register_judge_record, first write: the judge's own file.
SaveJudgeRecord ==
    /\ pc = "judge"
    /\ \E s \in Score :
          /\ verdict' = s
          /\ dir' = [dir EXCEPT ![child].judges = Put(@, traj[child].step, s)]
    /\ pc' = "judged"
    /\ UNCHANGED <<traj, budget0, queue, family, child, outcome>>

RegisterJudgeRecord ==
    LET ref == <<child, traj[child].step>> IN
    /\ pc = "judged"
    /\ traj' = [traj EXCEPT ![child] = Judged(@, ref)]
    /\ pc' = "finalize"
    /\ UNCHANGED <<dir, budget0, queue, family, execution>>

\* _finalize_child_after_step.
StatusAfterStep ==
    IF outcome = "failed" THEN "failed"
    ELSE IF outcome = "blank" THEN "pruned"
    ELSE IF verdict < KeepThreshold THEN "pruned"
    ELSE IF traj[child].budget <= 0 THEN "max_step_reached"
    ELSE "running"

FinalizeChild ==
    /\ pc = "finalize"
    /\ traj' = [traj EXCEPT ![child] = Marked(@, StatusAfterStep)]
    /\ nextFrontier' = IF StatusAfterStep = "running"
                       THEN Append(nextFrontier, child) ELSE nextFrontier
    /\ LeaveChild
    /\ UNCHANGED <<dir, budget0, frontier, contexts, chosen, family>>
-----------------------------------------------------------------------------
(* The process. *)

Crash == pc \notin Ended /\ pc' = "crashed" /\ Forget

\* The same sample is given to a new process.
Rerun == pc \in Ended /\ pc' = "start" /\ Forget

Step ==
    \/ InitRootFails \/ InitRootRefused \/ InitRootFiles \/ InitRootRecord
    \/ SkipTrajectory \/ PlannerFails \/ PlanTrajectory \/ SelectFrontier \/ Finish
    \/ SavePlannerOutput \/ RegisterPlannerRound \/ AppendFinalAnswer
    \/ MarkAnswered
    \/ SpawnFails \/ SpawnFiles \/ SpawnRecord \/ CloseParent \/ StartNextRound
    \/ ResolveInputFails \/ ExecutorFails \/ RunExecutor \/ RuntimeFails
    \/ RunRuntime \/ AppendStepMessages \/ RegisterStepRecord
    \/ JudgeFails \/ SaveJudgeRecord \/ RegisterJudgeRecord \/ FinalizeChild

Next == Step \/ Crash \/ Rerun

Spec == Init /\ [][Next]_vars

\* A live process keeps executing; nobody is obliged to crash or to restart it.
FairSpec == Spec /\ WF_vars(Step)
-----------------------------------------------------------------------------
(* Correctness. *)

Record ==
    [status : Status, budget : Nat, lastRound : {-1} \cup Nat,
     planned : SUBSET (TrajectoryId \X Nat), steps : SUBSET (TrajectoryId \X Nat),
     step : Nat, judged : SUBSET (TrajectoryId \X Nat),
     lastJudged : (TrajectoryId \cup {NoId}) \X Nat, pending : BOOLEAN,
     err : {"none", "planner_error", "child_init_error", "executor_error",
            "runtime_error", "judge_error"},
     answered : BOOLEAN]

Context == [id : TrajectoryId, sugg : Seq(Suggestion), score : Nat, round : Nat]

Candidate ==
    [id : TrajectoryId, order : 1..MAX_PLANNER_SUGGESTIONS, score : Nat,
     suggestion : Suggestion]

IsDirectory(d) ==
    /\ DOMAIN d = {"plans", "results", "judges", "msgs"}
    /\ d.plans \subseteq Nat
    /\ DOMAIN d.results \subseteq Nat /\ \A n \in DOMAIN d.results : d.results[n] \in Result
    /\ DOMAIN d.judges \subseteq Nat /\ \A n \in DOMAIN d.judges : d.judges[n] \in Score
    /\ d.msgs \in Seq(MessageKind \X Nat)

\* Every variable has its type.
TypeOK ==
    /\ DOMAIN dir \subseteq TrajectoryId /\ \A t \in DOMAIN dir : IsDirectory(dir[t])
    /\ DOMAIN traj \subseteq TrajectoryId /\ \A t \in DOMAIN traj : traj[t] \in Record
    /\ budget0 \in Nat
    /\ pc \in {"start", "root", "plan", "register", "record", "answer", "answered",
               "spawn", "child", "execute", "runtime", "messages", "step", "judge",
               "judged", "finalize"} \cup Ended
    /\ frontier \in Seq(TrajectoryId) /\ nextFrontier \in Seq(TrajectoryId)
    /\ contexts \in Seq(Context)
    /\ chosen \subseteq Candidate
    /\ parent \in Record /\ created \in BOOLEAN
    /\ child \in TrajectoryId \cup {NoId}
    /\ outcome \in Result \cup {"none"} /\ verdict \in Score \cup {0}

HasChild(t) == \E s \in Suggestion : Append(t, s) \in DOMAIN traj

\* Whatever trajectory.json refers to exists, also after a crash between any two
\* writes: planner rounds, runtime results and judge records are on disk before
\* register_planner_round, register_step_record and register_judge_record name
\* them, and a child's directory is filled before its trajectory.json appears.
FilesBeforeReferences ==
    /\ DOMAIN traj \subseteq DOMAIN dir
    /\ \A t \in DOMAIN traj :
          /\ \A r \in traj[t].planned : r[1] \in DOMAIN dir /\ r[2] \in dir[r[1]].plans
          /\ \A r \in traj[t].steps :
                r[1] \in DOMAIN dir /\ r[2] \in DOMAIN dir[r[1]].results
          /\ \A r \in traj[t].judged :
                r[1] \in DOMAIN dir /\ r[2] \in DOMAIN dir[r[1]].judges

\* The store has its form and holds together.
StoreIsSound == TypeOK /\ FilesBeforeReferences

\* messages.json tells exactly the registered steps.  It may run ahead of
\* trajectory.json by one step, only while that step is still pending, or by the
\* final answer, only while the trajectory is still running; an answered
\* trajectory ends with its answer.
TranscriptMatchesSteps ==
    \A t \in DOMAIN traj :
        LET n == traj[t].step
            m == dir[t].msgs
        IN  \/ m = Transcript(n) /\ traj[t].status # "answered"
            \/ /\ m = Append(Transcript(n), FinalAnswer)
               /\ traj[t].answered /\ traj[t].status \in {"running", "answered"}
            \/ m = Transcript(n + 1) /\ traj[t].status = "running" /\ traj[t].pending

\* A child gets one round less than its parent and executes one step, so depth,
\* rounds planned, steps executed and budget spent go together in every
\* trajectory; only one whose own execution was interrupted or failed is short
\* of its last step.
BudgetMeasuresDepth ==
    \A t \in DOMAIN traj :
        /\ traj[t].budget = budget0 - Len(t)
        /\ traj[t].lastRound \in {Len(t) - 1, Len(t)}
        /\ traj[t].step \in {Len(t) - 1, Len(t)}
        /\ traj[t].step # Len(t) =>
              \/ traj[t].pending /\ traj[t].status = "running"
              \/ traj[t].err \in {"executor_error", "runtime_error"}
        /\ {r[2] : r \in traj[t].steps} = 1..traj[t].step

\* At most one trajectory has a pending execution, and it is a running leaf: what
\* a crashed run leaves behind names the one step that was cut short.
AtMostOnePending ==
    \A t \in DOMAIN traj : traj[t].pending =>
        /\ traj[t].status = "running" /\ ~HasChild(t)
        /\ \A u \in DOMAIN traj : traj[u].pending => u = t

\* What a killed run leaves tells how far it got: the transcript and the one pending
\* execution say which step was cut short.
CrashConsistent == TranscriptMatchesSteps /\ AtMostOnePending

\* The beam never drops a whole parent: no more trajectories are planned in a
\* round than may be spawned in it, so each keeps at least its first suggestion
\* before any keeps a second, and at most MaxChild children are spawned
\* (_select_frontier_candidates; docs/16, section 11). Hence the loop stops a parent
\* early only when none of its children could be created.
BeamKeepsEveryParent ==
    /\ Len(nextFrontier) <= MaxChild
    /\ pc = "plan" => Len(frontier) + Len(contexts) <= MaxChild
    /\ Cardinality(chosen) <= MaxChild
    /\ pc = "record" /\ Current.sugg # <<>> => OrdersOf(Current.id) # {}
    /\ \A t \in DOMAIN traj : traj[t].status = "stopped_early" =>
          traj[t].err = "child_init_error" /\ ~HasChild(t)

\* A parent competes with the judge's score of its own last step, which passed
\* the threshold, and never with one inherited from an ancestor.
RankedByOwnStep ==
    \A i \in DOMAIN contexts :
        LET c == contexts[i] IN
        c.score = IF c.id = Root THEN 0 ELSE dir[c.id].judges[Len(c.id)]

\* When the loop ends normally the whole store is settled: nothing is running or
\* pending, no directory lacks its trajectory.json, and the trajectories with
\* children are exactly the expanded ones (the tests' empty running_trajectory_ids).
SettledWhenDone ==
    pc = "done" =>
        /\ DOMAIN dir = DOMAIN traj
        /\ \A t \in DOMAIN traj :
              /\ traj[t].status # "running" /\ ~traj[t].pending
              /\ HasChild(t) <=> traj[t].status = "expanded"

\* A trajectory that reached a terminal status, other than through a failed fork,
\* is never written again: not its record, not its files.
TerminalIsFinal ==
    [][\A t \in DOMAIN traj :
          traj[t].status \in Terminal /\ traj[t].err # "child_init_error" =>
              traj'[t] = traj[t] /\ dir'[t] = dir[t]]_vars

\* A process that is not killed finishes: it returns or raises.
RunEnds == (pc = "start") ~> (pc \in Ended)

\* The loop implements the tree.  A parent that a failed fork marked "error" is
\* still open: the loop goes on forking and then expands or stops it.
OpenStatus(r) ==
    CASE r.status = "running" \/ (r.status = "error" /\ r.err = "child_init_error") -> "open"
      [] r.status = "expanded" -> "inner"
      [] OTHER -> "closed"

Tree == INSTANCE TrajectoryTree WITH
            tree <- [t \in DOMAIN traj |-> OpenStatus(traj[t])],
            depth <- budget0

ImplementsTree == Tree!Spec

\* docs/8, 8.2 lists "error" among the final statuses.
ErrorIsFinal ==
    [][\A t \in DOMAIN traj : traj[t].status = "error" => traj'[t].status = "error"]_vars
=============================================================================
