------------------------- MODULE OrchestratorProofs -------------------------
(***************************************************************************)
(* Theorems about the branching loop, in three parts.                      *)
(*                                                                         *)
(* 1. Its types, and the order in which it writes the store.               *)
(* FilesBeforeReferences is not inductive alone.  What has to be added is  *)
(* where the trajectories named in memory live, that the parent's record   *)
(* held in memory refers to existing files too (a child inherits it), and  *)
(* what the first of two writes has already put on disk before the second. *)
(*                                                                         *)
(* 2. The shape of what it stores: it is the tree of TrajectoryTree, and a *)
(* trajectory that was closed stays as it is.  Both rest on one fact about *)
(* the loop's memory: the trajectories it still holds are pairwise         *)
(* different running leaves, all but the one that is being forked, which   *)
(* is open and whose children child_created counts.  Then, what each       *)
(* record tells of its depth, and each transcript of its record, whenever  *)
(* the process dies.                                                       *)
(*                                                                         *)
(* 3. What it selects and what it leaves.  The candidates of one round are *)
(* strictly ordered by the sort key, so no more than MaxChild are kept and *)
(* every planned trajectory is served once before any is served twice.  A  *)
(* round plans no more than MaxChild trajectories, therefore each of them  *)
(* has a candidate until it is dispatched, and only failed forks leave it  *)
(* without a child.  What is still to be planned was judged last by its    *)
(* own step, and a run that returns has settled every record.              *)
(***************************************************************************)
EXTENDS Orchestrator, SequenceTheorems, FiniteSetTheorems, WellFoundedInduction, TLAPS

-----------------------------------------------------------------------------
(* 1. Types, and the order of writes. *)

Executing == {"execute", "runtime", "messages", "step", "judge", "judged", "finalize"}
Spawning == {"spawn", "child"} \cup Executing
Dispatching == {"record", "answer", "answered"} \cup Spawning

\* Everything r refers to is in the directories d.
Referenced(r, d) ==
    /\ \A p \in r.planned : p[1] \in DOMAIN d /\ p[2] \in d[p[1]].plans
    /\ \A p \in r.steps : p[1] \in DOMAIN d /\ p[2] \in DOMAIN d[p[1]].results
    /\ \A p \in r.judged : p[1] \in DOMAIN d /\ p[2] \in DOMAIN d[p[1]].judges
    /\ r.judged # {} => r.lastJudged \in r.judged

\* No file of d is missing in e.
Grows(d, e) ==
    \A t \in DOMAIN d :
        /\ t \in DOMAIN e
        /\ d[t].plans \subseteq e[t].plans
        /\ DOMAIN d[t].results \subseteq DOMAIN e[t].results
        /\ DOMAIN d[t].judges \subseteq DOMAIN e[t].judges

\* Where the trajectories named in memory are found on disk.
Places ==
    /\ DOMAIN traj \subseteq DOMAIN dir
    /\ \A i \in DOMAIN frontier : frontier[i] \in DOMAIN traj
    /\ \A i \in DOMAIN nextFrontier : nextFrontier[i] \in DOMAIN traj
    /\ \A i \in DOMAIN contexts : contexts[i].id \in DOMAIN traj
    /\ pc \in Dispatching => contexts # <<>>
    /\ pc = "root" => Root \in DOMAIN dir
    /\ pc = "child" => child \in DOMAIN dir
    /\ pc \in Executing => child \in DOMAIN traj

\* Every record on disk, and the one in memory a child will inherit.
References ==
    /\ \A t \in DOMAIN traj : Referenced(traj[t], dir)
    /\ Referenced(parent, dir)

\* Between the two writes of one registration.
FirstWrites ==
    /\ pc = "record" => Current.round \in dir[Current.id].plans
    /\ pc \in {"messages", "step"} =>
          NextStep(traj[child]) \in DOMAIN dir[child].results
    /\ pc = "judged" => traj[child].step \in DOMAIN dir[child].judges

IInv == TypeOK /\ Places /\ References /\ FirstWrites
-----------------------------------------------------------------------------
(* Operators. *)

\* References outlive every growth of the store.
LEMMA ReferencedGrows ==
    ASSUME NEW r, NEW d, NEW e, Referenced(r, d), Grows(d, e)
    PROVE  Referenced(r, e)
BY DEF Referenced, Grows

\* A change of status changes no reference.
LEMMA MarkedRecord ==
    ASSUME NEW r \in Record, NEW s \in Status
    PROVE  /\ Marked(r, s) \in Record
           /\ \A d : Referenced(r, d) => Referenced(Marked(r, s), d)
           /\ Marked(r, s).step = r.step
<1>1. Marked(r, s) \in Record
  BY DEF Record, Marked
<1>2. /\ Marked(r, s).planned = r.planned
      /\ Marked(r, s).steps = r.steps
      /\ Marked(r, s).judged = r.judged
      /\ Marked(r, s).lastJudged = r.lastJudged
      /\ Marked(r, s).step = r.step
  BY DEF Record, Marked
<1>. QED
  BY <1>1, <1>2 DEF Referenced

\* Nor does an error.
LEMMA MarkedErrorRecord ==
    ASSUME NEW r \in Record,
           NEW c \in {"planner_error", "child_init_error", "executor_error",
                      "runtime_error", "judge_error"}
    PROVE  /\ MarkedError(r, c) \in Record
           /\ \A d : Referenced(r, d) => Referenced(MarkedError(r, c), d)
<1>1. MarkedError(r, c) \in Record
  BY DEF Record, Marked, MarkedError, Status, Terminal
<1>2. /\ MarkedError(r, c).planned = r.planned
      /\ MarkedError(r, c).steps = r.steps
      /\ MarkedError(r, c).judged = r.judged
      /\ MarkedError(r, c).lastJudged = r.lastJudged
  BY DEF Record, Marked, MarkedError
<1>. QED
  BY <1>1, <1>2 DEF Referenced

\* A child starts with its parent's references.
LEMMA ForkedRecordType ==
    ASSUME NEW r \in Record
    PROVE  /\ ForkedRecord(r) \in Record
           /\ \A d : Referenced(r, d) => Referenced(ForkedRecord(r), d)
<1>. DEFINE b == IF r.budget > 0 THEN r.budget - 1 ELSE 0
<1>b. b \in Nat
  BY DEF Record
<1>e. ForkedRecord(r) = [r EXCEPT !.status = "running", !.pending = TRUE,
                                  !.err = "none", !.budget = b]
  BY DEF ForkedRecord
<1>. HIDE DEF b
<1>1. ForkedRecord(r) \in Record
  BY <1>b, <1>e DEF Record, Status
<1>2. /\ ForkedRecord(r).planned = r.planned
      /\ ForkedRecord(r).steps = r.steps
      /\ ForkedRecord(r).judged = r.judged
      /\ ForkedRecord(r).lastJudged = r.lastJudged
  BY DEF Record, ForkedRecord
<1>. QED
  BY <1>1, <1>2 DEF Referenced

\* A new record refers to nothing.
LEMMA NewRecordType ==
    ASSUME NEW b \in Nat
    PROVE  NewRecord(b) \in Record /\ \A d : Referenced(NewRecord(b), d)
<1>1. NewRecord(b) \in Record
  BY DEF Record, NewRecord, NoRef, Status
<1>. QED
  BY <1>1 DEF NewRecord, Referenced

\* A transcript is a sequence of messages.
LEMMA TranscriptType ==
    ASSUME NEW n \in Nat
    PROVE  Transcript(n) \in Seq(MessageKind \X Nat)
<1>. DEFINE m(i) == CASE i = 1 -> <<"system_instruction", 0>>
                      [] i = 2 -> <<"user_question", 0>>
                      [] i > 2 /\ i % 2 = 1 -> <<"executor_step", (i - 1) \div 2>>
                      [] OTHER -> <<"tool_result", (i - 2) \div 2>>
<1>1. ASSUME NEW i \in 1..(2 + 2 * n)
      PROVE  m(i) \in MessageKind \X Nat
  <2>1. (i - 1) \div 2 \in Nat
    OBVIOUS
  <2>2. i # 1 => (i - 2) \div 2 \in Nat
    OBVIOUS
  <2>3. CASE i = 1
    BY <2>3 DEF MessageKind
  <2>4. CASE i = 2
    BY <2>4 DEF MessageKind
  <2>5. CASE i > 2
    BY <2>1, <2>2, <2>5 DEF MessageKind
  <2>. QED
    BY <2>3, <2>4, <2>5
<1>. DEFINE msgs == [i \in 1..(2 + 2 * n) |-> m(i)]
<1>2. Transcript(n) = msgs
  BY DEF Transcript
<1>. HIDE DEF m
<1>3. msgs \in [1..(2 + 2 * n) -> MessageKind \X Nat]
  BY <1>1
<1>4. 2 + 2 * n \in Nat
  OBVIOUS
<1>. HIDE DEF msgs
<1>5. msgs \in Seq(MessageKind \X Nat)
  BY <1>3, <1>4
<1>. QED
  BY <1>2, <1>5

\* Selection picks among the suggestions that were planned.
LEMMA SelectionType ==
    ASSUME NEW cs \in Seq(Context)
    PROVE  SelectCandidates(cs) \subseteq Candidate
<1>1. Candidates(cs) \subseteq Candidate
  <2>1. SUFFICES ASSUME NEW i \in DOMAIN cs, NEW k \in UsableOrders(cs[i])
                 PROVE  [id |-> cs[i].id, order |-> k, score |-> cs[i].score,
                         suggestion |-> cs[i].sugg[k]] \in Candidate
    BY DEF Candidates
  <2>2. cs[i] \in Context
    OBVIOUS
  <2>3. k \in 1..3 /\ k <= Len(cs[i].sugg)
    <3>1. EffectiveSuggestionCount \in 1..3
      BY SelectionAssumption DEF EffectiveSuggestionCount, Lesser, MAX_PLANNER_SUGGESTIONS
    <3>2. Len(cs[i].sugg) \in Nat
      BY <2>2 DEF Context
    <3>3. k \in 1..Lesser(Len(cs[i].sugg), EffectiveSuggestionCount)
      BY DEF UsableOrders
    <3>. QED
      BY <3>1, <3>2, <3>3 DEF Lesser
  <2>. QED
    BY <2>2, <2>3 DEF Context, Candidate, MAX_PLANNER_SUGGESTIONS
<1>. QED
  BY <1>1 DEF SelectCandidates, Top1, Remaining, Best

\* There is a first one among a parent's selected candidates.
LEMMA NextCandidateType ==
    ASSUME chosen \subseteq Candidate, OrdersOf(Current.id) # {}
    PROVE  /\ NextCandidate \in chosen
           /\ NextCandidate.id = Current.id
           /\ NextSuggestion \in Suggestion
<1>. DEFINE O == OrdersOf(Current.id)
<1>1. O \subseteq 1..3
  BY DEF OrdersOf, Candidate, MAX_PLANNER_SUGGESTIONS
<1>2. PICK n \in O : \A k \in O : n <= k
  BY <1>1
<1>3. PICK x \in chosen : x.id = Current.id /\ x.order = n
  BY <1>2 DEF OrdersOf
<1>4. NextCandidate \in chosen /\ NextCandidate.id = Current.id
  BY <1>2, <1>3 DEF NextCandidate
<1>. QED
  BY <1>4 DEF NextSuggestion, Candidate
-----------------------------------------------------------------------------
(* Effects that several actions share. *)

\* Nothing in memory: only the disk matters.
LEMMA ForgetStep ==
    ASSUME IInv, Forget, pc' \in Ended \cup {"start"}
    PROVE  IInv'
<1>. USE DEF Forget, disk, Ended
<1>1. TypeOK'
  <2>1. NoRecord \in Record
    BY NewRecordType DEF NoRecord
  <2>2. frontier' \in Seq(TrajectoryId) /\ nextFrontier' \in Seq(TrajectoryId)
    OBVIOUS
  <2>3. contexts' \in Seq(Context) /\ chosen' \subseteq Candidate
    OBVIOUS
  <2>4. child' \in TrajectoryId \cup {NoId} /\ outcome' \in Result \cup {"none"}
       /\ verdict' \in Score \cup {0}
    OBVIOUS
  <2>. QED
    BY <2>1, <2>2, <2>3, <2>4 DEF IInv, TypeOK
<1>2. Places'
  BY DEF IInv, Places, Dispatching, Spawning, Executing
<1>3. References'
  <2>1. Referenced(NoRecord, dir)
    BY NewRecordType DEF NoRecord
  <2>. QED
    BY <2>1 DEF IInv, References
<1>4. FirstWrites'
  BY DEF FirstWrites
<1>. QED
  BY <1>1, <1>2, <1>3, <1>4 DEF IInv

\* One directory of the store is replaced by one with more files.
LEMMA DirectoryStep ==
    ASSUME IInv, NEW t \in DOMAIN dir, NEW d,
           IsDirectory(d), dir' = [dir EXCEPT ![t] = d],
           dir[t].plans \subseteq d.plans,
           DOMAIN dir[t].results \subseteq DOMAIN d.results,
           DOMAIN dir[t].judges \subseteq DOMAIN d.judges
    PROVE  /\ DOMAIN dir' = DOMAIN dir /\ dir'[t] = d
           /\ \A u \in DOMAIN dir' : IsDirectory(dir'[u])
           /\ \A r : Referenced(r, dir) => Referenced(r, dir')
<1>1. DOMAIN dir' = DOMAIN dir /\ dir'[t] = d
  OBVIOUS
<1>2. \A u \in DOMAIN dir' : IsDirectory(dir'[u])
  BY DEF IInv, TypeOK
<1>3. Grows(dir, dir')
  BY DEF Grows
<1>. QED
  BY <1>1, <1>2, <1>3, ReferencedGrows

\* A directory is added to the store.
LEMMA NewDirectoryStep ==
    ASSUME IInv, NEW t, t \notin DOMAIN dir, NEW d, IsDirectory(d), dir' = Put(dir, t, d)
    PROVE  /\ DOMAIN dir' = DOMAIN dir \cup {t} /\ dir'[t] = d
           /\ \A u \in DOMAIN dir' : IsDirectory(dir'[u])
           /\ \A r : Referenced(r, dir) => Referenced(r, dir')
<1>1. /\ DOMAIN dir' = DOMAIN dir \cup {t} /\ dir'[t] = d
      /\ \A u \in DOMAIN dir : dir'[u] = dir[u]
  BY DEF Put
<1>2. \A u \in DOMAIN dir' : IsDirectory(dir'[u])
  BY <1>1 DEF IInv, TypeOK
<1>3. Grows(dir, dir')
  BY <1>1 DEF Grows
<1>. QED
  BY <1>1, <1>2, <1>3, ReferencedGrows

\* A record is added to the store.
LEMMA NewRecordStep ==
    ASSUME IInv, UNCHANGED dir, NEW t, NEW r \in Record,
           Referenced(r, dir), traj' = Put(traj, t, r)
    PROVE  /\ DOMAIN traj' = DOMAIN traj \cup {t} /\ traj'[t] = r
           /\ \A u \in DOMAIN traj' : traj'[u] \in Record
           /\ \A u \in DOMAIN traj' : Referenced(traj'[u], dir')
<1>1. /\ DOMAIN traj' = DOMAIN traj \cup {t} /\ traj'[t] = r
      /\ \A u \in DOMAIN traj : u # t => traj'[u] = traj[u]
  BY DEF Put
<1>. QED
  BY <1>1 DEF IInv, TypeOK, References

\* One record of the store is replaced; what it refers to is there.
LEMMA RecordStep ==
    ASSUME IInv, UNCHANGED dir, NEW t \in DOMAIN traj, NEW r \in Record,
           Referenced(r, dir), traj' = [traj EXCEPT ![t] = r]
    PROVE  /\ DOMAIN traj' = DOMAIN traj /\ traj'[t] = r
           /\ \A u \in DOMAIN traj' : traj'[u] \in Record
           /\ \A u \in DOMAIN traj' : Referenced(traj'[u], dir')
<1>1. DOMAIN traj' = DOMAIN traj /\ traj'[t] = r
  OBVIOUS
<1>2. \A u \in DOMAIN traj' : traj'[u] = IF u = t THEN r ELSE traj[u]
  OBVIOUS
<1>. QED
  BY <1>1, <1>2 DEF IInv, TypeOK, References
-----------------------------------------------------------------------------
(* The initial state and the steps. *)

LEMMA InitInv == Init => IInv
<1>. SUFFICES ASSUME Init PROVE IInv
  OBVIOUS
<1>. USE DEF Init, Idle
<1>1. TypeOK
  <2>1. NoRecord \in Record
    BY NewRecordType DEF NoRecord
  <2>2. budget0 \in Nat
    BY OrchestratorAssumption
  <2>3. frontier \in Seq(TrajectoryId) /\ nextFrontier \in Seq(TrajectoryId)
    OBVIOUS
  <2>4. contexts \in Seq(Context) /\ chosen \subseteq Candidate
    OBVIOUS
  <2>5. DOMAIN dir = {} /\ DOMAIN traj = {}
    OBVIOUS
  <2>. QED
    BY <2>1, <2>2, <2>3, <2>4, <2>5 DEF TypeOK
<1>2. Places
  BY DEF Places, Dispatching, Spawning, Executing
<1>3. References
  <2>1. Referenced(NoRecord, dir)
    BY NewRecordType DEF NoRecord
  <2>. QED
    BY <2>1 DEF References
<1>4. FirstWrites
  BY DEF FirstWrites
<1>. QED
  BY <1>1, <1>2, <1>3, <1>4 DEF IInv

\* A run starts, ends, or dies.
LEMMA ProcessSteps ==
    ASSUME IInv,
           \/ InitRootFails \/ InitRootRefused \/ ResolveInputFails \/ Crash \/ Rerun
    PROVE  IInv'
<1>1. Forget /\ pc' \in Ended \cup {"start"}
  BY DEF InitRootFails, InitRootRefused, ResolveInputFails, Crash, Rerun, Raise, Ended
<1>. QED
  BY <1>1, ForgetStep

\* The root's two writes.
LEMMA StartingSteps ==
    ASSUME IInv, InitRootFiles \/ InitRootRecord
    PROVE  IInv'
<1>. USE DEF disk, queue, family, execution
<1>r. Root \in TrajectoryId
  BY DEF Root, TrajectoryId
<1>1. CASE InitRootFiles
  <2>. USE <1>1 DEF InitRootFiles
  <2>1. IsDirectory(EmptyDir)
    BY TranscriptType DEF IsDirectory, EmptyDir
  <2>2. /\ DOMAIN dir' = DOMAIN dir \cup {Root}
        /\ \A u \in DOMAIN dir' : IsDirectory(dir'[u])
        /\ \A r : Referenced(r, dir) => Referenced(r, dir')
    BY <2>1, NewDirectoryStep
  <2>3. TypeOK'
    BY <1>r, <2>2 DEF IInv, TypeOK
  <2>4. Places'
    BY <2>2 DEF IInv, Places, Dispatching, Spawning, Executing
  <2>5. References'
    BY <2>2 DEF IInv, References
  <2>6. FirstWrites'
    BY DEF FirstWrites
  <2>. QED
    BY <2>3, <2>4, <2>5, <2>6 DEF IInv
<1>2. CASE InitRootRecord
  <2>. USE <1>2 DEF InitRootRecord
  <2>1. NewRecord(budget0) \in Record /\ Referenced(NewRecord(budget0), dir)
    BY NewRecordType DEF IInv, TypeOK
  <2>2. /\ DOMAIN traj' = DOMAIN traj \cup {Root}
        /\ \A u \in DOMAIN traj' : traj'[u] \in Record
        /\ \A u \in DOMAIN traj' : Referenced(traj'[u], dir')
    BY <2>1, NewRecordStep
  <2>3. frontier' \in Seq(TrajectoryId) /\ \A i \in DOMAIN frontier' : frontier'[i] = Root
    BY <1>r
  <2>4. TypeOK'
    BY <1>r, <2>2, <2>3 DEF IInv, TypeOK
  <2>5. Places'
    BY <2>2, <2>3 DEF IInv, Places, Dispatching, Spawning, Executing
  <2>6. References'
    BY <2>2 DEF IInv, References
  <2>7. FirstWrites'
    BY DEF FirstWrites
  <2>. QED
    BY <2>4, <2>5, <2>6, <2>7 DEF IInv
<1>. QED
  BY <1>1, <1>2

\* The score a context is given was read from a judge's file.
LEMMA FrontierScoreType ==
    ASSUME IInv, NEW t \in DOMAIN traj
    PROVE  FrontierScore(t) \in Nat
<1>. DEFINE last == traj[t].lastJudged
<1>1. CASE traj[t].judged = {}
  BY <1>1 DEF FrontierScore
<1>2. CASE traj[t].judged # {}
  <2>1. last[1] \in DOMAIN dir /\ last[2] \in DOMAIN dir[last[1]].judges
    BY <1>2 DEF IInv, References, Referenced
  <2>2. dir[last[1]].judges[last[2]] \in Score
    BY <2>1 DEF IInv, TypeOK, IsDirectory
  <2>. QED
    BY <1>2, <2>2, OrchestratorAssumption DEF FrontierScore, ScoreAt
<1>. QED
  BY <1>1, <1>2

\* The head of the frontier, and what is left of it.
LEMMA FrontierHead ==
    ASSUME IInv, frontier # <<>>
    PROVE  /\ frontier[1] \in DOMAIN traj /\ frontier[1] \in TrajectoryId
           /\ Tail(frontier) \in Seq(TrajectoryId)
           /\ \A i \in DOMAIN Tail(frontier) : Tail(frontier)[i] \in DOMAIN traj
<1>1. frontier \in Seq(TrajectoryId) /\ \A i \in DOMAIN frontier : frontier[i] \in DOMAIN traj
  BY DEF IInv, TypeOK, Places
<1>. QED
  BY <1>1

\* Going through the frontier.
LEMMA PlanningSteps ==
    ASSUME IInv,
           \/ SkipTrajectory \/ PlannerFails \/ PlanTrajectory \/ SelectFrontier \/ Finish
    PROVE  IInv'
<1>. USE DEF disk, queue, family, execution
<1>1. CASE SkipTrajectory \/ PlannerFails
  <2>. DEFINE t == frontier[1]
  <2>1. /\ pc = "plan" /\ frontier # <<>> /\ frontier' = Tail(frontier)
        /\ UNCHANGED <<dir, budget0, pc, contexts, chosen, family, execution, nextFrontier>>
    BY <1>1 DEF SkipTrajectory, PlannerFails, Plannable
  <2>2. t \in DOMAIN traj /\ traj[t] \in Record /\ Referenced(traj[t], dir)
    BY <2>1, FrontierHead DEF IInv, TypeOK, References
  <2>3. ASSUME NEW r \in Record, Referenced(r, dir), traj' = [traj EXCEPT ![t] = r]
        PROVE  /\ DOMAIN traj' = DOMAIN traj
               /\ \A u \in DOMAIN traj' : traj'[u] \in Record
               /\ \A u \in DOMAIN traj' : Referenced(traj'[u], dir')
    BY <2>1, <2>2, <2>3, RecordStep
  <2>4. /\ DOMAIN traj' = DOMAIN traj
        /\ \A u \in DOMAIN traj' : traj'[u] \in Record
        /\ \A u \in DOMAIN traj' : Referenced(traj'[u], dir')
    <3>1. CASE PlannerFails
      <4>1. traj' = [traj EXCEPT ![t] = MarkedError(traj[t], "planner_error")]
        BY <3>1 DEF PlannerFails
      <4>. QED
        BY <2>2, <2>3, <4>1, MarkedErrorRecord
    <3>2. CASE SkipTrajectory /\ traj[t].status = "running"
      <4>1. traj' = [traj EXCEPT ![t] = Marked(traj[t], "max_step_reached")]
        BY <3>2 DEF SkipTrajectory
      <4>. QED
        BY <2>2, <2>3, <4>1, MarkedRecord DEF Status, Terminal
    <3>3. CASE SkipTrajectory /\ traj[t].status # "running"
      <4>1. traj' = traj
        BY <3>3 DEF SkipTrajectory
      <4>. QED
        BY <2>1, <4>1 DEF IInv, TypeOK, References
    <3>. QED
      BY <1>1, <3>1, <3>2, <3>3
  <2>5. /\ frontier' \in Seq(TrajectoryId)
        /\ \A i \in DOMAIN frontier' : frontier'[i] \in DOMAIN traj
    BY <2>1, FrontierHead
  <2>6. TypeOK'
    BY <2>1, <2>4, <2>5 DEF IInv, TypeOK
  <2>7. Places'
    BY <2>1, <2>4, <2>5 DEF IInv, Places, Dispatching, Spawning, Executing
  <2>8. References'
    BY <2>1, <2>4 DEF IInv, References
  <2>9. FirstWrites'
    BY <2>1 DEF FirstWrites
  <2>. QED
    BY <2>6, <2>7, <2>8, <2>9 DEF IInv
<1>2. CASE PlanTrajectory
  <2>. DEFINE t == frontier[1]
  <2>1. /\ pc = "plan" /\ frontier # <<>> /\ frontier' = Tail(frontier)
        /\ UNCHANGED <<disk, budget0, pc, chosen, family, execution, nextFrontier>>
    BY <1>2 DEF PlanTrajectory, Plannable
  <2>2. PICK sugg \in SuggestionLists :
           contexts' = Append(contexts, [id |-> t, sugg |-> sugg,
                                         score |-> FrontierScore(t),
                                         round |-> NextRound(traj[t])])
    BY <1>2 DEF PlanTrajectory
  <2>. DEFINE c == [id |-> t, sugg |-> sugg, score |-> FrontierScore(t),
                    round |-> NextRound(traj[t])]
  <2>3. t \in DOMAIN traj /\ t \in TrajectoryId
    BY <2>1, FrontierHead
  <2>4. FrontierScore(t) \in Nat
    BY <2>3, FrontierScoreType
  <2>5. NextRound(traj[t]) \in Nat
    <3>1. traj[t] \in Record
      BY <2>3 DEF IInv, TypeOK
    <3>2. traj[t].lastRound \in {-1} \cup Nat
      BY <3>1 DEF Record
    <3>. QED
      BY <3>2 DEF NextRound
  <2>6. sugg \in Seq(Suggestion)
    BY OrchestratorAssumption DEF SuggestionLists
  <2>7. c \in Context
    BY <2>3, <2>4, <2>5, <2>6 DEF Context
  <2>8. contexts \in Seq(Context) /\ \A i \in DOMAIN contexts : contexts[i].id \in DOMAIN traj
    BY DEF IInv, TypeOK, Places
  <2>. HIDE DEF c
  <2>9. contexts' \in Seq(Context) /\ contexts' # <<>>
    BY <2>2, <2>7, <2>8 DEF c
  <2>10. \A i \in DOMAIN contexts' : contexts'[i].id \in DOMAIN traj
    <3>1. contexts' = Append(contexts, c) /\ c.id \in DOMAIN traj
      BY <2>2, <2>3 DEF c
    <3>. QED
      BY <2>7, <2>8, <3>1
  <2>11. /\ frontier' \in Seq(TrajectoryId)
         /\ \A i \in DOMAIN frontier' : frontier'[i] \in DOMAIN traj
    BY <2>1, FrontierHead
  <2>12. TypeOK'
    BY <2>1, <2>9, <2>11 DEF IInv, TypeOK
  <2>13. Places'
    BY <2>1, <2>9, <2>10, <2>11 DEF IInv, Places, Dispatching, Spawning, Executing
  <2>14. References'
    BY <2>1 DEF IInv, References
  <2>15. FirstWrites'
    BY <2>1 DEF FirstWrites
  <2>. QED
    BY <2>12, <2>13, <2>14, <2>15 DEF IInv
<1>3. CASE SelectFrontier
  <2>. USE <1>3 DEF SelectFrontier
  <2>1. chosen' \subseteq Candidate
    BY SelectionType DEF IInv, TypeOK
  <2>2. TypeOK'
    BY <2>1 DEF IInv, TypeOK
  <2>3. Places'
    BY DEF IInv, Places, Dispatching, Spawning, Executing
  <2>4. References' /\ FirstWrites'
    BY DEF IInv, References, FirstWrites
  <2>. QED
    BY <2>2, <2>3, <2>4 DEF IInv
<1>4. CASE Finish
  <2>. USE <1>4 DEF Finish
  <2>1. TypeOK'
    BY DEF IInv, TypeOK, Ended
  <2>2. Places'
    BY DEF IInv, Places, Dispatching, Spawning, Executing
  <2>3. References' /\ FirstWrites'
    BY DEF IInv, References, FirstWrites
  <2>. QED
    BY <2>1, <2>2, <2>3 DEF IInv
<1>. QED
  BY <1>1, <1>2, <1>3, <1>4

\* The context being dispatched, and those left after it.
LEMMA CurrentContext ==
    ASSUME IInv, contexts # <<>>
    PROVE  /\ Current \in Context
           /\ Current.id \in DOMAIN traj /\ Current.id \in DOMAIN dir
           /\ Current.id \in TrajectoryId /\ Current.round \in Nat
           /\ traj[Current.id] \in Record /\ Referenced(traj[Current.id], dir)
           /\ IsDirectory(dir[Current.id])
           /\ Tail(contexts) \in Seq(Context)
           /\ \A i \in DOMAIN Tail(contexts) : Tail(contexts)[i].id \in DOMAIN traj
<1>1. contexts \in Seq(Context) /\ \A i \in DOMAIN contexts : contexts[i].id \in DOMAIN traj
  BY DEF IInv, TypeOK, Places
<1>2. Current \in Context /\ Current.id \in DOMAIN traj
  BY <1>1 DEF Current
<1>3. Current.id \in TrajectoryId /\ Current.round \in Nat
  BY <1>2 DEF Context
<1>4. /\ Tail(contexts) \in Seq(Context)
      /\ \A i \in DOMAIN Tail(contexts) : Tail(contexts)[i].id \in DOMAIN traj
  BY <1>1
<1>. QED
  BY <1>2, <1>3, <1>4 DEF IInv, TypeOK, Places, References

\* Registering a planned round, and closing the trajectory that was planned.
LEMMA DispatchSteps ==
    ASSUME IInv,
           \/ SavePlannerOutput \/ RegisterPlannerRound \/ AppendFinalAnswer
           \/ MarkAnswered \/ CloseParent \/ StartNextRound
    PROVE  IInv'
<1>. USE DEF disk, queue, family, execution
<1>. DEFINE t == Current.id
<1>1. CASE SavePlannerOutput
  <2>. USE <1>1 DEF SavePlannerOutput
  <2>. DEFINE d == [dir[t] EXCEPT !.plans = dir[t].plans \cup {Current.round}]
  <2>1. /\ dir' = [dir EXCEPT ![t] = d]
        /\ t \in DOMAIN dir /\ IsDirectory(dir[t]) /\ Current.round \in Nat
    BY CurrentContext
  <2>2. IsDirectory(d)
    BY <2>1 DEF IsDirectory
  <2>3. /\ d.plans = dir[t].plans \cup {Current.round}
        /\ d.results = dir[t].results /\ d.judges = dir[t].judges
    BY <2>1 DEF IsDirectory
  <2>. HIDE DEF d
  <2>4. /\ DOMAIN dir' = DOMAIN dir /\ dir'[t] = d
        /\ \A u \in DOMAIN dir' : IsDirectory(dir'[u])
        /\ \A r : Referenced(r, dir) => Referenced(r, dir')
    BY <2>1, <2>2, <2>3, DirectoryStep
  <2>5. TypeOK'
    BY <2>4 DEF IInv, TypeOK
  <2>6. Places'
    BY <2>4 DEF IInv, Places, Dispatching, Spawning, Executing
  <2>7. References'
    BY <2>4 DEF IInv, References
  <2>8. FirstWrites'
    BY <2>3, <2>4 DEF FirstWrites, Current
  <2>. QED
    BY <2>5, <2>6, <2>7, <2>8 DEF IInv
<1>2. CASE RegisterPlannerRound
  <2>. USE <1>2 DEF RegisterPlannerRound
  <2>. DEFINE planned == Registered(traj[t].planned, <<t, Current.round>>)
              answered == traj[t].answered \/ Current.sugg = <<>>
              r == [traj[t] EXCEPT !.planned = planned, !.lastRound = Current.round,
                                   !.pending = FALSE, !.answered = answered]
  <2>1. contexts # <<>> /\ Current.round \in dir[t].plans
    BY DEF IInv, Places, FirstWrites, Dispatching
  <2>2. /\ t \in DOMAIN traj /\ t \in DOMAIN dir /\ t \in TrajectoryId
        /\ Current.round \in Nat /\ traj[t] \in Record /\ Referenced(traj[t], dir)
    BY <2>1, CurrentContext
  <2>3. traj' = [traj EXCEPT ![t] = r] /\ parent' = r
    OBVIOUS
  <2>4. r \in Record
    <3>1. planned \subseteq TrajectoryId \X Nat
      BY <2>2 DEF Record, Registered
    <3>2. answered \in BOOLEAN
      OBVIOUS
    <3>. HIDE DEF planned, answered
    <3>. QED
      BY <2>2, <3>1, <3>2 DEF Record
  <2>5. /\ r.planned = Registered(traj[t].planned, <<t, Current.round>>)
        /\ r.steps = traj[t].steps /\ r.judged = traj[t].judged
        /\ r.lastJudged = traj[t].lastJudged
    BY <2>2 DEF Record
  <2>. HIDE DEF r
  <2>6. Referenced(r, dir)
    BY <2>1, <2>2, <2>5 DEF Referenced, Registered
  <2>7. /\ DOMAIN traj' = DOMAIN traj
        /\ \A u \in DOMAIN traj' : traj'[u] \in Record
        /\ \A u \in DOMAIN traj' : Referenced(traj'[u], dir')
    BY <2>2, <2>3, <2>4, <2>6, RecordStep
  <2>8. TypeOK'
    BY <2>3, <2>4, <2>7 DEF IInv, TypeOK
  <2>9. Places'
    BY <2>1, <2>7 DEF IInv, Places, Dispatching, Spawning, Executing
  <2>10. References'
    BY <2>3, <2>6, <2>7 DEF IInv, References
  <2>11. FirstWrites'
    BY DEF FirstWrites
  <2>. QED
    BY <2>8, <2>9, <2>10, <2>11 DEF IInv
<1>3. CASE AppendFinalAnswer
  <2>. USE <1>3 DEF AppendFinalAnswer
  <2>. DEFINE d == [dir[t] EXCEPT !.msgs = Append(dir[t].msgs, FinalAnswer)]
  <2>1. /\ dir' = [dir EXCEPT ![t] = d] /\ contexts # <<>>
        /\ t \in DOMAIN dir /\ IsDirectory(dir[t])
    BY CurrentContext DEF IInv, Places, Dispatching
  <2>2. FinalAnswer \in MessageKind \X Nat
    BY DEF FinalAnswer, MessageKind
  <2>3. /\ DOMAIN d = DOMAIN dir[t] /\ d.plans = dir[t].plans
        /\ d.results = dir[t].results /\ d.judges = dir[t].judges
        /\ d.msgs = Append(dir[t].msgs, FinalAnswer)
    BY <2>1 DEF IsDirectory
  <2>. HIDE DEF d
  <2>4. IsDirectory(d)
    BY <2>1, <2>2, <2>3 DEF IsDirectory
  <2>5. /\ DOMAIN dir' = DOMAIN dir
        /\ \A u \in DOMAIN dir' : IsDirectory(dir'[u])
        /\ \A r : Referenced(r, dir) => Referenced(r, dir')
    BY <2>1, <2>3, <2>4, DirectoryStep
  <2>6. TypeOK'
    BY <2>5 DEF IInv, TypeOK
  <2>7. Places'
    BY <2>1, <2>5 DEF IInv, Places, Dispatching, Spawning, Executing
  <2>8. References'
    BY <2>5 DEF IInv, References
  <2>9. FirstWrites'
    BY DEF FirstWrites
  <2>. QED
    BY <2>6, <2>7, <2>8, <2>9 DEF IInv
<1>4. CASE MarkAnswered \/ CloseParent
  <2>1. /\ pc \in Dispatching /\ pc' = "register" /\ contexts' = Tail(contexts)
        /\ UNCHANGED <<dir, budget0, frontier, chosen, family, execution, nextFrontier>>
    BY <1>4 DEF MarkAnswered, CloseParent, Dispatching, Spawning
  <2>2. contexts # <<>>
    BY <2>1 DEF IInv, Places
  <2>3. /\ t \in DOMAIN traj /\ traj[t] \in Record /\ Referenced(traj[t], dir)
        /\ contexts' \in Seq(Context)
        /\ \A i \in DOMAIN contexts' : contexts'[i].id \in DOMAIN traj
    BY <2>1, <2>2, CurrentContext
  <2>4. \/ traj' = traj
        \/ \E s \in Status : traj' = [traj EXCEPT ![t] = Marked(traj[t], s)]
    BY <1>4 DEF MarkAnswered, CloseParent, FinalizeUnselected, Status, Terminal
  <2>5. /\ DOMAIN traj' = DOMAIN traj
        /\ \A u \in DOMAIN traj' : traj'[u] \in Record
        /\ \A u \in DOMAIN traj' : Referenced(traj'[u], dir')
    <3>1. CASE traj' = traj
      BY <2>1, <3>1 DEF IInv, TypeOK, References
    <3>2. ASSUME NEW s \in Status, traj' = [traj EXCEPT ![t] = Marked(traj[t], s)]
          PROVE  /\ DOMAIN traj' = DOMAIN traj
                 /\ \A u \in DOMAIN traj' : traj'[u] \in Record
                 /\ \A u \in DOMAIN traj' : Referenced(traj'[u], dir')
      BY <2>1, <2>3, <3>2, MarkedRecord, RecordStep
    <3>. QED
      BY <2>4, <3>1, <3>2
  <2>6. TypeOK'
    BY <2>1, <2>3, <2>5 DEF IInv, TypeOK
  <2>7. Places'
    BY <2>1, <2>3, <2>5 DEF IInv, Places, Dispatching, Spawning, Executing
  <2>8. References'
    BY <2>1, <2>5 DEF IInv, References
  <2>9. FirstWrites'
    BY <2>1 DEF FirstWrites
  <2>. QED
    BY <2>6, <2>7, <2>8, <2>9 DEF IInv
<1>5. CASE StartNextRound
  <2>. USE <1>5 DEF StartNextRound
  <2>1. NoRecord \in Record /\ Referenced(NoRecord, dir)
    BY NewRecordType DEF NoRecord
  <2>2. nextFrontier' \in Seq(TrajectoryId) /\ DOMAIN nextFrontier' = {}
    OBVIOUS
  <2>3. TypeOK'
    BY <2>1, <2>2 DEF IInv, TypeOK
  <2>4. Places'
    BY <2>2 DEF IInv, Places, Dispatching, Spawning, Executing
  <2>5. References' /\ FirstWrites'
    BY <2>1 DEF IInv, References, FirstWrites
  <2>. QED
    BY <2>3, <2>4, <2>5 DEF IInv
<1>. QED
  BY <1>1, <1>2, <1>3, <1>4, <1>5

\* Forking the parent.
LEMMA SpawnSteps ==
    ASSUME IInv, SpawnFails \/ SpawnFiles \/ SpawnRecord
    PROVE  IInv'
<1>. USE DEF disk, queue, family, execution
<1>. DEFINE t == Current.id
<1>1. contexts # <<>>
  BY DEF IInv, Places, Dispatching, Spawning, SpawnFails, SpawnFiles, SpawnRecord,
     MoreToSpawn
<1>2. /\ t \in DOMAIN traj /\ t \in TrajectoryId /\ IsDirectory(dir[t])
      /\ traj[t] \in Record /\ Referenced(traj[t], dir)
  BY <1>1, CurrentContext
<1>3. CASE SpawnFails
  <2>. USE <1>3 DEF SpawnFails
  <2>1. /\ MarkedError(traj[t], "child_init_error") \in Record
        /\ Referenced(MarkedError(traj[t], "child_init_error"), dir)
    BY <1>2, MarkedErrorRecord
  <2>2. /\ DOMAIN traj' = DOMAIN traj
        /\ \A u \in DOMAIN traj' : traj'[u] \in Record
        /\ \A u \in DOMAIN traj' : Referenced(traj'[u], dir')
    BY <1>2, <2>1, RecordStep
  <2>3. TypeOK'
    BY <2>2 DEF IInv, TypeOK
  <2>4. Places'
    BY <2>2 DEF IInv, Places, MoreToSpawn, Executing
  <2>5. References'
    BY <2>2 DEF IInv, References
  <2>6. FirstWrites'
    BY DEF FirstWrites, MoreToSpawn
  <2>. QED
    BY <2>3, <2>4, <2>5, <2>6 DEF IInv
<1>4. CASE SpawnFiles
  <2>. USE <1>4 DEF SpawnFiles
  <2>1. NextChild \notin DOMAIN dir
    BY DEF Spawnable
  <2>2. NextChild \in TrajectoryId
    <3>1. NextSuggestion \in Suggestion
      BY NextCandidateType DEF IInv, TypeOK, MoreToSpawn
    <3>. QED
      BY <1>2, <3>1 DEF NextChild, ChildId, TrajectoryId
  <2>3. /\ DOMAIN dir' = DOMAIN dir \cup {NextChild}
        /\ \A u \in DOMAIN dir' : IsDirectory(dir'[u])
        /\ \A r : Referenced(r, dir) => Referenced(r, dir')
    BY <1>2, <2>1, NewDirectoryStep
  <2>4. TypeOK'
    BY <2>2, <2>3 DEF IInv, TypeOK
  <2>5. Places'
    BY <1>1, <2>3 DEF IInv, Places, Executing
  <2>6. References'
    BY <2>3 DEF IInv, References
  <2>7. FirstWrites'
    BY DEF FirstWrites
  <2>. QED
    BY <2>4, <2>5, <2>6, <2>7 DEF IInv
<1>5. CASE SpawnRecord
  <2>. USE <1>5 DEF SpawnRecord
  <2>1. child \in DOMAIN dir /\ child \in TrajectoryId
    BY DEF IInv, TypeOK, Places
  <2>2. ForkedRecord(parent) \in Record /\ Referenced(ForkedRecord(parent), dir)
    BY ForkedRecordType DEF IInv, TypeOK, References
  <2>3. /\ DOMAIN traj' = DOMAIN traj \cup {child}
        /\ \A u \in DOMAIN traj' : traj'[u] \in Record
        /\ \A u \in DOMAIN traj' : Referenced(traj'[u], dir')
    BY <2>2, NewRecordStep
  <2>4. TypeOK'
    BY <2>1, <2>3 DEF IInv, TypeOK
  <2>5. Places'
    BY <1>1, <2>1, <2>3 DEF IInv, Places
  <2>6. References'
    BY <2>3 DEF IInv, References
  <2>7. FirstWrites'
    BY DEF FirstWrites
  <2>. QED
    BY <2>4, <2>5, <2>6, <2>7 DEF IInv
<1>. QED
  BY <1>3, <1>4, <1>5

\* A write to the child's record after which the child is still, or no longer,
\* being executed; what the record refers to is there.
LEMMA ChildRecordStep ==
    ASSUME IInv, pc \in Executing, NEW r \in Record, Referenced(r, dir),
           traj' = [traj EXCEPT ![child] = r],
           UNCHANGED <<dir, budget0, frontier, contexts, chosen, family>>,
           pc' \in {"spawn", "judge", "finalize"},
           pc' # "spawn" => UNCHANGED execution,
           pc' = "spawn" => child' = NoId /\ outcome' = "none" /\ verdict' = 0,
           nextFrontier' \in {nextFrontier, Append(nextFrontier, child)}
    PROVE  IInv'
<1>. USE DEF family, execution
<1>1. child \in DOMAIN traj /\ child \in TrajectoryId /\ contexts # <<>>
  BY DEF IInv, TypeOK, Places, Dispatching, Spawning
<1>2. /\ DOMAIN traj' = DOMAIN traj
      /\ \A u \in DOMAIN traj' : traj'[u] \in Record
      /\ \A u \in DOMAIN traj' : Referenced(traj'[u], dir')
  BY <1>1, RecordStep
<1>3. /\ nextFrontier' \in Seq(TrajectoryId)
      /\ \A i \in DOMAIN nextFrontier' : nextFrontier'[i] \in DOMAIN traj
  <2>1. /\ nextFrontier \in Seq(TrajectoryId)
        /\ \A i \in DOMAIN nextFrontier : nextFrontier[i] \in DOMAIN traj
    BY DEF IInv, TypeOK, Places
  <2>. QED
    BY <1>1, <2>1
<1>4. /\ child' \in TrajectoryId \cup {NoId} /\ outcome' \in Result \cup {"none"}
      /\ verdict' \in Score \cup {0}
  BY DEF IInv, TypeOK
<1>5. TypeOK'
  BY <1>2, <1>3, <1>4 DEF IInv, TypeOK
<1>6. Places'
  BY <1>1, <1>2, <1>3 DEF IInv, Places, Executing
<1>7. References'
  BY <1>2 DEF IInv, References
<1>8. FirstWrites'
  BY DEF FirstWrites
<1>. QED
  BY <1>5, <1>6, <1>7, <1>8 DEF IInv

\* Likewise for a write to the child's directory.
LEMMA ChildDirectoryStep ==
    ASSUME IInv, pc \in Executing, NEW d, IsDirectory(d),
           dir' = [dir EXCEPT ![child] = d],
           dir[child].plans \subseteq d.plans,
           DOMAIN dir[child].results \subseteq DOMAIN d.results,
           DOMAIN dir[child].judges \subseteq DOMAIN d.judges,
           UNCHANGED <<traj, budget0, queue, family, child>>,
           outcome' \in Result \cup {"none"}, verdict' \in Score \cup {0},
           pc' \in {"messages", "step", "judged"},
           pc' \in {"messages", "step"} => NextStep(traj[child]) \in DOMAIN d.results,
           pc' = "judged" => traj[child].step \in DOMAIN d.judges
    PROVE  IInv'
<1>. USE DEF queue, family
<1>1. child \in DOMAIN traj /\ child \in DOMAIN dir /\ contexts # <<>>
  BY DEF IInv, Places, Dispatching, Spawning
<1>2. /\ DOMAIN dir' = DOMAIN dir /\ dir'[child] = d
      /\ \A u \in DOMAIN dir' : IsDirectory(dir'[u])
      /\ \A r : Referenced(r, dir) => Referenced(r, dir')
  BY <1>1, DirectoryStep
<1>3. TypeOK'
  BY <1>2 DEF IInv, TypeOK
<1>4. Places'
  BY <1>1, <1>2 DEF IInv, Places, Executing
<1>5. References'
  BY <1>2 DEF IInv, References
<1>6. FirstWrites'
  BY <1>2 DEF FirstWrites, NextStep
<1>. QED
  BY <1>3, <1>4, <1>5, <1>6 DEF IInv

\* Executing one step of the child.
LEMMA ExecutionSteps ==
    ASSUME IInv,
           \/ ExecutorFails \/ RuntimeFails \/ JudgeFails \/ RunExecutor \/ RunRuntime
           \/ AppendStepMessages \/ RegisterStepRecord \/ SaveJudgeRecord
           \/ RegisterJudgeRecord \/ FinalizeChild
    PROVE  IInv'
<1>1. pc \in Executing
  BY DEF Executing, ExecutorFails, RuntimeFails, JudgeFails, RunExecutor, RunRuntime,
     AppendStepMessages, RegisterStepRecord, SaveJudgeRecord, RegisterJudgeRecord,
     FinalizeChild
<1>. DEFINE r == traj[child]
            n == NextStep(traj[child])
<1>2. /\ child \in DOMAIN traj /\ child \in DOMAIN dir /\ child \in TrajectoryId
      /\ r \in Record /\ Referenced(r, dir) /\ IsDirectory(dir[child])
      /\ r.step \in Nat /\ n \in Nat
  <2>1. /\ child \in DOMAIN traj /\ child \in DOMAIN dir /\ child \in TrajectoryId
        /\ r \in Record /\ Referenced(r, dir) /\ IsDirectory(dir[child])
    BY <1>1 DEF IInv, TypeOK, Places, References
  <2>2. r.step \in Nat
    BY <2>1 DEF Record
  <2>. QED
    BY <2>1, <2>2 DEF NextStep
<1>3. CASE ExecutorFails \/ RuntimeFails \/ JudgeFails
  <2>1. PICK c \in {"executor_error", "runtime_error", "judge_error"} : ChildError(c)
    BY <1>3 DEF ExecutorFails, RuntimeFails, JudgeFails
  <2>2. MarkedError(r, c) \in Record /\ Referenced(MarkedError(r, c), dir)
    BY <1>2, MarkedErrorRecord
  <2>. QED
    BY <1>1, <2>1, <2>2, ChildRecordStep DEF ChildError, LeaveChild, queue
<1>4. CASE RunExecutor
  <2>. USE <1>4 DEF RunExecutor, disk, queue, family, execution
  <2>1. TypeOK'
    BY DEF IInv, TypeOK
  <2>2. Places'
    BY DEF IInv, Places, Dispatching, Spawning, Executing
  <2>3. References' /\ FirstWrites'
    BY DEF IInv, References, FirstWrites
  <2>. QED
    BY <2>1, <2>2, <2>3 DEF IInv
<1>5. CASE RunRuntime
  <2>1. PICK x \in Result :
           /\ outcome' = x
           /\ dir' = [dir EXCEPT ![child] =
                         [dir[child] EXCEPT !.results = Put(dir[child].results, n, x)]]
    BY <1>5 DEF RunRuntime
  <2>. DEFINE results == Put(dir[child].results, n, x)
              d == [dir[child] EXCEPT !.results = results]
  <2>2. /\ DOMAIN results = DOMAIN dir[child].results \cup {n}
        /\ \A k \in DOMAIN results : results[k] \in Result
    BY <1>2 DEF Put, IsDirectory
  <2>. HIDE DEF results
  <2>3. /\ DOMAIN d = DOMAIN dir[child] /\ d.plans = dir[child].plans
        /\ d.results = results /\ d.judges = dir[child].judges
        /\ d.msgs = dir[child].msgs
    BY <1>2 DEF IsDirectory
  <2>4. dir' = [dir EXCEPT ![child] = d]
    BY <2>1 DEF results
  <2>. HIDE DEF d
  <2>5. IsDirectory(d)
    BY <1>2, <2>2, <2>3 DEF IsDirectory
  <2>6. /\ pc' = "messages" /\ verdict' = verdict
        /\ UNCHANGED <<traj, budget0, queue, family, child>>
    BY <1>5 DEF RunRuntime
  <2>7. verdict' \in Score \cup {0}
    BY <2>6 DEF IInv, TypeOK
  <2>. QED
    BY <1>1, <2>1, <2>2, <2>3, <2>4, <2>5, <2>6, <2>7, ChildDirectoryStep
<1>6. CASE AppendStepMessages
  <2>. DEFINE msgs == dir[child].msgs \o <<<<"executor_step", n>>, <<"tool_result", n>>>>
              d == [dir[child] EXCEPT !.msgs = msgs]
  <2>1. /\ pc = "messages" /\ pc' = "step" /\ dir' = [dir EXCEPT ![child] = d]
        /\ UNCHANGED <<traj, budget0, queue, family, execution>>
    BY <1>6 DEF AppendStepMessages
  <2>2. msgs \in Seq(MessageKind \X Nat)
    <3>1. <<<<"executor_step", n>>, <<"tool_result", n>>>> \in Seq(MessageKind \X Nat)
      BY <1>2 DEF MessageKind
    <3>2. dir[child].msgs \in Seq(MessageKind \X Nat)
      BY <1>2 DEF IsDirectory
    <3>. QED
      BY <3>1, <3>2
  <2>. HIDE DEF msgs
  <2>3. /\ DOMAIN d = DOMAIN dir[child] /\ d.plans = dir[child].plans
        /\ d.results = dir[child].results /\ d.judges = dir[child].judges
        /\ d.msgs = msgs
    BY <1>2 DEF IsDirectory
  <2>. HIDE DEF d
  <2>4. IsDirectory(d)
    BY <1>2, <2>2, <2>3 DEF IsDirectory
  <2>5. n \in DOMAIN d.results
    BY <2>1, <2>3 DEF IInv, FirstWrites
  <2>6. outcome' \in Result \cup {"none"} /\ verdict' \in Score \cup {0} /\ child' = child
    BY <2>1 DEF IInv, TypeOK, execution
  <2>. QED
    BY <1>1, <2>1, <2>3, <2>4, <2>5, <2>6, ChildDirectoryStep
<1>7. CASE RegisterStepRecord
  <2>. DEFINE steps == Registered(r.steps, <<child, n>>)
              q == [r EXCEPT !.steps = steps, !.step = Larger(r.step, n), !.pending = FALSE]
  <2>1. /\ pc = "step" /\ pc' = "judge" /\ traj' = [traj EXCEPT ![child] = q]
        /\ UNCHANGED <<dir, budget0, queue, family, execution>>
    BY <1>7 DEF RegisterStepRecord, Stepped
  <2>2. steps \subseteq TrajectoryId \X Nat /\ Larger(r.step, n) \in Nat
    BY <1>2 DEF Record, Registered, Larger
  <2>. HIDE DEF steps
  <2>3. q \in Record
    BY <1>2, <2>2 DEF Record
  <2>4. /\ q.planned = r.planned /\ q.steps = steps /\ q.judged = r.judged
        /\ q.lastJudged = r.lastJudged
    BY <1>2 DEF Record
  <2>. HIDE DEF q
  <2>5. n \in DOMAIN dir[child].results
    BY <2>1 DEF IInv, FirstWrites
  <2>6. Referenced(q, dir)
    BY <1>2, <2>4, <2>5 DEF Referenced, Registered, steps
  <2>. QED
    BY <1>1, <2>1, <2>3, <2>6, ChildRecordStep DEF queue
<1>8. CASE SaveJudgeRecord
  <2>1. PICK x \in Score :
           /\ verdict' = x
           /\ dir' = [dir EXCEPT ![child] =
                         [dir[child] EXCEPT !.judges = Put(dir[child].judges, r.step, x)]]
    BY <1>8 DEF SaveJudgeRecord
  <2>. DEFINE judges == Put(dir[child].judges, r.step, x)
              d == [dir[child] EXCEPT !.judges = judges]
  <2>2. /\ DOMAIN judges = DOMAIN dir[child].judges \cup {r.step}
        /\ \A k \in DOMAIN judges : judges[k] \in Score
    BY <1>2 DEF Put, IsDirectory
  <2>. HIDE DEF judges
  <2>3. /\ DOMAIN d = DOMAIN dir[child] /\ d.plans = dir[child].plans
        /\ d.results = dir[child].results /\ d.judges = judges
        /\ d.msgs = dir[child].msgs
    BY <1>2 DEF IsDirectory
  <2>4. dir' = [dir EXCEPT ![child] = d]
    BY <2>1 DEF judges
  <2>. HIDE DEF d
  <2>5. IsDirectory(d)
    BY <1>2, <2>2, <2>3 DEF IsDirectory
  <2>6. /\ pc' = "judged" /\ outcome' = outcome
        /\ UNCHANGED <<traj, budget0, queue, family, child>>
    BY <1>8 DEF SaveJudgeRecord
  <2>7. outcome' \in Result \cup {"none"}
    BY <2>6 DEF IInv, TypeOK
  <2>. QED
    BY <1>1, <2>1, <2>2, <2>3, <2>4, <2>5, <2>6, <2>7, ChildDirectoryStep
<1>9. CASE RegisterJudgeRecord
  <2>. DEFINE ref == <<child, r.step>>
              judged == r.judged \cup {ref}
              q == [r EXCEPT !.judged = judged, !.lastJudged = ref]
  <2>1. /\ pc = "judged" /\ pc' = "finalize" /\ traj' = [traj EXCEPT ![child] = q]
        /\ UNCHANGED <<dir, budget0, queue, family, execution>>
    BY <1>9 DEF RegisterJudgeRecord, Judged
  <2>2. judged \subseteq TrajectoryId \X Nat /\ ref \in TrajectoryId \X Nat
    BY <1>2 DEF Record
  <2>3. ref[1] \in DOMAIN dir /\ ref[2] \in DOMAIN dir[ref[1]].judges
    BY <1>2, <2>1 DEF IInv, FirstWrites
  <2>4. ref \in judged /\ \A x \in judged : x = ref \/ x \in r.judged
    OBVIOUS
  <2>. HIDE DEF judged, ref
  <2>5. q \in Record
    BY <1>2, <2>2 DEF Record
  <2>6. /\ q.planned = r.planned /\ q.steps = r.steps /\ q.judged = judged
        /\ q.lastJudged = ref
    BY <1>2 DEF Record
  <2>. HIDE DEF q
  <2>7. Referenced(q, dir)
    BY <1>2, <2>3, <2>4, <2>6 DEF Referenced
  <2>. QED
    BY <1>1, <2>1, <2>5, <2>7, ChildRecordStep DEF queue
<1>10. CASE FinalizeChild
  <2>1. StatusAfterStep \in Status
    BY DEF StatusAfterStep, Status, Terminal
  <2>2. Marked(r, StatusAfterStep) \in Record /\ Referenced(Marked(r, StatusAfterStep), dir)
    BY <1>2, <2>1, MarkedRecord
  <2>3. /\ traj' = [traj EXCEPT ![child] = Marked(r, StatusAfterStep)]
        /\ nextFrontier' \in {nextFrontier, Append(nextFrontier, child)}
        /\ pc' = "spawn" /\ child' = NoId /\ outcome' = "none" /\ verdict' = 0
        /\ UNCHANGED <<dir, budget0, frontier, contexts, chosen, family>>
    BY <1>10 DEF FinalizeChild, LeaveChild
  <2>. QED
    BY <1>1, <2>2, <2>3, ChildRecordStep
<1>. QED
  BY <1>3, <1>4, <1>5, <1>6, <1>7, <1>8, <1>9, <1>10
-----------------------------------------------------------------------------
(* Theorems. *)

\* Every action preserves the inductive invariant, and so does a stutter.
LEMMA NextInv == IInv /\ [Next]_vars => IInv'
<1>. SUFFICES ASSUME IInv, [Next]_vars PROVE IInv'
  OBVIOUS
<1>1. CASE Next
  BY <1>1, ProcessSteps, StartingSteps, PlanningSteps, DispatchSteps, SpawnSteps,
     ExecutionSteps DEF Next, Step
<1>2. CASE UNCHANGED vars
  <2>. USE <1>2 DEF vars, disk, memory, queue, family, execution
  <2>1. TypeOK'
    BY DEF IInv, TypeOK
  <2>2. Places'
    BY DEF IInv, Places
  <2>3. References'
    BY DEF IInv, References
  <2>4. FirstWrites'
    BY DEF IInv, FirstWrites, Current, NextStep
  <2>. QED
    BY <2>1, <2>2, <2>3, <2>4 DEF IInv
<1>. QED
  BY <1>1, <1>2

\* What IInv states holds in every reachable state.
THEOREM InductiveInvariant == Spec => []IInv
BY InitInv, NextInv, PTL DEF Spec

\* The store and the loop's variables always have their types: in particular a
\* score is always read from an existing judge file (_load_parent_frontier_score).
THEOREM TypeCorrect == Spec => []TypeOK
<1>1. IInv => TypeOK
  BY DEF IInv
<1>. QED
  BY InductiveInvariant, <1>1, PTL

\* For every beam width, budget, set of failing calls and crash: what a
\* trajectory.json refers to is on disk (register_planner_round,
\* register_step_record, register_judge_record, init_child_trajectory).
THEOREM NoDanglingReference == Spec => []FilesBeforeReferences
<1>1. IInv => FilesBeforeReferences
  BY DEF IInv, Places, References, Referenced, FilesBeforeReferences
<1>. QED
  BY InductiveInvariant, <1>1, PTL

\* Both together: what the run `loop' checks of the store, for every instance.
THEOREM StoreStaysSound == Spec => []StoreIsSound
<1>1. TypeOK /\ FilesBeforeReferences => StoreIsSound
  BY DEF StoreIsSound
<1>. QED
  BY TypeCorrect, NoDanglingReference, <1>1, PTL

-----------------------------------------------------------------------------
(* 2. The tree, closed trajectories, records and transcripts. *)

\* Of the records T.
Branching(t, T) == \E s \in Suggestion : Append(t, s) \in DOMAIN T
RunningLeaf(t, T) == t \in DOMAIN T /\ T[t].status = "running" /\ ~Branching(t, T)
IsOpen(t, T) == t \in DOMAIN T /\ OpenStatus(T[t]) = "open"

\* The records hang together and the budget measures their depth.
Rooted ==
    /\ DOMAIN traj # {} => Root \in DOMAIN traj
    /\ pc = "root" => DOMAIN traj = {}
    /\ \A t \in DOMAIN traj :
          t = Root \/ \E p \in DOMAIN traj, s \in Suggestion : t = Append(p, s)
    /\ \A t \in DOMAIN traj : traj[t].budget = budget0 - Len(t)

\* No trajectory is held twice.
Apart ==
    /\ pc # "plan" => frontier = <<>>
    /\ pc = "plan" => nextFrontier = <<>>
    /\ \A i, j \in DOMAIN frontier : frontier[i] = frontier[j] => i = j
    /\ \A i, j \in DOMAIN nextFrontier : nextFrontier[i] = nextFrontier[j] => i = j
    /\ \A i, j \in DOMAIN contexts : contexts[i].id = contexts[j].id => i = j
    /\ \A i \in DOMAIN contexts : \A j \in DOMAIN frontier : contexts[i].id # frontier[j]
    /\ \A i \in DOMAIN contexts : \A j \in DOMAIN nextFrontier :
          contexts[i].id # nextFrontier[j]
    /\ pc \in Executing =>
          /\ \A i \in DOMAIN contexts : contexts[i].id # child
          /\ \A i \in DOMAIN nextFrontier : nextFrontier[i] # child

\* What is held is a running leaf, except the parent being forked.
Held ==
    /\ \A i \in DOMAIN frontier : RunningLeaf(frontier[i], traj)
    /\ \A i \in DOMAIN nextFrontier : RunningLeaf(nextFrontier[i], traj)
    /\ \A i \in DOMAIN contexts : Len(contexts[i].id) < budget0
    /\ \A i \in DOMAIN contexts :
          i # 1 \/ pc \notin Spawning => RunningLeaf(contexts[i].id, traj)
    /\ pc \in Executing => RunningLeaf(child, traj)

\* The parent being forked, and the child that has no record yet.
Forking ==
    /\ pc \in Spawning =>
          /\ IsOpen(Current.id, traj)
          /\ created <=> Branching(Current.id, traj)
          /\ parent.budget = budget0 - Len(Current.id)
    /\ pc = "child" =>
          /\ child \notin DOMAIN traj
          /\ \E s \in Suggestion : child = Append(Current.id, s)

TInv == Rooted /\ Apart /\ Held /\ Forking

\* What a step may do to the records.
Rewrites(t) ==
    /\ IsOpen(t, traj)
    /\ traj' = [traj EXCEPT ![t] = traj'[t]]
    /\ \/ OpenStatus(traj'[t]) = "open"
       \/ OpenStatus(traj'[t]) = "inner" /\ Branching(t, traj)
       \/ OpenStatus(traj'[t]) = "closed" /\ ~Branching(t, traj)

Forks(t, s) ==
    /\ IsOpen(t, traj) /\ Len(t) < budget0
    /\ Append(t, s) \notin DOMAIN traj
    /\ traj' = Put(traj, Append(t, s), ForkedRecord(parent))

TreeStep ==
    \/ UNCHANGED traj
    \/ DOMAIN traj = {} /\ traj' = Put(traj, Root, NewRecord(budget0))
    \/ \E t \in DOMAIN traj : Rewrites(t) \/ \E s \in Suggestion : Forks(t, s)
-----------------------------------------------------------------------------
(* Operators. *)

\* What is left of a sequence keeps its order.
LEMMA TailElements ==
    ASSUME NEW S, NEW q \in Seq(S), q # <<>>
    PROVE  \A i \in DOMAIN Tail(q) :
              /\ i \in Nat /\ i + 1 \in DOMAIN q /\ i + 1 # 1
              /\ Tail(q)[i] = q[i + 1]
OBVIOUS

\* An appended element comes last.
LEMMA AppendElements ==
    ASSUME NEW S, NEW q \in Seq(S), NEW e
    PROVE  /\ \A i \in DOMAIN Append(q, e) :
                 \/ i \in DOMAIN q /\ Append(q, e)[i] = q[i]
                 \/ i = Len(q) + 1 /\ Append(q, e)[i] = e
           /\ Len(q) + 1 \notin DOMAIN q
OBVIOUS

\* A child's name tells its parent's.
LEMMA OneParent ==
    ASSUME NEW p \in TrajectoryId, NEW s \in Suggestion,
           NEW q \in TrajectoryId, NEW r \in Suggestion, Append(p, s) = Append(q, r)
    PROVE  p = q /\ s = r
BY AppendInjective DEF TrajectoryId

\* The name of a child is new to its parent, and not the root's.
LEMMA ChildName ==
    ASSUME NEW p \in TrajectoryId, NEW s \in Suggestion
    PROVE  /\ Append(p, s) \in TrajectoryId /\ Append(p, s) # p /\ Append(p, s) # Root
           /\ Len(Append(p, s)) = Len(p) + 1 /\ Len(p) \in Nat
BY DEF TrajectoryId, Root

\* A change of another record leaves a running leaf one.
LEMMA LeafKept ==
    ASSUME NEW T, NEW U, DOMAIN U = DOMAIN T, NEW t, RunningLeaf(t, T),
           U[t].status = "running"
    PROVE  RunningLeaf(t, U)
BY DEF RunningLeaf, Branching

\* So does a fork of another trajectory.
LEMMA LeafBesideFork ==
    ASSUME NEW T, NEW U, NEW p \in TrajectoryId, NEW s \in Suggestion,
           DOMAIN U = DOMAIN T \cup {Append(p, s)}, NEW t \in TrajectoryId, t # p,
           RunningLeaf(t, T), U[t] = T[t]
    PROVE  RunningLeaf(t, U)
BY OneParent DEF RunningLeaf, Branching

\* A running leaf is open.
LEMMA LeafIsOpen ==
    ASSUME NEW T, NEW t, RunningLeaf(t, T)
    PROVE  IsOpen(t, T)
BY DEF RunningLeaf, IsOpen, OpenStatus

\* A change of status is nothing else.
LEMMA MarkedFields ==
    ASSUME NEW r \in Record, NEW x
    PROVE  Marked(r, x).status = x /\ Marked(r, x).budget = r.budget /\ Marked(r, x).err = r.err
BY DEF Marked, Record

\* The same of a failure.
LEMMA MarkedErrorFields ==
    ASSUME NEW r \in Record, NEW c
    PROVE  /\ MarkedError(r, c).status = "error" /\ MarkedError(r, c).err = c
           /\ MarkedError(r, c).budget = r.budget
BY DEF MarkedError, Marked, Record
-----------------------------------------------------------------------------
(* Effects that several actions share. *)

\* Nothing is held any more.
LEMMA ForgetTree ==
    ASSUME TInv, Forget, pc' \in Ended \cup {"start"}
    PROVE  TInv'
<1>. USE DEF Forget, disk, Ended
<1>1. Rooted'
  BY DEF TInv, Rooted
<1>2. Apart' /\ Held'
  BY DEF Apart, Held, Executing
<1>3. Forking'
  BY DEF Forking, Spawning, Executing
<1>. QED
  BY <1>1, <1>2, <1>3 DEF TInv

\* Neither the records nor what is held change.
LEMMA QuietTree ==
    ASSUME TInv, UNCHANGED <<traj, budget0, frontier, contexts, nextFrontier, family>>,
           pc' = "root" => DOMAIN traj = {},
           pc' = "plan" => pc = "plan",
           pc' # "plan" => frontier = <<>>,
           pc' \in Spawning <=> pc \in Spawning,
           pc' \in Executing => pc \in Executing /\ child' = child,
           pc' = "child" => pc = "child" /\ child' = child
    PROVE  TInv'
<1>. USE DEF family
<1>1. Rooted'
  BY DEF TInv, Rooted
<1>2. Apart'
  BY DEF TInv, Apart
<1>3. Held'
  BY DEF TInv, Held
<1>4. Forking'
  BY DEF TInv, Forking, Current
<1>. QED
  BY <1>1, <1>2, <1>3, <1>4 DEF TInv

\* One record is replaced by one with the same budget.
LEMMA RewrittenTree ==
    ASSUME TInv, UNCHANGED budget0, NEW t \in DOMAIN traj, NEW r,
           r.budget = traj[t].budget, traj' = [traj EXCEPT ![t] = r], pc' # "root"
    PROVE  /\ Rooted'
           /\ DOMAIN traj' = DOMAIN traj /\ traj'[t] = r
           /\ \A u : RunningLeaf(u, traj) /\ (u # t \/ r.status = "running") =>
                 RunningLeaf(u, traj')
           /\ \A u : Branching(u, traj') <=> Branching(u, traj)
<1>1. /\ DOMAIN traj' = DOMAIN traj /\ traj'[t] = r
      /\ \A u \in DOMAIN traj : u # t => traj'[u] = traj[u]
  OBVIOUS
<1>2. Rooted'
  <2>1. \A u \in DOMAIN traj' : traj'[u].budget = budget0' - Len(u)
    BY <1>1 DEF TInv, Rooted
  <2>. QED
    BY <1>1, <2>1 DEF TInv, Rooted
<1>3. \A u : RunningLeaf(u, traj) /\ (u # t \/ r.status = "running") =>
         RunningLeaf(u, traj')
  BY <1>1 DEF RunningLeaf, Branching
<1>. QED
  BY <1>1, <1>2, <1>3 DEF Branching
-----------------------------------------------------------------------------
(* The initial state and the steps. *)

\* Nothing is stored or held at first.
LEMMA InitTree == Init => TInv
<1>. SUFFICES ASSUME Init PROVE TInv
  OBVIOUS
<1>. USE DEF Init, Idle
<1>1. DOMAIN traj = {}
  OBVIOUS
<1>2. Rooted
  BY <1>1 DEF Rooted
<1>3. Apart /\ Held
  BY DEF Apart, Held, Executing
<1>4. Forking
  BY DEF Forking, Spawning, Executing
<1>. QED
  BY <1>2, <1>3, <1>4 DEF TInv

\* A run starts, ends, or dies.
LEMMA ProcessTree ==
    ASSUME TInv,
           \/ InitRootFails \/ InitRootRefused \/ ResolveInputFails \/ Crash \/ Rerun
    PROVE  TInv'
<1>1. Forget /\ pc' \in Ended \cup {"start"}
  BY DEF InitRootFails, InitRootRefused, ResolveInputFails, Crash, Rerun, Raise, Ended
<1>. QED
  BY <1>1, ForgetTree

\* Steps that write no record.
LEMMA QuietSteps ==
    ASSUME IInv, TInv,
           \/ InitRootFiles \/ SelectFrontier \/ Finish \/ SavePlannerOutput
           \/ AppendFinalAnswer \/ RunExecutor \/ RunRuntime \/ AppendStepMessages
           \/ SaveJudgeRecord
    PROVE  TInv' /\ UNCHANGED traj
<1>. USE DEF disk, queue, family, execution
<1>1. UNCHANGED <<traj, budget0, frontier, contexts, nextFrontier, family>>
  BY DEF InitRootFiles, SelectFrontier, Finish, SavePlannerOutput, AppendFinalAnswer,
     RunExecutor, RunRuntime, AppendStepMessages, SaveJudgeRecord
<1>2. pc # "plan" => frontier = <<>>
  BY DEF TInv, Apart
<1>3. CASE InitRootFiles
  <2>1. pc = "start" /\ pc' = "root" /\ DOMAIN traj = {}
    BY <1>3 DEF InitRootFiles, IInv, Places, TInv, Rooted
  <2>. QED
    BY <1>1, <1>2, <2>1, QuietTree DEF Spawning, Executing
<1>4. CASE SelectFrontier \/ Finish
  <2>1. pc = "plan" /\ frontier = <<>> /\ pc' \in {"register", "done"}
    BY <1>4 DEF SelectFrontier, Finish
  <2>. QED
    BY <1>1, <2>1, QuietTree DEF Spawning, Executing
<1>5. CASE SavePlannerOutput \/ AppendFinalAnswer
  <2>1. pc \in {"register", "answer"} /\ pc' \in {"record", "answered"}
    BY <1>5 DEF SavePlannerOutput, AppendFinalAnswer
  <2>. QED
    BY <1>1, <1>2, <2>1, QuietTree DEF Spawning, Executing
<1>6. CASE RunExecutor \/ RunRuntime \/ AppendStepMessages \/ SaveJudgeRecord
  <2>1. pc \in Executing /\ pc' \in Executing /\ child' = child /\ pc' \notin {"root", "plan", "child"}
        /\ pc # "plan"
    BY <1>6 DEF RunExecutor, RunRuntime, AppendStepMessages, SaveJudgeRecord, Executing
  <2>. QED
    BY <1>1, <1>2, <2>1, QuietTree DEF Spawning
<1>. QED
  BY <1>1, <1>3, <1>4, <1>5, <1>6

\* The root's record is the first one.
LEMMA RootTree ==
    ASSUME IInv, TInv, InitRootRecord
    PROVE  TInv' /\ DOMAIN traj = {} /\ traj' = Put(traj, Root, NewRecord(budget0))
<1>. USE DEF InitRootRecord, disk, queue, family, execution
<1>1. /\ DOMAIN traj = {} /\ traj' = Put(traj, Root, NewRecord(budget0))
      /\ DOMAIN traj' = {Root} /\ traj'[Root] = NewRecord(budget0)
  BY DEF TInv, Rooted, Put
<1>2. budget0 \in Nat /\ Len(Root) = 0 /\ contexts \in Seq(Context)
  BY DEF IInv, TypeOK, Root
<1>3. NewRecord(budget0).budget = budget0 /\ NewRecord(budget0).status = "running"
  BY DEF NewRecord
<1>4. RunningLeaf(Root, traj')
  <2>1. \A s \in Suggestion : Append(Root, s) # Root
    BY ChildName DEF Root, TrajectoryId
  <2>. QED
    BY <1>1, <1>3, <2>1 DEF RunningLeaf, Branching
<1>5. Rooted'
  BY <1>1, <1>2, <1>3 DEF Rooted
<1>6. DOMAIN contexts = {} /\ nextFrontier = <<>>
  <2>1. \A i \in DOMAIN contexts : FALSE
    BY <1>1 DEF IInv, Places
  <2>2. \A i \in DOMAIN nextFrontier : FALSE
    BY <1>1 DEF IInv, Places
  <2>3. nextFrontier = <<>>
    BY <2>2, EmptySeq DEF IInv, TypeOK
  <2>. QED
    BY <2>1, <2>3
<1>7. Apart'
  BY <1>6 DEF Apart, Executing
<1>8. Held'
  <2>1. \A i \in DOMAIN frontier' : frontier'[i] = Root
    OBVIOUS
  <2>. QED
    BY <1>4, <1>6, <2>1 DEF Held, Executing
<1>9. Forking'
  BY DEF Forking, Spawning, Executing
<1>. QED
  BY <1>1, <1>5, <1>7, <1>8, <1>9 DEF TInv

\* A trajectory of the frontier is closed, or skipped.
LEMMA ClosedInFrontier ==
    ASSUME IInv, TInv, frontier # <<>>, NEW r, r.budget = traj[frontier[1]].budget,
           traj' = [traj EXCEPT ![frontier[1]] = r] \/ traj' = traj,
           pc = "plan", frontier' = Tail(frontier),
           UNCHANGED <<dir, budget0, pc, contexts, chosen, family, execution, nextFrontier>>
    PROVE  TInv'
<1>. USE DEF family, execution
<1>. DEFINE t == frontier[1]
<1>1. t \in DOMAIN traj /\ frontier \in Seq(TrajectoryId) /\ 1 \in DOMAIN frontier
  BY FrontierHead DEF IInv, TypeOK
<1>2. \A i \in DOMAIN frontier' :
         i + 1 \in DOMAIN frontier /\ i \in Nat /\ i + 1 # 1 /\ frontier'[i] = frontier[i + 1]
  BY <1>1, TailElements
<1>3. \A i \in DOMAIN frontier' : frontier'[i] # t
  BY <1>1, <1>2 DEF TInv, Apart
<1>4. \A i \in DOMAIN contexts : contexts[i].id # t
  BY <1>1 DEF TInv, Apart
<1>5. /\ Rooted'
      /\ \A u : RunningLeaf(u, traj) /\ u # t => RunningLeaf(u, traj')
  <2>1. CASE traj' = traj
    BY <2>1 DEF TInv, Rooted
  <2>2. CASE traj' = [traj EXCEPT ![t] = r]
    BY <1>1, <2>2, RewrittenTree
  <2>. QED
    BY <2>1, <2>2
<1>6. Apart'
  <2>1. \A i, j \in DOMAIN frontier' : frontier'[i] = frontier'[j] => i = j
    <3>. SUFFICES ASSUME NEW i \in DOMAIN frontier', NEW j \in DOMAIN frontier',
                         frontier'[i] = frontier'[j]
                  PROVE  i = j
      OBVIOUS
    <3>1. i + 1 = j + 1
      BY <1>2 DEF TInv, Apart
    <3>. QED
      BY <1>2, <3>1
  <2>2. \A i \in DOMAIN contexts : \A j \in DOMAIN frontier' : contexts[i].id # frontier'[j]
    BY <1>2 DEF TInv, Apart
  <2>. QED
    BY <2>1, <2>2 DEF TInv, Apart, Executing
<1>7. Held'
  <2>1. \A i \in DOMAIN frontier' : RunningLeaf(frontier'[i], traj')
    BY <1>2, <1>3, <1>5 DEF TInv, Held
  <2>2. DOMAIN nextFrontier' = {}
    BY DEF TInv, Apart
  <2>3. pc \notin Spawning /\ pc \notin Executing
    BY DEF Spawning, Executing
  <2>4. \A i \in DOMAIN contexts' : RunningLeaf(contexts'[i].id, traj')
    BY <1>4, <1>5, <2>3 DEF TInv, Held
  <2>. QED
    BY <2>1, <2>2, <2>3, <2>4 DEF TInv, Held
<1>8. Forking'
  BY DEF Forking, Spawning, Executing
<1>. QED
  BY <1>5, <1>6, <1>7, <1>8 DEF TInv

\* A planned trajectory moves from the frontier to the contexts.
LEMMA PlannedTree ==
    ASSUME IInv, TInv, PlanTrajectory
    PROVE  TInv' /\ UNCHANGED traj
<1>. USE DEF disk, family, execution
<1>. DEFINE t == frontier[1]
<1>1. /\ pc = "plan" /\ frontier # <<>> /\ frontier' = Tail(frontier) /\ Asked(t)
      /\ UNCHANGED <<disk, budget0, pc, chosen, family, execution, nextFrontier>>
  BY DEF PlanTrajectory, Plannable
<1>2. PICK c : contexts' = Append(contexts, c) /\ c.id = t
  BY DEF PlanTrajectory
<1>3. t \in DOMAIN traj /\ frontier \in Seq(TrajectoryId) /\ 1 \in DOMAIN frontier
  BY <1>1, FrontierHead DEF IInv, TypeOK
<1>4. \A i \in DOMAIN frontier' :
         i + 1 \in DOMAIN frontier /\ i \in Nat /\ i + 1 # 1 /\ frontier'[i] = frontier[i + 1]
  BY <1>1, <1>3, TailElements
<1>5. contexts \in Seq(Context)
  BY DEF IInv, TypeOK
<1>6. /\ \A i \in DOMAIN contexts' :
            \/ i \in DOMAIN contexts /\ contexts'[i] = contexts[i]
            \/ i = Len(contexts) + 1 /\ contexts'[i] = c
      /\ Len(contexts) + 1 \notin DOMAIN contexts
  BY <1>2, <1>5, AppendElements
<1>7. \A i \in DOMAIN contexts : contexts[i].id # t
  BY <1>3 DEF TInv, Apart
<1>8. RunningLeaf(t, traj)
  BY <1>3 DEF TInv, Held
<1>9. Len(t) < budget0
  <2>1. traj[t].budget > 0 /\ traj[t].budget = budget0 - Len(t)
    BY <1>1, <1>3 DEF Asked, TInv, Rooted
  <2>2. budget0 \in Nat /\ Len(t) \in Nat
    BY <1>1, <1>3, FrontierHead DEF IInv, TypeOK, TrajectoryId
  <2>. QED
    BY <2>1, <2>2
<1>10. Rooted'
  BY <1>1 DEF TInv, Rooted
<1>11. Apart'
  <2>1. \A i, j \in DOMAIN frontier' : frontier'[i] = frontier'[j] => i = j
    <3>. SUFFICES ASSUME NEW i \in DOMAIN frontier', NEW j \in DOMAIN frontier',
                         frontier'[i] = frontier'[j]
                  PROVE  i = j
      OBVIOUS
    <3>1. i + 1 = j + 1
      BY <1>4 DEF TInv, Apart
    <3>. QED
      BY <1>4, <3>1
  <2>2. \A i, j \in DOMAIN contexts' : contexts'[i].id = contexts'[j].id => i = j
    BY <1>2, <1>6, <1>7 DEF TInv, Apart
  <2>3. \A j \in DOMAIN frontier' : t # frontier'[j]
    BY <1>3, <1>4 DEF TInv, Apart
  <2>4. \A i \in DOMAIN contexts' : \A j \in DOMAIN frontier' :
           contexts'[i].id # frontier'[j]
    BY <1>2, <1>4, <1>6, <2>3 DEF TInv, Apart
  <2>5. nextFrontier' = <<>> /\ pc' = "plan"
    BY <1>1 DEF TInv, Apart
  <2>. QED
    BY <2>1, <2>2, <2>4, <2>5 DEF Apart, Executing
<1>12. Held'
  <2>1. pc \notin Spawning /\ pc \notin Executing
    BY <1>1 DEF Spawning, Executing
  <2>2. \A i \in DOMAIN frontier' : RunningLeaf(frontier'[i], traj')
    BY <1>1, <1>4 DEF TInv, Held
  <2>3. \A i \in DOMAIN contexts' :
           Len(contexts'[i].id) < budget0 /\ RunningLeaf(contexts'[i].id, traj)
    BY <1>2, <1>6, <1>8, <1>9, <2>1 DEF TInv, Held
  <2>. QED
    BY <1>1, <2>1, <2>2, <2>3 DEF TInv, Held
<1>13. Forking'
  BY <1>1 DEF Forking, Spawning, Executing
<1>. QED
  BY <1>1, <1>10, <1>11, <1>12, <1>13 DEF TInv

\* Going through the frontier.
LEMMA FrontierTree ==
    ASSUME IInv, TInv, SkipTrajectory \/ PlannerFails
    PROVE  TInv' /\ TreeStep
<1>. DEFINE t == frontier[1]
<1>1. /\ pc = "plan" /\ frontier # <<>> /\ frontier' = Tail(frontier)
      /\ UNCHANGED <<dir, budget0, pc, contexts, chosen, family, execution, nextFrontier>>
  BY DEF SkipTrajectory, PlannerFails, Plannable
<1>2. t \in DOMAIN traj /\ traj[t] \in Record /\ RunningLeaf(t, traj)
  <2>1. frontier \in Seq(TrajectoryId) /\ 1 \in DOMAIN frontier
    BY <1>1 DEF IInv, TypeOK
  <2>. QED
    BY <1>1, <2>1, FrontierHead DEF IInv, TypeOK, TInv, Held
<1>3. ~Branching(t, traj) /\ IsOpen(t, traj)
  BY <1>2, LeafIsOpen DEF RunningLeaf
<1>4. ASSUME NEW r, r.budget = traj[t].budget, traj' = [traj EXCEPT ![t] = r],
             OpenStatus(r) = "closed"
      PROVE  TInv' /\ TreeStep
  <2>1. TInv'
    BY <1>1, <1>4, ClosedInFrontier
  <2>2. traj'[t] = r
    BY <1>2, <1>4
  <2>3. Rewrites(t)
    BY <1>3, <1>4, <2>2 DEF Rewrites
  <2>. QED
    BY <1>2, <2>1, <2>3 DEF TreeStep
<1>5. CASE PlannerFails
  <2>. DEFINE r == MarkedError(traj[t], "planner_error")
  <2>1. traj' = [traj EXCEPT ![t] = r]
    BY <1>5 DEF PlannerFails
  <2>2. r.status = "error" /\ r.err = "planner_error" /\ r.budget = traj[t].budget
    BY <1>2, MarkedErrorFields
  <2>. HIDE DEF r
  <2>3. OpenStatus(r) = "closed"
    BY <2>2 DEF OpenStatus
  <2>. QED
    BY <1>4, <2>1, <2>2, <2>3
<1>6. CASE SkipTrajectory
  <2>. DEFINE r == Marked(traj[t], "max_step_reached")
  <2>1. traj' = [traj EXCEPT ![t] = r]
    BY <1>2, <1>6 DEF SkipTrajectory, RunningLeaf
  <2>2. r.status = "max_step_reached" /\ r.budget = traj[t].budget
    BY <1>2, MarkedFields
  <2>. HIDE DEF r
  <2>3. OpenStatus(r) = "closed"
    BY <2>2 DEF OpenStatus
  <2>. QED
    BY <1>4, <2>1, <2>2, <2>3
<1>. QED
  BY <1>5, <1>6

\* The trajectory that is dispatched, among those that were planned.
LEMMA CurrentIsFirst ==
    ASSUME IInv, contexts # <<>>
    PROVE  /\ contexts \in Seq(Context) /\ 1 \in DOMAIN contexts /\ Current = contexts[1]
           /\ Current.id \in DOMAIN traj /\ Current.id \in TrajectoryId
           /\ traj[Current.id] \in Record
<1>1. contexts \in Seq(Context)
  BY DEF IInv, TypeOK
<1>2. 1 \in DOMAIN contexts /\ Current = contexts[1]
  BY <1>1 DEF Current
<1>. QED
  BY <1>1, <1>2, CurrentContext

\* The round is registered: nothing of the tree changes, and forking may begin.
LEMMA RegisteredTree ==
    ASSUME IInv, TInv, RegisterPlannerRound
    PROVE  TInv' /\ TreeStep
<1>. USE DEF queue, execution
<1>. DEFINE t == Current.id
            planned == Registered(traj[t].planned, <<t, Current.round>>)
            answered == traj[t].answered \/ Current.sugg = <<>>
            r == [traj[t] EXCEPT !.planned = planned, !.lastRound = Current.round,
                                 !.pending = FALSE, !.answered = answered]
<1>1. /\ pc = "record" /\ pc' \in {"answer", "spawn"} /\ created' = FALSE
      /\ traj' = [traj EXCEPT ![t] = r] /\ parent' = r
      /\ UNCHANGED <<dir, budget0, frontier, contexts, nextFrontier, child>>
  BY DEF RegisterPlannerRound
<1>2. contexts # <<>>
  BY <1>1 DEF IInv, Places, Dispatching
<1>3. 1 \in DOMAIN contexts /\ Current = contexts[1] /\ t \in DOMAIN traj /\ traj[t] \in Record
  BY <1>2, CurrentIsFirst
<1>4. r.status = traj[t].status /\ r.budget = traj[t].budget /\ r.err = traj[t].err
  BY <1>3 DEF Record
<1>. HIDE DEF r
<1>5. RunningLeaf(t, traj)
  BY <1>1, <1>3 DEF TInv, Held, Spawning, Executing
<1>6. r.status = "running"
  BY <1>4, <1>5 DEF RunningLeaf
<1>7. /\ Rooted' /\ traj'[t] = r
      /\ \A u : RunningLeaf(u, traj) => RunningLeaf(u, traj')
  BY <1>1, <1>3, <1>4, <1>6, RewrittenTree
<1>8. Apart'
  BY <1>1 DEF TInv, Apart, Executing
<1>9. Held'
  <2>1. \A i \in DOMAIN contexts : RunningLeaf(contexts[i].id, traj)
    BY <1>1 DEF TInv, Held, Spawning, Executing
  <2>2. pc' \notin Executing
    BY <1>1 DEF Executing
  <2>. QED
    BY <1>1, <1>7, <2>1, <2>2 DEF TInv, Held
<1>10. Forking'
  <2>1. RunningLeaf(t, traj')
    BY <1>5, <1>7
  <2>2. IsOpen(t, traj') /\ ~Branching(t, traj')
    BY <2>1, LeafIsOpen DEF RunningLeaf
  <2>3. parent'.budget = budget0' - Len(t)
    BY <1>1, <1>3, <1>4 DEF TInv, Rooted
  <2>4. Current' = Current
    BY <1>1 DEF Current
  <2>. QED
    BY <1>1, <2>2, <2>3, <2>4 DEF Forking
<1>11. Rewrites(t)
  <2>1. IsOpen(t, traj)
    BY <1>5, LeafIsOpen
  <2>2. OpenStatus(r) = "open"
    BY <1>6 DEF OpenStatus
  <2>. QED
    BY <1>1, <1>7, <2>1, <2>2 DEF Rewrites
<1>. QED
  BY <1>3, <1>7, <1>8, <1>9, <1>10, <1>11 DEF TInv, TreeStep

\* The trajectory that was dispatched is dropped from memory.
LEMMA ClosedInContexts ==
    ASSUME IInv, TInv, pc \in {"answered", "spawn"}, pc' = "register",
           contexts' = Tail(contexts), UNCHANGED <<dir, budget0, frontier, nextFrontier>>,
           NEW r, r.budget = traj[Current.id].budget,
           traj' = [traj EXCEPT ![Current.id] = r] \/ traj' = traj
    PROVE  TInv'
<1>. DEFINE t == Current.id
<1>1. contexts # <<>>
  BY DEF IInv, Places, Dispatching, Spawning
<1>2. /\ 1 \in DOMAIN contexts /\ Current = contexts[1] /\ t \in DOMAIN traj
      /\ contexts \in Seq(Context)
  BY <1>1, CurrentIsFirst
<1>3. \A i \in DOMAIN contexts' :
         i + 1 \in DOMAIN contexts /\ i \in Nat /\ i + 1 # 1 /\ contexts'[i] = contexts[i + 1]
  BY <1>1, <1>2, TailElements
<1>4. \A i \in DOMAIN contexts : i # 1 => contexts[i].id # t
  BY <1>2 DEF TInv, Apart
<1>5. \A i \in DOMAIN nextFrontier : nextFrontier[i] # t
  BY <1>2 DEF TInv, Apart
<1>6. /\ Rooted'
      /\ \A u : RunningLeaf(u, traj) /\ u # t => RunningLeaf(u, traj')
  <2>1. CASE traj' = traj
    BY <2>1 DEF TInv, Rooted
  <2>2. CASE traj' = [traj EXCEPT ![t] = r]
    BY <1>2, <2>2, RewrittenTree
  <2>. QED
    BY <2>1, <2>2
<1>7. Apart'
  <2>1. \A i, j \in DOMAIN contexts' : contexts'[i].id = contexts'[j].id => i = j
    <3>. SUFFICES ASSUME NEW i \in DOMAIN contexts', NEW j \in DOMAIN contexts',
                         contexts'[i].id = contexts'[j].id
                  PROVE  i = j
      OBVIOUS
    <3>1. i + 1 = j + 1
      BY <1>3 DEF TInv, Apart
    <3>. QED
      BY <1>3, <3>1
  <2>2. \A i \in DOMAIN contexts' : \A j \in DOMAIN nextFrontier :
           contexts'[i].id # nextFrontier[j]
    BY <1>3 DEF TInv, Apart
  <2>3. frontier = <<>>
    BY DEF TInv, Apart
  <2>. QED
    BY <2>1, <2>2, <2>3 DEF TInv, Apart, Executing
<1>8. Held'
  <2>1. \A i \in DOMAIN nextFrontier' : RunningLeaf(nextFrontier'[i], traj')
    BY <1>5, <1>6 DEF TInv, Held
  <2>2. \A i \in DOMAIN contexts' :
           Len(contexts'[i].id) < budget0' /\ RunningLeaf(contexts'[i].id, traj')
    BY <1>3, <1>4, <1>6 DEF TInv, Held
  <2>3. DOMAIN frontier' = {}
    BY DEF TInv, Apart
  <2>. QED
    BY <2>1, <2>2, <2>3 DEF Held, Executing
<1>9. Forking'
  BY DEF Forking, Spawning, Executing
<1>. QED
  BY <1>6, <1>7, <1>8, <1>9 DEF TInv

\* An answered trajectory is closed; a forked one becomes an inner node, and one
\* without children is stopped or left open.
LEMMA ContextTree ==
    ASSUME IInv, TInv, MarkAnswered \/ CloseParent
    PROVE  TInv' /\ TreeStep
<1>. DEFINE t == Current.id
<1>1. /\ pc \in {"answered", "spawn"} /\ pc' = "register" /\ contexts' = Tail(contexts)
      /\ UNCHANGED <<dir, budget0, frontier, nextFrontier>>
  BY DEF MarkAnswered, CloseParent
<1>2. contexts # <<>>
  BY <1>1 DEF IInv, Places, Dispatching, Spawning
<1>3. /\ 1 \in DOMAIN contexts /\ Current = contexts[1] /\ t \in DOMAIN traj
      /\ traj[t] \in Record
  BY <1>2, CurrentIsFirst
<1>4. IsOpen(t, traj)
  <2>1. CASE pc = "spawn"
    BY <2>1 DEF TInv, Forking, Spawning
  <2>2. CASE pc = "answered"
    <3>1. RunningLeaf(t, traj)
      BY <1>3, <2>2 DEF TInv, Held, Spawning, Executing
    <3>. QED
      BY <3>1, LeafIsOpen
  <2>. QED
    BY <1>1, <2>1, <2>2
<1>5. ASSUME NEW x, traj' = [traj EXCEPT ![t] = Marked(traj[t], x)],
             \/ x = "expanded" /\ Branching(t, traj)
             \/ x \in {"answered", "stopped_early"} /\ ~Branching(t, traj)
      PROVE  TInv' /\ TreeStep
  <2>. DEFINE r == Marked(traj[t], x)
  <2>1. r.status = x /\ r.budget = traj[t].budget
    BY <1>3, MarkedFields
  <2>. HIDE DEF r
  <2>2. traj' = [traj EXCEPT ![t] = r] /\ traj'[t] = r
    BY <1>3, <1>5 DEF r
  <2>3. TInv'
    BY <1>1, <2>1, <2>2, ClosedInContexts
  <2>4. \/ OpenStatus(r) = "inner" /\ Branching(t, traj)
        \/ OpenStatus(r) = "closed" /\ ~Branching(t, traj)
    BY <1>5, <2>1 DEF OpenStatus
  <2>5. Rewrites(t)
    BY <1>4, <2>2, <2>4 DEF Rewrites
  <2>. QED
    BY <1>3, <2>3, <2>5 DEF TreeStep
<1>6. CASE MarkAnswered
  <2>1. traj' = [traj EXCEPT ![t] = Marked(traj[t], "answered")] /\ pc = "answered"
    BY <1>6 DEF MarkAnswered
  <2>2. RunningLeaf(t, traj)
    BY <1>3, <2>1 DEF TInv, Held, Spawning, Executing
  <2>. QED
    BY <1>5, <2>1, <2>2 DEF RunningLeaf
<1>7. CASE CloseParent
  <2>1. created <=> Branching(t, traj)
    BY <1>7 DEF CloseParent, TInv, Forking, Spawning
  <2>2. CASE created
    <3>1. traj' = [traj EXCEPT ![t] = Marked(traj[t], "expanded")]
      BY <1>7, <2>2 DEF CloseParent
    <3>. QED
      BY <1>5, <2>1, <2>2, <3>1
  <2>3. CASE ~created /\ parent.status = "running" /\ StopUnselected
    <3>1. traj' = [traj EXCEPT ![t] = Marked(traj[t], "stopped_early")]
      BY <1>7, <2>3 DEF CloseParent, FinalizeUnselected
    <3>. QED
      BY <1>5, <2>1, <2>3, <3>1
  <2>4. CASE ~created /\ ~(parent.status = "running" /\ StopUnselected)
    <3>1. traj' = traj
      BY <1>7, <2>4 DEF CloseParent, FinalizeUnselected
    <3>2. TInv'
      BY <1>1, <3>1, ClosedInContexts
    <3>. QED
      BY <3>1, <3>2 DEF TreeStep
  <2>. QED
    BY <2>2, <2>3, <2>4
<1>. QED
  BY <1>6, <1>7

\* The children that go on make the next frontier.
LEMMA RoundTree ==
    ASSUME IInv, TInv, StartNextRound
    PROVE  TInv' /\ UNCHANGED traj
<1>. USE DEF StartNextRound, disk, execution
<1>1. Rooted'
  BY DEF TInv, Rooted
<1>2. Apart'
  BY DEF TInv, Apart, Executing
<1>3. Held'
  BY DEF TInv, Held, Executing
<1>4. Forking'
  BY DEF Forking, Spawning, Executing
<1>. QED
  BY <1>1, <1>2, <1>3, <1>4 DEF TInv

\* A fork that failed leaves its parent open, though marked as an error.
LEMMA FailedForkTree ==
    ASSUME IInv, TInv, SpawnFails
    PROVE  TInv' /\ TreeStep
<1>. USE DEF family, execution
<1>. DEFINE t == Current.id
            r == MarkedError(traj[t], "child_init_error")
<1>1. /\ pc = "spawn" /\ pc' = "spawn" /\ traj' = [traj EXCEPT ![t] = r]
      /\ UNCHANGED <<budget0, frontier, contexts, nextFrontier, parent, created>>
  BY DEF SpawnFails, MoreToSpawn
<1>2. contexts # <<>>
  BY <1>1 DEF IInv, Places, Dispatching, Spawning
<1>3. /\ 1 \in DOMAIN contexts /\ Current = contexts[1] /\ t \in DOMAIN traj
      /\ traj[t] \in Record
  BY <1>2, CurrentIsFirst
<1>4. r.status = "error" /\ r.err = "child_init_error" /\ r.budget = traj[t].budget
  BY <1>3, MarkedErrorFields
<1>. HIDE DEF r
<1>5. OpenStatus(r) = "open"
  BY <1>4 DEF OpenStatus
<1>6. /\ Rooted' /\ DOMAIN traj' = DOMAIN traj /\ traj'[t] = r
      /\ \A u : RunningLeaf(u, traj) /\ u # t => RunningLeaf(u, traj')
      /\ Branching(t, traj') <=> Branching(t, traj)
  BY <1>1, <1>3, <1>4, RewrittenTree
<1>7. IsOpen(t, traj) /\ IsOpen(t, traj')
  BY <1>1, <1>3, <1>5, <1>6 DEF IsOpen, TInv, Forking, Spawning
<1>8. Apart'
  BY <1>1 DEF TInv, Apart, Executing
<1>9. Held'
  <2>1. \A i \in DOMAIN contexts : i # 1 => contexts[i].id # t
    BY <1>3 DEF TInv, Apart
  <2>2. \A i \in DOMAIN nextFrontier : nextFrontier[i] # t
    BY <1>3 DEF TInv, Apart
  <2>3. DOMAIN frontier = {} /\ pc' \notin Executing /\ pc' \in Spawning
    BY <1>1 DEF TInv, Apart, Spawning, Executing
  <2>. QED
    BY <1>1, <1>6, <2>1, <2>2, <2>3 DEF TInv, Held
<1>10. Forking'
  <2>1. Current' = Current
    BY <1>1 DEF Current
  <2>. QED
    BY <1>1, <1>6, <1>7, <2>1 DEF TInv, Forking, Spawning
<1>11. Rewrites(t)
  BY <1>1, <1>5, <1>6, <1>7 DEF Rewrites
<1>. QED
  BY <1>3, <1>6, <1>8, <1>9, <1>10, <1>11 DEF TInv, TreeStep

\* The child's directory is filled; its record is still to come.
LEMMA ForkedFilesTree ==
    ASSUME IInv, TInv, SpawnFiles
    PROVE  TInv' /\ UNCHANGED traj
<1>. USE DEF queue, family
<1>1. /\ pc = "spawn" /\ pc' = "child" /\ child' = NextChild
      /\ OrdersOf(Current.id) # {} /\ NextChild \notin DOMAIN dir
      /\ UNCHANGED <<traj, budget0, frontier, contexts, nextFrontier, parent, created>>
  BY DEF SpawnFiles, MoreToSpawn, Spawnable
<1>2. NextChild \notin DOMAIN traj
  BY <1>1 DEF IInv, Places
<1>3. NextSuggestion \in Suggestion
  BY <1>1, NextCandidateType DEF IInv, TypeOK
<1>4. Rooted'
  BY <1>1 DEF TInv, Rooted
<1>5. Apart'
  BY <1>1 DEF TInv, Apart, Executing
<1>6. Held'
  BY <1>1 DEF TInv, Held, Spawning, Executing
<1>7. Forking'
  <2>1. Current' = Current
    BY <1>1 DEF Current
  <2>2. child' = Append(Current.id, NextSuggestion)
    BY <1>1 DEF NextChild, ChildId
  <2>. QED
    BY <1>1, <1>2, <1>3, <2>1, <2>2 DEF TInv, Forking, Spawning
<1>. QED
  BY <1>1, <1>4, <1>5, <1>6, <1>7 DEF TInv

\* The child's record is written: the tree grows by one running leaf.
LEMMA ForkedRecordTree ==
    ASSUME IInv, TInv, SpawnRecord
    PROVE  TInv' /\ TreeStep
<1>. USE DEF execution
<1>. DEFINE t == Current.id
            r == ForkedRecord(parent)
<1>1. /\ pc = "child" /\ pc' = "execute" /\ traj' = Put(traj, child, r) /\ created' = TRUE
      /\ UNCHANGED <<budget0, frontier, contexts, nextFrontier, parent, child>>
  BY DEF SpawnRecord
<1>2. contexts # <<>>
  BY <1>1 DEF IInv, Places, Dispatching, Spawning
<1>3. /\ 1 \in DOMAIN contexts /\ Current = contexts[1] /\ t \in DOMAIN traj
      /\ t \in TrajectoryId
  BY <1>2, CurrentIsFirst
<1>4. /\ IsOpen(t, traj) /\ parent.budget = budget0 - Len(t) /\ child \notin DOMAIN traj
      /\ Len(t) < budget0
  BY <1>1, <1>3 DEF TInv, Held, Forking, Spawning
<1>5. PICK s \in Suggestion : child = Append(t, s)
  BY <1>1 DEF TInv, Forking
<1>6. /\ child \in TrajectoryId /\ child # Root /\ Len(child) = Len(t) + 1
      /\ Len(t) \in Nat /\ budget0 \in Nat
  BY <1>3, <1>5, ChildName DEF IInv, TypeOK
<1>7. r.status = "running" /\ r.budget = budget0 - Len(child)
  <2>1. parent \in Record /\ parent.budget \in Nat
    BY <1>4, <1>6 DEF IInv, TypeOK
  <2>2. r.status = "running" /\ r.budget = IF parent.budget > 0 THEN parent.budget - 1 ELSE 0
    BY <2>1 DEF ForkedRecord, Record
  <2>. HIDE DEF r
  <2>3. parent.budget > 0 /\ parent.budget - 1 = budget0 - Len(child)
    BY <1>4, <1>6
  <2>. QED
    BY <2>2, <2>3
<1>8. /\ DOMAIN traj' = DOMAIN traj \cup {child} /\ traj'[child] = r
      /\ \A u \in DOMAIN traj : traj'[u] = traj[u]
  BY <1>1, <1>4 DEF Put
<1>9. DOMAIN traj \subseteq TrajectoryId
  BY DEF IInv, TypeOK
<1>. HIDE DEF r
<1>10. RunningLeaf(child, traj')
  <2>1. ASSUME NEW q \in Suggestion, Append(child, q) \in DOMAIN traj'
        PROVE  FALSE
    <3>1. Append(child, q) # child /\ Append(child, q) # Root
      BY <1>6, ChildName
    <3>2. Append(child, q) \in DOMAIN traj
      BY <1>8, <2>1, <3>1
    <3>3. PICK p \in DOMAIN traj, x \in Suggestion : Append(child, q) = Append(p, x)
      BY <3>1, <3>2 DEF TInv, Rooted
    <3>4. child = p
      BY <1>6, <1>9, <3>3, OneParent
    <3>. QED
      BY <1>4, <3>4
  <2>. QED
    BY <1>7, <1>8, <2>1 DEF RunningLeaf, Branching
<1>11. \A u : RunningLeaf(u, traj) /\ u # t => RunningLeaf(u, traj')
  <2>. SUFFICES ASSUME NEW u, RunningLeaf(u, traj), u # t
                PROVE  RunningLeaf(u, traj')
    OBVIOUS
  <2>1. u \in DOMAIN traj
    BY DEF RunningLeaf
  <2>2. u \in TrajectoryId /\ traj'[u] = traj[u]
    BY <1>8, <1>9, <2>1
  <2>3. DOMAIN traj' = DOMAIN traj \cup {Append(t, s)}
    BY <1>5, <1>8
  <2>. QED
    BY <1>3, <2>2, <2>3, LeafBesideFork
<1>12. Rooted'
  <2>1. \A u \in DOMAIN traj' :
           u = Root \/ \E p \in DOMAIN traj', x \in Suggestion : u = Append(p, x)
    BY <1>3, <1>5, <1>8 DEF TInv, Rooted
  <2>2. \A u \in DOMAIN traj' : traj'[u].budget = budget0' - Len(u)
    BY <1>1, <1>7, <1>8 DEF TInv, Rooted
  <2>. QED
    BY <1>1, <1>3, <1>8, <2>1, <2>2 DEF TInv, Rooted
<1>13. Apart'
  <2>1. \A i \in DOMAIN contexts : contexts[i].id # child
    BY <1>4 DEF IInv, Places
  <2>2. \A i \in DOMAIN nextFrontier : nextFrontier[i] # child
    BY <1>4 DEF IInv, Places
  <2>. QED
    BY <1>1, <2>1, <2>2 DEF TInv, Apart
<1>14. Held'
  <2>1. \A i \in DOMAIN contexts : i # 1 => contexts[i].id # t
    BY <1>3 DEF TInv, Apart
  <2>2. \A i \in DOMAIN nextFrontier : nextFrontier[i] # t
    BY <1>3 DEF TInv, Apart
  <2>3. DOMAIN frontier = {} /\ pc' \in Spawning /\ pc' \in Executing /\ child' = child
    BY <1>1 DEF TInv, Apart, Spawning, Executing
  <2>. QED
    BY <1>1, <1>10, <1>11, <2>1, <2>2, <2>3 DEF TInv, Held
<1>15. Forking'
  <2>1. Current' = Current
    BY <1>1 DEF Current
  <2>2. Branching(t, traj')
    BY <1>5, <1>8 DEF Branching
  <2>3. IsOpen(t, traj')
    BY <1>3, <1>4, <1>8 DEF IsOpen
  <2>. QED
    BY <1>1, <1>4, <2>1, <2>2, <2>3 DEF Forking
<1>16. Forks(t, s)
  BY <1>1, <1>4, <1>5 DEF Forks, r
<1>. QED
  BY <1>3, <1>12, <1>13, <1>14, <1>15, <1>16 DEF TInv, TreeStep

\* The child's record is replaced while it is being executed, or for good.
LEMMA ChildTree ==
    ASSUME IInv, TInv, pc \in Executing, NEW r, r.budget = traj[child].budget,
           traj' = [traj EXCEPT ![child] = r], OpenStatus(r) \in {"open", "closed"},
           UNCHANGED <<dir, budget0, frontier, contexts, family>>,
           \/ pc' = "spawn"
           \/ pc' \in Executing /\ child' = child /\ r.status = "running",
           \/ nextFrontier' = nextFrontier
           \/ /\ nextFrontier' = Append(nextFrontier, child)
              /\ pc' = "spawn" /\ r.status = "running"
    PROVE  TInv' /\ TreeStep
<1>. USE DEF family
<1>1. contexts # <<>> /\ child \in DOMAIN traj /\ pc \in Spawning /\ pc' \in Spawning
  BY DEF IInv, Places, Dispatching, Spawning
<1>2. 1 \in DOMAIN contexts /\ Current = contexts[1]
  BY <1>1, CurrentIsFirst
<1>3. /\ \A i \in DOMAIN contexts : contexts[i].id # child
      /\ \A i \in DOMAIN nextFrontier : nextFrontier[i] # child
  BY DEF TInv, Apart
<1>4. RunningLeaf(child, traj)
  BY DEF TInv, Held
<1>5. pc # "plan" /\ pc' # "plan" /\ pc' # "root" /\ pc' # "child"
  BY DEF Executing
<1>6. /\ Rooted' /\ DOMAIN traj' = DOMAIN traj /\ traj'[child] = r
      /\ \A u : RunningLeaf(u, traj) /\ (u # child \/ r.status = "running") =>
            RunningLeaf(u, traj')
      /\ \A u : Branching(u, traj') <=> Branching(u, traj)
  BY <1>1, <1>5, RewrittenTree
<1>7. nextFrontier \in Seq(TrajectoryId)
  BY DEF IInv, TypeOK
<1>8. /\ \A i \in DOMAIN nextFrontier' :
            \/ i \in DOMAIN nextFrontier /\ nextFrontier'[i] = nextFrontier[i]
            \/ /\ i = Len(nextFrontier) + 1 /\ nextFrontier'[i] = child
               /\ pc' = "spawn" /\ r.status = "running"
      /\ Len(nextFrontier) + 1 \notin DOMAIN nextFrontier
  BY <1>7, AppendElements
<1>9. Apart'
  <2>1. \A i, j \in DOMAIN nextFrontier' : nextFrontier'[i] = nextFrontier'[j] => i = j
    BY <1>3, <1>8 DEF TInv, Apart
  <2>2. \A i \in DOMAIN contexts : \A j \in DOMAIN nextFrontier' :
           contexts[i].id # nextFrontier'[j]
    BY <1>3, <1>8 DEF TInv, Apart
  <2>3. pc' \in Executing => child' = child /\ nextFrontier' = nextFrontier
    BY DEF Executing
  <2>. QED
    BY <1>3, <1>5, <2>1, <2>2, <2>3 DEF TInv, Apart
<1>10. Held'
  <2>1. \A i \in DOMAIN nextFrontier' : RunningLeaf(nextFrontier'[i], traj')
    BY <1>3, <1>4, <1>6, <1>8 DEF TInv, Held
  <2>2. DOMAIN frontier = {}
    BY <1>5 DEF TInv, Apart
  <2>3. pc' \in Executing => RunningLeaf(child', traj')
    BY <1>4, <1>6 DEF Executing
  <2>. QED
    BY <1>1, <1>3, <1>6, <2>1, <2>2, <2>3 DEF TInv, Held
<1>11. Forking'
  <2>1. Current' = Current /\ Current.id # child
    BY <1>2, <1>3 DEF Current
  <2>2. traj'[Current.id] = traj[Current.id]
    BY <1>1, <2>1 DEF TInv, Forking, IsOpen
  <2>. QED
    BY <1>1, <1>5, <1>6, <2>1, <2>2 DEF TInv, Forking, IsOpen
<1>12. Rewrites(child)
  BY <1>4, <1>6, LeafIsOpen DEF Rewrites, RunningLeaf
<1>. QED
  BY <1>1, <1>6, <1>9, <1>10, <1>11, <1>12 DEF TInv, TreeStep

\* Executing one step of the child.
LEMMA ExecutionTree ==
    ASSUME IInv, TInv,
           \/ ExecutorFails \/ RuntimeFails \/ JudgeFails
           \/ RegisterStepRecord \/ RegisterJudgeRecord \/ FinalizeChild
    PROVE  TInv' /\ TreeStep
<1>1. pc \in Executing
  BY DEF Executing, ExecutorFails, RuntimeFails, JudgeFails, RegisterStepRecord,
     RegisterJudgeRecord, FinalizeChild
<1>. DEFINE q == traj[child]
<1>2. child \in DOMAIN traj /\ q \in Record /\ q.status = "running"
  BY <1>1 DEF IInv, TypeOK, Places, TInv, Held, RunningLeaf
<1>3. CASE ExecutorFails \/ RuntimeFails \/ JudgeFails
  <2>1. PICK c \in {"executor_error", "runtime_error", "judge_error"} : ChildError(c)
    BY <1>3 DEF ExecutorFails, RuntimeFails, JudgeFails
  <2>. DEFINE r == MarkedError(q, c)
  <2>2. /\ traj' = [traj EXCEPT ![child] = r] /\ pc' = "spawn" /\ nextFrontier' = nextFrontier
        /\ UNCHANGED <<dir, budget0, frontier, contexts, family>>
    BY <2>1 DEF ChildError, LeaveChild, queue
  <2>3. r.status = "error" /\ r.err = c /\ r.budget = q.budget
    BY <1>2, MarkedErrorFields
  <2>. HIDE DEF r
  <2>4. OpenStatus(r) = "closed"
    BY <2>3 DEF OpenStatus
  <2>. QED
    BY <1>1, <2>2, <2>3, <2>4, ChildTree
<1>4. CASE RegisterStepRecord \/ RegisterJudgeRecord
  <2>1. PICK ref : traj' = [traj EXCEPT ![child] = Stepped(q, ref)]
                   \/ traj' = [traj EXCEPT ![child] = Judged(q, ref)]
    BY <1>4 DEF RegisterStepRecord, RegisterJudgeRecord
  <2>2. PICK r : /\ traj' = [traj EXCEPT ![child] = r]
                 /\ r.status = "running" /\ r.budget = q.budget
    BY <1>2, <2>1 DEF Stepped, Judged, Record
  <2>3. OpenStatus(r) = "open"
    BY <2>2 DEF OpenStatus
  <2>4. /\ pc' \in Executing /\ child' = child /\ nextFrontier' = nextFrontier
        /\ UNCHANGED <<dir, budget0, frontier, contexts, family>>
    BY <1>4 DEF RegisterStepRecord, RegisterJudgeRecord, Executing, queue, execution
  <2>. QED
    BY <1>1, <2>2, <2>3, <2>4, ChildTree
<1>5. CASE FinalizeChild
  <2>. DEFINE r == Marked(q, StatusAfterStep)
  <2>1. /\ traj' = [traj EXCEPT ![child] = r] /\ pc' = "spawn"
        /\ nextFrontier' = IF StatusAfterStep = "running"
                           THEN Append(nextFrontier, child) ELSE nextFrontier
        /\ UNCHANGED <<dir, budget0, frontier, contexts, family>>
    BY <1>5 DEF FinalizeChild, LeaveChild
  <2>2. r.status = StatusAfterStep /\ r.budget = q.budget
    BY <1>2, MarkedFields
  <2>3. StatusAfterStep \in {"failed", "pruned", "max_step_reached", "running"}
    BY DEF StatusAfterStep
  <2>. HIDE DEF r
  <2>4. OpenStatus(r) \in {"open", "closed"}
    BY <2>2, <2>3 DEF OpenStatus
  <2>. QED
    BY <1>1, <2>1, <2>2, <2>4, ChildTree
<1>. QED
  BY <1>3, <1>4, <1>5

\* Every step keeps the invariant and does to the records what a tree allows.
LEMMA NextTree ==
    ASSUME IInv, TInv, [Next]_vars
    PROVE  TInv' /\ TreeStep
<1>1. ASSUME Next PROVE TInv' /\ TreeStep
  <2>1. CASE \/ InitRootFails \/ InitRootRefused \/ ResolveInputFails \/ Crash \/ Rerun
    <3>1. UNCHANGED traj
      BY <2>1 DEF InitRootFails, InitRootRefused, ResolveInputFails, Crash, Rerun, Raise,
         Forget, disk
    <3>. QED
      BY <2>1, <3>1, ProcessTree DEF TreeStep
  <2>. QED
    BY <1>1, <2>1, QuietSteps, RootTree, FrontierTree, PlannedTree, RegisteredTree,
       ContextTree, RoundTree, FailedForkTree, ForkedFilesTree, ForkedRecordTree,
       ExecutionTree DEF Next, Step, TreeStep
<1>2. CASE UNCHANGED vars
  <2>. USE <1>2 DEF vars, disk, memory, queue, family, execution
  <2>1. Rooted' /\ Apart'
    BY DEF TInv, Rooted, Apart
  <2>2. Held'
    BY DEF TInv, Held
  <2>3. Forking'
    BY DEF TInv, Forking, Current
  <2>. QED
    BY <2>1, <2>2, <2>3 DEF TInv, TreeStep
<1>. QED
  BY <1>1, <1>2
-----------------------------------------------------------------------------
(* Theorems. *)

\* The loop's memory and the tree on disk agree in every reachable state.
THEOREM TreeInvariant == Spec => []TInv
<1>1. IInv /\ TInv /\ [Next]_vars => TInv'
  BY NextTree
<1>. QED
  BY InductiveInvariant, InitTree, <1>1, PTL DEF Spec

\* The records as the tree of TrajectoryTree.
Shape == [t \in DOMAIN traj |-> OpenStatus(traj[t])]

\* No step does to that tree what TrajectoryTree forbids.
LEMMA StepRefines ==
    ASSUME IInv, TreeStep, budget0' = budget0
    PROVE  [Tree!Next]_<<Shape, budget0>>
<1>1. CASE UNCHANGED traj
  BY <1>1 DEF Shape
<1>2. CASE DOMAIN traj = {} /\ traj' = Put(traj, Root, NewRecord(budget0))
  <2>1. DOMAIN traj' = {Root} /\ traj'[Root] = NewRecord(budget0)
    BY <1>2 DEF Put
  <2>2. OpenStatus(traj'[Root]) = "open"
    BY <2>1 DEF NewRecord, OpenStatus
  <2>3. Shape = <<>>
    BY <1>2 DEF Shape
  <2>4. Shape' = [t \in {Root} |-> "open"]
    BY <2>1, <2>2 DEF Shape
  <2>5. Tree!Plant
    BY <2>3, <2>4 DEF Tree!Plant, Shape, Root
  <2>. QED
    BY <2>5 DEF Tree!Next
<1>3. ASSUME NEW t \in DOMAIN traj, NEW s \in Suggestion, Forks(t, s)
      PROVE  Tree!Next
  <2>. DEFINE c == Append(t, s)
  <2>1. /\ DOMAIN traj' = DOMAIN traj \cup {c} /\ traj'[c] = ForkedRecord(parent)
        /\ \A u \in DOMAIN traj : traj'[u] = traj[u]
    BY <1>3 DEF Forks, Put
  <2>2. OpenStatus(traj'[c]) = "open"
    <3>1. parent \in Record
      BY DEF IInv, TypeOK
    <3>2. ForkedRecord(parent).status = "running"
      BY <3>1 DEF ForkedRecord, Record
    <3>. QED
      BY <2>1, <3>2 DEF OpenStatus
  <2>. HIDE DEF c
  <2>3. Shape' = [x \in DOMAIN Shape \cup {c} |-> IF x = c THEN "open" ELSE Shape[x]]
    BY <1>3, <2>1, <2>2 DEF Shape
  <2>4. t \in DOMAIN Shape /\ Shape[t] = "open" /\ c \notin DOMAIN Shape /\ Len(t) < budget0
    BY <1>3 DEF Shape, Forks, IsOpen, c
  <2>5. Tree!Fork(t, s)
    BY <2>3, <2>4 DEF Tree!Fork, Shape, c
  <2>. QED
    BY <2>4, <2>5 DEF Tree!Next, Shape
<1>4. ASSUME NEW t \in DOMAIN traj, Rewrites(t)
      PROVE  [Tree!Next]_<<Shape, budget0>>
  <2>1. /\ DOMAIN traj' = DOMAIN traj
        /\ \A u \in DOMAIN traj : u # t => traj'[u] = traj[u]
    BY <1>4 DEF Rewrites
  <2>2. Shape' = [Shape EXCEPT ![t] = OpenStatus(traj'[t])] /\ DOMAIN Shape = DOMAIN traj
    BY <2>1 DEF Shape
  <2>3. t \in DOMAIN Shape /\ Shape[t] = "open"
    BY <1>4 DEF Shape, Rewrites, IsOpen
  <2>4. Tree!HasChild(t) <=> Branching(t, traj)
    BY DEF Tree!HasChild, Branching
  <2>5. CASE OpenStatus(traj'[t]) = "open"
    BY <2>2, <2>3, <2>5 DEF Shape
  <2>6. CASE OpenStatus(traj'[t]) = "inner" /\ Branching(t, traj)
    <3>1. Tree!Expand(t)
      BY <2>2, <2>3, <2>4, <2>6 DEF Tree!Expand, Shape
    <3>. QED
      BY <2>3, <3>1 DEF Tree!Next, Shape
  <2>7. CASE OpenStatus(traj'[t]) = "closed" /\ ~Branching(t, traj)
    <3>1. Tree!Close(t)
      BY <2>2, <2>3, <2>4, <2>7 DEF Tree!Close, Shape
    <3>. QED
      BY <2>3, <3>1 DEF Tree!Next, Shape
  <2>. QED
    BY <1>4, <2>5, <2>6, <2>7 DEF Rewrites
<1>. QED
  BY <1>1, <1>2, <1>3, <1>4 DEF TreeStep

\* The budget of a run never changes.
LEMMA BudgetKept == [Next]_vars => budget0' = budget0
BY DEF Next, Step, vars, disk, memory, Forget, Raise, Crash, Rerun, ChildError,
   InitRootFails, InitRootRefused, InitRootFiles, InitRootRecord, SkipTrajectory,
   PlannerFails, PlanTrajectory, SelectFrontier, Finish, SavePlannerOutput,
   RegisterPlannerRound, AppendFinalAnswer, MarkAnswered, SpawnFails, SpawnFiles,
   SpawnRecord, CloseParent, StartNextRound, ResolveInputFails, ExecutorFails,
   RunExecutor, RuntimeFails, RunRuntime, AppendStepMessages, RegisterStepRecord,
   JudgeFails, SaveJudgeRecord, RegisterJudgeRecord, FinalizeChild

\* The branching loop with its crashes, reruns and failing calls implements the
\* tree, for every number of suggestions, beam width and budget: forks happen below
\* open trajectories only, no deeper than the budget, a trajectory with children
\* becomes an inner node and one without is closed, for good
\* (init_child_trajectory, mark_trajectory_expanded, mark_trajectory_status).
THEOREM LoopImplementsTree == Spec => ImplementsTree
<1>1. Init => Tree!Init
  <2>. SUFFICES ASSUME Init PROVE Tree!Init
    OBVIOUS
  <2>1. DOMAIN traj = {}
    BY DEF Init
  <2>2. Shape = <<>>
    BY <2>1 DEF Shape
  <2>3. budget0 \in Nat
    BY OrchestratorAssumption DEF Init
  <2>. QED
    BY <2>2, <2>3 DEF Tree!Init, Shape
<1>2. IInv /\ TInv /\ [Next]_vars => [Tree!Next]_<<Shape, budget0>>
  BY NextTree, BudgetKept, StepRefines
<1>3. IInv /\ TInv /\ [Next]_vars =>
         [Tree!Next]_<<[t \in DOMAIN traj |-> OpenStatus(traj[t])], budget0>>
  BY <1>2 DEF Shape
<1>. QED
  BY <1>1, <1>3, InductiveInvariant, TreeInvariant, PTL DEF Spec, ImplementsTree, Tree!Spec

\* Only the files of an open trajectory are written.
LEMMA ClosedFilesKept ==
    ASSUME IInv, TInv, [Next]_vars, NEW t \in DOMAIN traj, ~IsOpen(t, traj)
    PROVE  dir'[t] = dir[t]
<1>1. t \in DOMAIN dir
  BY DEF IInv, Places
<1>2. CASE UNCHANGED dir
  BY <1>2
<1>3. CASE InitRootFiles
  BY <1>1, <1>3 DEF InitRootFiles, Put
<1>4. CASE SpawnFiles
  BY <1>1, <1>4 DEF SpawnFiles, Spawnable, Put
<1>5. CASE SavePlannerOutput \/ AppendFinalAnswer
  <2>1. pc \in {"register", "answer"} /\ contexts # <<>>
    BY <1>5 DEF SavePlannerOutput, AppendFinalAnswer, IInv, Places, Dispatching
  <2>2. RunningLeaf(Current.id, traj)
    BY <2>1, CurrentIsFirst DEF TInv, Held, Spawning, Executing
  <2>3. t # Current.id
    BY <2>2, LeafIsOpen
  <2>. QED
    BY <1>1, <1>5, <2>3 DEF SavePlannerOutput, AppendFinalAnswer
<1>6. CASE RunRuntime \/ AppendStepMessages \/ SaveJudgeRecord
  <2>1. pc \in Executing
    BY <1>6 DEF RunRuntime, AppendStepMessages, SaveJudgeRecord, Executing
  <2>2. t # child
    BY <2>1, LeafIsOpen DEF TInv, Held
  <2>. QED
    BY <1>1, <1>6, <2>2 DEF RunRuntime, AppendStepMessages, SaveJudgeRecord
<1>7. \/ UNCHANGED dir \/ InitRootFiles \/ SpawnFiles \/ SavePlannerOutput
      \/ AppendFinalAnswer \/ RunRuntime \/ AppendStepMessages \/ SaveJudgeRecord
  BY DEF Next, Step, vars, disk, Forget, Raise, Crash, Rerun, ChildError,
     InitRootFails, InitRootRefused, InitRootRecord, SkipTrajectory, PlannerFails,
     PlanTrajectory, SelectFrontier, Finish, RegisterPlannerRound, MarkAnswered,
     SpawnFails, SpawnRecord, CloseParent, StartNextRound, ResolveInputFails,
     ExecutorFails, RunExecutor, RuntimeFails, RegisterStepRecord, JudgeFails,
     RegisterJudgeRecord, FinalizeChild
<1>. QED
  BY <1>2, <1>3, <1>4, <1>5, <1>6, <1>7

\* Nor is the record of any other trajectory.
LEMMA ClosedRecordKept ==
    ASSUME TreeStep, NEW t \in DOMAIN traj, ~IsOpen(t, traj)
    PROVE  traj'[t] = traj[t]
<1>1. CASE UNCHANGED traj
  BY <1>1
<1>2. CASE DOMAIN traj = {}
  BY <1>2
<1>3. ASSUME NEW u \in DOMAIN traj, NEW s \in Suggestion, Forks(u, s)
      PROVE  traj'[t] = traj[t]
  BY <1>3 DEF Forks, Put
<1>4. ASSUME NEW u \in DOMAIN traj, Rewrites(u)
      PROVE  traj'[t] = traj[t]
  <2>1. t # u /\ traj' = [traj EXCEPT ![u] = traj'[u]]
    BY <1>4 DEF Rewrites
  <2>. QED
    BY <2>1
<1>. QED
  BY <1>1, <1>2, <1>3, <1>4 DEF TreeStep

\* What reached a terminal status, other than through a failed fork, is never
\* written again, neither trajectory.json nor a file beside it, by this run or by a
\* later one on the same sample.
THEOREM TerminalStaysFinal == Spec => TerminalIsFinal
<1>. DEFINE Kept == \A t \in DOMAIN traj :
                      traj[t].status \in Terminal /\ traj[t].err # "child_init_error" =>
                          traj'[t] = traj[t] /\ dir'[t] = dir[t]
<1>1. IInv /\ TInv /\ [Next]_vars => Kept
  <2>. SUFFICES ASSUME IInv, TInv, [Next]_vars, NEW t \in DOMAIN traj,
                       traj[t].status \in Terminal, traj[t].err # "child_init_error"
                PROVE  traj'[t] = traj[t] /\ dir'[t] = dir[t]
    OBVIOUS
  <2>1. OpenStatus(traj[t]) # "open"
    BY DEF Terminal, OpenStatus
  <2>2. ~IsOpen(t, traj)
    BY <2>1 DEF IsOpen
  <2>. QED
    BY <2>2, NextTree, ClosedRecordKept, ClosedFilesKept
<1>2. IInv /\ TInv /\ [Next]_vars => [Kept]_vars
  BY <1>1
<1>. HIDE DEF Kept
<1>3. Spec => [][Kept]_vars
  BY <1>2, InductiveInvariant, TreeInvariant, PTL DEF Spec
<1>. QED
  BY <1>3 DEF TerminalIsFinal, Kept
-----------------------------------------------------------------------------
(* What every record and its transcript tell of the trajectory. *)

\* The steps of executing a child before and after it is registered.
Unregistered == {"execute", "runtime", "messages", "step"}
AfterStep == {"judge", "judged", "finalize"}
BeforeRound == {"plan", "register", "record"}

\* A trajectory that is still to be planned.
Unplanned(t, T) ==
    /\ T[t].lastRound = Len(t) - 1 /\ T[t].step = Len(t)
    /\ ~T[t].pending /\ ~T[t].answered

\* A record at depth n was planned in n - 1 rounds or n, its last step is n unless
\* that one is pending or failed, and its steps are all registered, from the first.
Measured(t, r) ==
    /\ r.lastRound \in {Len(t) - 1, Len(t)}
    /\ r.step \in {Len(t) - 1, Len(t)}
    /\ r.step # Len(t) =>
          \/ r.pending /\ r.status = "running"
          \/ r.err \in {"executor_error", "runtime_error"}
    /\ {p[2] : p \in r.steps} = 1..r.step

\* A transcript tells the steps registered, then perhaps the answer or the
\* pending step.
Told(r, m) ==
    \/ m = Transcript(r.step) /\ r.status # "answered"
    \/ /\ m = Append(Transcript(r.step), FinalAnswer)
       /\ r.answered /\ r.status \in {"running", "answered"}
    \/ m = Transcript(r.step + 1) /\ r.status = "running" /\ r.pending

\* Every stored trajectory is measured, and told by its transcript.
Records == \A t \in DOMAIN traj : Measured(t, traj[t]) /\ Told(traj[t], dir[t].msgs)

\* The pending execution is the child's, or what a killed run left.
Pending ==
    \A t \in DOMAIN traj : traj[t].pending =>
       /\ RunningLeaf(t, traj)
       /\ \A u \in DOMAIN traj : traj[u].pending => u = t
       /\ pc \in Ended \cup {"start"} \/ (pc \in Unregistered /\ t = child)

\* What the loop still has to plan.
Planned ==
    /\ \A i \in DOMAIN frontier : Unplanned(frontier[i], traj)
    /\ \A i \in DOMAIN nextFrontier : Unplanned(nextFrontier[i], traj)
    /\ \A i \in DOMAIN contexts : contexts[i].round = Len(contexts[i].id)
    /\ \A i \in DOMAIN contexts :
          i # 1 \/ pc \in BeforeRound => Unplanned(contexts[i].id, traj)

\* The parent whose round is registered, on disk and as a child will copy it.
Registering ==
    /\ pc \in {"answer", "answered"} =>
          traj[Current.id].answered /\ traj[Current.id].step = Len(Current.id)
    /\ pc = "answer" => dir[Current.id].msgs = Transcript(Len(Current.id))
    /\ pc = "answered" =>
          dir[Current.id].msgs = Append(Transcript(Len(Current.id)), FinalAnswer)
    /\ pc \in Spawning =>
          /\ ~traj[Current.id].answered /\ traj[Current.id].step = Len(Current.id)
          /\ ~parent.answered /\ parent.step = Len(Current.id)
          /\ parent.lastRound = Len(Current.id)
          /\ {p[2] : p \in parent.steps} = 1..parent.step

\* The child, from its directory to its last record.
Growing ==
    /\ pc = "root" => dir[Root].msgs = Transcript(0)
    /\ pc = "child" => dir[child].msgs = Transcript(Len(Current.id))
    /\ pc \in Executing => traj[child].lastRound = Len(child) - 1 /\ ~traj[child].answered
    /\ pc \in Unregistered => traj[child].step = Len(child) - 1 /\ traj[child].pending
    /\ pc \in AfterStep => traj[child].step = Len(child)
    /\ pc \in Unregistered \ {"step"} => dir[child].msgs = Transcript(Len(child) - 1)
    /\ pc = "step" => dir[child].msgs = Transcript(Len(child))

\* What a step preserves, given IInv and TInv.
DInv == Records /\ Pending /\ Planned /\ Registering /\ Growing
-----------------------------------------------------------------------------
(* Operators, and effects that several actions share. *)

\* A step adds a call and its result to the transcript.
LEMMA TranscriptNext ==
    ASSUME NEW n \in Nat
    PROVE  Transcript(n) \o <<<<"executor_step", n + 1>>, <<"tool_result", n + 1>>>>
              = Transcript(n + 1)
<1>. DEFINE M == MessageKind \X Nat
            two == <<<<"executor_step", n + 1>>, <<"tool_result", n + 1>>>>
            T == Transcript(n)
            U == Transcript(n + 1)
            k == 2 + 2 * n
<1>1. T \in Seq(M) /\ U \in Seq(M) /\ two \in Seq(M)
  <2>1. two \in Seq(M)
    BY DEF MessageKind
  <2>2. n + 1 \in Nat
    OBVIOUS
  <2>. QED
    BY <2>1, <2>2, TranscriptType
<1>2. Len(T) = k /\ Len(U) = k + 2 /\ k \in Nat /\ k >= 2
  <2>1. DOMAIN T = 1..k /\ DOMAIN U = 1..(k + 2)
    BY DEF Transcript
  <2>2. k \in Nat /\ k >= 2
    OBVIOUS
  <2>. HIDE DEF T, U, k, M
  <2>. QED
    BY <1>1, <2>1, <2>2
<1>3. ASSUME NEW i \in 1..k PROVE U[i] = T[i]
  BY <1>3 DEF Transcript
<1>4. U[k + 1] = <<"executor_step", n + 1>>
  <2>1. 3 + 2 * n \in 1..(2 + 2 * (n + 1)) /\ 3 + 2 * n > 2
    OBVIOUS
  <2>2. (3 + 2 * n) % 2 = 1 /\ ((3 + 2 * n) - 1) \div 2 = n + 1
    OBVIOUS
  <2>3. k + 1 = 3 + 2 * n
    OBVIOUS
  <2>. HIDE DEF k
  <2>. QED
    BY <2>1, <2>2, <2>3 DEF Transcript
<1>5. U[k + 2] = <<"tool_result", n + 1>>
  <2>1. 4 + 2 * n \in 1..(2 + 2 * (n + 1)) /\ 4 + 2 * n > 2
    OBVIOUS
  <2>2. (4 + 2 * n) % 2 = 0 /\ ((4 + 2 * n) - 2) \div 2 = n + 1
    OBVIOUS
  <2>3. k + 2 = 4 + 2 * n
    OBVIOUS
  <2>. HIDE DEF k
  <2>. QED
    BY <2>1, <2>2, <2>3 DEF Transcript
<1>6. two[1] = <<"executor_step", n + 1>> /\ two[2] = <<"tool_result", n + 1>> /\ Len(two) = 2
  OBVIOUS
<1>. HIDE DEF two, T, U, k, M
<1>7. /\ T \o two \in Seq(M) /\ Len(T \o two) = k + 2
      /\ \A i \in 1..(k + 2) :
            (T \o two)[i] = IF i <= k THEN T[i] ELSE two[i - k]
  <2>1. /\ T \o two \in Seq(M) /\ Len(T \o two) = Len(T) + Len(two)
        /\ \A i \in 1..(Len(T) + Len(two)) :
              (T \o two)[i] = IF i <= Len(T) THEN T[i] ELSE two[i - Len(T)]
    BY <1>1, ConcatProperties, Zenon
  <2>2. Len(T) = k /\ Len(T) + Len(two) = k + 2
    BY <1>2, <1>6
  <2>. QED
    BY <2>1, <2>2, Zenon
<1>8. ASSUME NEW i \in 1..(k + 2) PROVE (T \o two)[i] = U[i]
  <2>1. CASE i <= k
    BY <1>2, <1>3, <1>7, <2>1
  <2>2. CASE i = k + 1
    <3>1. ~(i <= k) /\ i - k = 1
      BY <1>2, <2>2
    <3>. QED
      BY <1>4, <1>6, <1>7, <2>2, <3>1
  <2>3. CASE i = k + 2
    <3>1. ~(i <= k) /\ i - k = 2
      BY <1>2, <2>3
    <3>. QED
      BY <1>5, <1>6, <1>7, <2>3, <3>1
  <2>4. i <= k \/ i = k + 1 \/ i = k + 2
    BY <1>2
  <2>. QED
    BY <2>1, <2>2, <2>3, <2>4
<1>9. T \o two = U
  BY <1>1, <1>2, <1>7, <1>8, SeqEqual
<1>. QED
  BY <1>9 DEF two, T, U

\* What the invariant says of a trajectory still to be planned.
LEMMA UnplannedTold ==
    ASSUME NEW r, NEW m, Told(r, m), ~r.pending, ~r.answered
    PROVE  m = Transcript(r.step) /\ r.status # "answered"
BY DEF Told

\* Nothing is pending while the loop is at work, but the child.
LEMMA NonePending ==
    ASSUME Pending, pc \notin Ended \cup {"start"}, NEW t \in DOMAIN traj,
           pc \in Unregistered => t # child
    PROVE  ~traj[t].pending
BY DEF Pending
\* A crash or a new run loses the memory, the records and transcripts stay.
LEMMA ForgetDepth ==
    ASSUME DInv, Forget, pc' \in Ended \cup {"start"}
    PROVE  DInv'
<1>. USE DEF Forget, disk
<1>1. Records' /\ Pending'
  BY DEF DInv, Records, Pending
<1>2. Planned' /\ Registering' /\ Growing'
  BY DEF Planned, Registering, Growing, Ended, Spawning, Executing, Unregistered, AfterStep
<1>. QED
  BY <1>1, <1>2 DEF DInv

\* Neither the records nor the transcripts change.
QuietMove ==
    \/ pc' = pc
    \/ pc = "plan" /\ pc' \in {"register", "done"}
    \/ pc = "register" /\ pc' = "record"
    \/ pc = "execute" /\ pc' = "runtime"
    \/ pc = "runtime" /\ pc' = "messages"
    \/ pc = "judge" /\ pc' = "judged"

\* Such a step keeps what the records tell.
LEMMA QuietDepth ==
    ASSUME IInv, DInv, QuietMove,
           UNCHANGED <<traj, frontier, contexts, nextFrontier, family, child>>,
           \A u \in DOMAIN dir : dir'[u].msgs = dir[u].msgs
    PROVE  DInv'
<1>. USE DEF family
<1>1. Current' = Current
  BY DEF Current
<1>2. /\ pc \in Dispatching => Current.id \in DOMAIN dir
      /\ pc = "root" => Root \in DOMAIN dir
      /\ pc \in {"child"} \cup Executing => child \in DOMAIN dir
  BY CurrentContext DEF IInv, Places
<1>3. Records'
  BY DEF DInv, IInv, Places, Records
<1>4. Pending'
  <2>1. /\ pc \in Ended \cup {"start"} => pc' = pc
        /\ pc \in Unregistered => pc' \in Unregistered
    BY DEF QuietMove, Ended, Unregistered
  <2>. QED
    BY <2>1 DEF DInv, Pending
<1>5. Planned'
  <2>1. pc' \in BeforeRound => pc \in BeforeRound
    BY DEF QuietMove, BeforeRound
  <2>. QED
    BY <2>1 DEF DInv, Planned
<1>6. Registering'
  <2>1. /\ pc' \in {"answer", "answered"} => pc' = pc /\ pc \in Dispatching
        /\ pc' \in Spawning => pc \in Spawning
    BY DEF QuietMove, Dispatching, Spawning, Executing
  <2>. QED
    BY <1>1, <1>2, <2>1 DEF DInv, Registering
<1>7. Growing'
  <2>1. /\ pc' \in {"root", "child", "step"} => pc' = pc
        /\ pc' \in Executing => pc \in Executing
        /\ pc' \in Unregistered => pc \in Unregistered
        /\ pc' \in AfterStep => pc \in AfterStep
        /\ pc' \in Unregistered \ {"step"} => pc \in Unregistered \ {"step"}
        /\ Unregistered \subseteq Executing /\ "step" \in Executing
    BY DEF QuietMove, Executing, Unregistered, AfterStep
  <2>2. pc' \in Executing => dir'[child].msgs = dir[child].msgs
    BY <1>2, <2>1
  <2>. QED
    BY <1>1, <1>2, <2>1, <2>2 DEF DInv, Growing
<1>. QED
  BY <1>3, <1>4, <1>5, <1>6, <1>7 DEF DInv

\* One record is replaced by one that is not pending, no transcript changes.
LEMMA RewrittenDepth ==
    ASSUME DInv, NEW t \in DOMAIN traj, NEW r, traj' = [traj EXCEPT ![t] = r],
           UNCHANGED dir, Measured(t, r), Told(r, dir[t].msgs), ~r.pending,
           pc \notin Ended \cup {"start"}, pc \in Unregistered => t = child
    PROVE  /\ Records' /\ Pending'
           /\ DOMAIN traj' = DOMAIN traj /\ traj'[t] = r
           /\ \A u \in DOMAIN traj : u # t => traj'[u] = traj[u]
<1>1. /\ DOMAIN traj' = DOMAIN traj /\ traj'[t] = r
      /\ \A u \in DOMAIN traj : u # t => traj'[u] = traj[u]
  OBVIOUS
<1>2. Records'
  <2>1. ASSUME NEW u \in DOMAIN traj'
        PROVE  Measured(u, traj'[u]) /\ Told(traj'[u], dir'[u].msgs)
    BY <1>1, <2>1 DEF DInv, Records
  <2>. QED
    BY <2>1 DEF Records
<1>3. \A u \in DOMAIN traj' : ~traj'[u].pending
  BY <1>1, NonePending DEF DInv
<1>. QED
  BY <1>1, <1>2, <1>3 DEF Pending

\* Whatever else a change of status leaves as it was.
LEMMA MarkedDepth ==
    ASSUME NEW r \in Record, NEW x
    PROVE  /\ Marked(r, x).lastRound = r.lastRound /\ Marked(r, x).step = r.step
           /\ Marked(r, x).steps = r.steps /\ Marked(r, x).answered = r.answered
           /\ Marked(r, x).err = r.err /\ Marked(r, x).status = x
           /\ Marked(r, x).pending = FALSE
BY DEF Marked, Record

\* The same of a failure.
LEMMA MarkedErrorDepth ==
    ASSUME NEW r \in Record, NEW c
    PROVE  /\ MarkedError(r, c).lastRound = r.lastRound /\ MarkedError(r, c).step = r.step
           /\ MarkedError(r, c).steps = r.steps /\ MarkedError(r, c).answered = r.answered
           /\ MarkedError(r, c).err = c /\ MarkedError(r, c).status = "error"
           /\ MarkedError(r, c).pending = FALSE
BY DEF MarkedError, Marked, Record

\* The numbers a record holds.
LEMMA RecordNumbers ==
    ASSUME IInv, NEW t \in DOMAIN traj
    PROVE  /\ traj[t] \in Record /\ t \in TrajectoryId /\ Len(t) \in Nat
           /\ traj[t].step \in Nat /\ traj[t].lastRound \in Int
           /\ traj[t].pending \in BOOLEAN /\ traj[t].answered \in BOOLEAN
<1>1. traj[t] \in Record /\ t \in TrajectoryId
  BY DEF IInv, TypeOK
<1>. QED
  BY <1>1 DEF Record, TrajectoryId
-----------------------------------------------------------------------------
(* The initial state and the steps. *)

\* Nothing is on disk at first.
LEMMA InitDepth == Init => DInv
<1>. SUFFICES ASSUME Init PROVE DInv
  OBVIOUS
<1>. USE DEF Init, Idle
<1>1. Records /\ Pending
  BY DEF Records, Pending
<1>2. Planned /\ Registering /\ Growing
  BY DEF Planned, Registering, Growing, Ended, Spawning, Executing, Unregistered, AfterStep
<1>. QED
  BY <1>1, <1>2 DEF DInv

\* Steps that write neither a record nor a transcript.
LEMMA QuietDepthSteps ==
    ASSUME IInv, DInv,
           \/ SelectFrontier \/ Finish \/ SavePlannerOutput \/ RunExecutor \/ RunRuntime
           \/ SaveJudgeRecord \/ UNCHANGED vars
    PROVE  DInv'
<1>. USE DEF disk, queue, family, execution, memory
<1>1. QuietMove
  BY DEF QuietMove, SelectFrontier, Finish, SavePlannerOutput, RunExecutor, RunRuntime,
     SaveJudgeRecord, vars
<1>2. UNCHANGED <<traj, frontier, contexts, nextFrontier, family, child>>
  BY DEF SelectFrontier, Finish, SavePlannerOutput, RunExecutor, RunRuntime,
     SaveJudgeRecord, vars
<1>3. \A u \in DOMAIN dir : IsDirectory(dir[u])
  BY DEF IInv, TypeOK
<1>4. \A u \in DOMAIN dir : dir'[u].msgs = dir[u].msgs
  <2>1. CASE SelectFrontier \/ Finish \/ RunExecutor \/ UNCHANGED vars
    BY <2>1 DEF SelectFrontier, Finish, RunExecutor, vars
  <2>2. CASE SavePlannerOutput
    BY <1>3, <2>2 DEF SavePlannerOutput, IsDirectory
  <2>3. CASE RunRuntime
    BY <1>3, <2>3 DEF RunRuntime, IsDirectory
  <2>4. CASE SaveJudgeRecord
    BY <1>3, <2>4 DEF SaveJudgeRecord, IsDirectory
  <2>. QED
    BY <2>1, <2>2, <2>3, <2>4
<1>. QED
  BY <1>1, <1>2, <1>4, QuietDepth

\* The root's two writes.
LEMMA RootDepth ==
    ASSUME IInv, TInv, DInv, InitRootFiles \/ InitRootRecord
    PROVE  DInv'
<1>. USE DEF disk, queue, family, execution
<1>1. CASE InitRootFiles
  <2>. USE <1>1 DEF InitRootFiles
  <2>1. DOMAIN traj = {} /\ dir'[Root].msgs = Transcript(0)
    BY DEF IInv, Places, TInv, Rooted, Put, EmptyDir
  <2>2. Records' /\ Pending'
    BY <2>1 DEF Records, Pending
  <2>3. Planned' /\ Registering'
    <3>1. DOMAIN frontier = {} /\ DOMAIN nextFrontier = {} /\ DOMAIN contexts = {}
      BY <2>1 DEF IInv, Places
    <3>. QED
      BY <3>1 DEF Planned, Registering, Spawning, Executing
  <2>4. Growing'
    BY <2>1 DEF Growing, Executing, Unregistered, AfterStep
  <2>. QED
    BY <2>2, <2>3, <2>4 DEF DInv
<1>2. CASE InitRootRecord
  <2>. USE <1>2 DEF InitRootRecord
  <2>. DEFINE r == NewRecord(budget0)
  <2>1. DOMAIN traj = {} /\ DOMAIN traj' = {Root} /\ traj'[Root] = r
    BY DEF TInv, Rooted, Put
  <2>2. Len(Root) = 0
    BY DEF Root
  <2>3. /\ r.lastRound = -1 /\ r.step = 0 /\ r.steps = {} /\ r.pending = FALSE
        /\ r.answered = FALSE /\ r.status = "running"
    BY DEF NewRecord
  <2>. HIDE DEF r
  <2>4. Measured(Root, r) /\ Unplanned(Root, traj')
    BY <2>1, <2>2, <2>3 DEF Measured, Unplanned
  <2>5. Told(r, dir[Root].msgs)
    BY <2>3 DEF Told, DInv, Growing
  <2>6. Records' /\ Pending'
    BY <2>1, <2>3, <2>4, <2>5 DEF Records, Pending
  <2>7. Planned'
    <3>1. DOMAIN nextFrontier = {} /\ DOMAIN contexts = {}
      BY <2>1 DEF IInv, Places
    <3>2. \A i \in DOMAIN frontier' : frontier'[i] = Root
      OBVIOUS
    <3>. QED
      BY <2>4, <3>1, <3>2 DEF Planned
  <2>8. Registering' /\ Growing'
    BY DEF Registering, Growing, Spawning, Executing, Unregistered, AfterStep
  <2>. QED
    BY <2>6, <2>7, <2>8 DEF DInv
<1>. QED
  BY <1>1, <1>2

\* A trajectory of the frontier is closed: its transcript is complete.
LEMMA FrontierDepth ==
    ASSUME IInv, TInv, DInv, SkipTrajectory \/ PlannerFails
    PROVE  DInv'
<1>. DEFINE t == frontier[1]
            q == traj[t]
<1>1. /\ pc = "plan" /\ frontier # <<>> /\ frontier' = Tail(frontier)
      /\ UNCHANGED <<dir, budget0, pc, contexts, chosen, family, execution, nextFrontier>>
  BY DEF SkipTrajectory, PlannerFails, Plannable
<1>2. frontier \in Seq(TrajectoryId) /\ 1 \in DOMAIN frontier /\ t \in DOMAIN traj
  BY <1>1, FrontierHead DEF IInv, TypeOK
<1>3. /\ q \in Record /\ Len(t) \in Nat /\ q.status = "running" /\ Unplanned(t, traj)
      /\ Measured(t, q) /\ Told(q, dir[t].msgs)
  BY <1>2, RecordNumbers DEF TInv, Held, RunningLeaf, DInv, Planned, Records
<1>4. \A i \in DOMAIN frontier' :
         i + 1 \in DOMAIN frontier /\ i \in Nat /\ i + 1 # 1 /\ frontier'[i] = frontier[i + 1]
  BY <1>1, <1>2, TailElements
<1>5. PICK r : /\ traj' = [traj EXCEPT ![t] = r]
               /\ r.lastRound = q.lastRound /\ r.step = q.step /\ r.steps = q.steps
               /\ r.pending = FALSE /\ r.status \in {"error", "max_step_reached"}
  <2>1. CASE PlannerFails
    <3>. DEFINE m == MarkedError(q, "planner_error")
    <3>1. traj' = [traj EXCEPT ![t] = m]
      BY <2>1 DEF PlannerFails
    <3>2. /\ m.lastRound = q.lastRound /\ m.step = q.step /\ m.steps = q.steps
          /\ m.pending = FALSE /\ m.status = "error"
      BY <1>3, MarkedErrorDepth
    <3>. HIDE DEF m
    <3>. QED
      BY <3>1, <3>2
  <2>2. CASE SkipTrajectory
    <3>. DEFINE m == Marked(q, "max_step_reached")
    <3>1. traj' = [traj EXCEPT ![t] = m]
      BY <1>3, <2>2 DEF SkipTrajectory
    <3>2. /\ m.lastRound = q.lastRound /\ m.step = q.step /\ m.steps = q.steps
          /\ m.pending = FALSE /\ m.status = "max_step_reached"
      BY <1>3, MarkedDepth
    <3>. HIDE DEF m
    <3>. QED
      BY <3>1, <3>2
  <2>. QED
    BY <2>1, <2>2
<1>6. Measured(t, r)
  BY <1>3, <1>5 DEF Measured, Unplanned
<1>7. Told(r, dir[t].msgs)
  <2>1. dir[t].msgs = Transcript(q.step)
    BY <1>3, UnplannedTold DEF Unplanned
  <2>. QED
    BY <1>5, <2>1 DEF Told
<1>8. /\ Records' /\ Pending'
      /\ \A u \in DOMAIN traj : u # t => traj'[u] = traj[u]
  BY <1>1, <1>2, <1>5, <1>6, <1>7, RewrittenDepth DEF Ended, Unregistered
<1>9. Planned'
  <2>1. \A i \in DOMAIN frontier' : frontier'[i] # t /\ frontier'[i] \in DOMAIN traj
    BY <1>2, <1>4 DEF TInv, Apart, IInv, Places
  <2>2. \A i \in DOMAIN contexts : contexts[i].id # t /\ contexts[i].id \in DOMAIN traj
    BY <1>2 DEF TInv, Apart, IInv, Places
  <2>3. DOMAIN nextFrontier = {} /\ pc \in BeforeRound
    BY <1>1 DEF TInv, Apart, BeforeRound
  <2>. QED
    BY <1>1, <1>4, <1>8, <2>1, <2>2, <2>3 DEF DInv, Planned, Unplanned
<1>10. Registering' /\ Growing'
  BY <1>1 DEF Registering, Growing, Spawning, Executing, Unregistered, AfterStep
<1>. QED
  BY <1>8, <1>9, <1>10 DEF DInv

\* Planning a trajectory numbers its round by its depth.
LEMMA PlannedDepth ==
    ASSUME IInv, TInv, DInv, PlanTrajectory
    PROVE  DInv'
<1>. USE DEF disk, family, execution
<1>. DEFINE t == frontier[1]
<1>1. /\ pc = "plan" /\ frontier # <<>> /\ frontier' = Tail(frontier)
      /\ UNCHANGED <<disk, budget0, pc, chosen, family, execution, nextFrontier>>
  BY DEF PlanTrajectory, Plannable
<1>2. PICK c : /\ contexts' = Append(contexts, c)
               /\ c.id = t /\ c.round = NextRound(traj[t])
  BY DEF PlanTrajectory
<1>3. t \in DOMAIN traj /\ frontier \in Seq(TrajectoryId) /\ 1 \in DOMAIN frontier
  BY <1>1, FrontierHead DEF IInv, TypeOK
<1>4. \A i \in DOMAIN frontier' :
         i + 1 \in DOMAIN frontier /\ i \in Nat /\ i + 1 # 1 /\ frontier'[i] = frontier[i + 1]
  BY <1>1, <1>3, TailElements
<1>5. contexts \in Seq(Context)
  BY DEF IInv, TypeOK
<1>6. \A i \in DOMAIN contexts' :
            \/ i \in DOMAIN contexts /\ contexts'[i] = contexts[i]
            \/ i = Len(contexts) + 1 /\ contexts'[i] = c
  BY <1>2, <1>5, AppendElements
<1>7. Unplanned(t, traj) /\ c.round = Len(t)
  <2>1. Unplanned(t, traj) /\ Len(t) \in Nat
    BY <1>3, RecordNumbers DEF DInv, Planned
  <2>. QED
    BY <1>2, <2>1 DEF Unplanned, NextRound
<1>8. Records' /\ Pending'
  BY <1>1 DEF DInv, Records, Pending
<1>9. Planned'
  <2>1. \A i \in DOMAIN contexts' :
           contexts'[i].round = Len(contexts'[i].id) /\ Unplanned(contexts'[i].id, traj)
    BY <1>1, <1>2, <1>6, <1>7 DEF DInv, Planned, BeforeRound
  <2>2. \A i \in DOMAIN frontier' : Unplanned(frontier'[i], traj)
    BY <1>4 DEF DInv, Planned
  <2>. QED
    BY <1>1, <2>1, <2>2 DEF DInv, Planned
<1>10. Registering' /\ Growing'
  BY <1>1 DEF Registering, Growing, Spawning, Executing, Unregistered, AfterStep
<1>. QED
  BY <1>8, <1>9, <1>10 DEF DInv

\* Registering a round gives the record the number of its depth.
LEMMA RegisteredDepth ==
    ASSUME IInv, TInv, DInv, RegisterPlannerRound
    PROVE  DInv'
<1>. USE DEF queue, execution
<1>. DEFINE t == Current.id
            q == traj[t]
            planned == Registered(q.planned, <<t, Current.round>>)
            answered == q.answered \/ Current.sugg = <<>>
            r == [q EXCEPT !.planned = planned, !.lastRound = Current.round,
                           !.pending = FALSE, !.answered = answered]
<1>1. /\ pc = "record" /\ pc' = IF Current.sugg = <<>> THEN "answer" ELSE "spawn"
      /\ traj' = [traj EXCEPT ![t] = r] /\ parent' = r
      /\ UNCHANGED <<dir, budget0, frontier, contexts, nextFrontier, child>>
  BY DEF RegisterPlannerRound
<1>2. contexts # <<>>
  BY <1>1 DEF IInv, Places, Dispatching
<1>3. /\ 1 \in DOMAIN contexts /\ Current = contexts[1] /\ t \in DOMAIN traj
      /\ q \in Record /\ Len(t) \in Nat
  BY <1>2, CurrentIsFirst, RecordNumbers
<1>4. /\ r.status = q.status /\ r.step = q.step /\ r.steps = q.steps
      /\ r.lastRound = Current.round /\ r.pending = FALSE /\ r.answered = answered
  BY <1>3 DEF Record
<1>. HIDE DEF r
<1>5. Current.round = Len(t) /\ Unplanned(t, traj)
  BY <1>1, <1>3 DEF DInv, Planned, BeforeRound
<1>6. /\ q.status = "running" /\ q.step = Len(t) /\ ~q.answered /\ ~q.pending
      /\ dir[t].msgs = Transcript(Len(t)) /\ {p[2] : p \in q.steps} = 1..q.step
  <2>1. q.status = "running"
    BY <1>1, <1>3 DEF TInv, Held, RunningLeaf, Spawning, Executing
  <2>2. Told(q, dir[t].msgs) /\ Measured(t, q)
    BY <1>3 DEF DInv, Records
  <2>. QED
    BY <1>5, <2>1, <2>2, UnplannedTold DEF Unplanned, Measured
<1>7. answered <=> Current.sugg = <<>>
  BY <1>6
<1>. HIDE DEF answered
<1>8. Measured(t, r) /\ Told(r, dir[t].msgs)
  BY <1>3, <1>4, <1>5, <1>6 DEF Measured, Told
<1>9. /\ Records' /\ Pending' /\ traj'[t] = r
      /\ \A u \in DOMAIN traj : u # t => traj'[u] = traj[u]
  BY <1>1, <1>3, <1>4, <1>8, RewrittenDepth DEF Ended, Unregistered
<1>c. Current' = Current
  BY <1>1 DEF Current
<1>10. Planned'
  <2>1. \A i \in DOMAIN contexts :
           i # 1 => contexts[i].id # t /\ contexts[i].id \in DOMAIN traj
    BY <1>3 DEF TInv, Apart, IInv, Places
  <2>2. \A i \in DOMAIN nextFrontier : nextFrontier[i] # t /\ nextFrontier[i] \in DOMAIN traj
    BY <1>3 DEF TInv, Apart, IInv, Places
  <2>3. DOMAIN frontier = {} /\ pc' \notin BeforeRound
    BY <1>1 DEF TInv, Apart, BeforeRound
  <2>. QED
    BY <1>1, <1>9, <2>1, <2>2, <2>3 DEF DInv, Planned, Unplanned
<1>11. Registering'
  BY <1>1, <1>4, <1>5, <1>6, <1>7, <1>9, <1>c DEF Registering, Spawning, Executing
<1>12. Growing'
  BY <1>1 DEF Growing, Executing, Unregistered, AfterStep
<1>. QED
  BY <1>9, <1>10, <1>11, <1>12 DEF DInv

\* The answer is appended to the transcript of a running trajectory.
LEMMA AnswerDepth ==
    ASSUME IInv, TInv, DInv, AppendFinalAnswer
    PROVE  DInv'
<1>. USE DEF queue, family, execution
<1>. DEFINE t == Current.id
<1>1. /\ pc = "answer" /\ pc' = "answered"
      /\ dir' = [dir EXCEPT ![t].msgs = Append(dir[t].msgs, FinalAnswer)]
      /\ UNCHANGED <<traj, frontier, contexts, nextFrontier, child>>
  BY DEF AppendFinalAnswer
<1>2. contexts # <<>>
  BY <1>1 DEF IInv, Places, Dispatching
<1>3. /\ 1 \in DOMAIN contexts /\ Current = contexts[1] /\ t \in DOMAIN traj
      /\ t \in DOMAIN dir /\ IsDirectory(dir[t]) /\ Current' = Current
  BY <1>1, <1>2, CurrentIsFirst, CurrentContext DEF Current
<1>4. /\ traj[t].answered /\ traj[t].step = Len(t) /\ traj[t].status = "running"
      /\ dir[t].msgs = Transcript(Len(t))
  BY <1>1, <1>3 DEF DInv, Registering, TInv, Held, RunningLeaf, Spawning, Executing
<1>5. /\ dir'[t].msgs = Append(Transcript(Len(t)), FinalAnswer)
      /\ \A u \in DOMAIN dir : u # t => dir'[u] = dir[u]
  BY <1>1, <1>3, <1>4 DEF IsDirectory
<1>6. Told(traj[t], dir'[t].msgs)
  BY <1>4, <1>5 DEF Told
<1>7. Records'
  <2>1. ASSUME NEW u \in DOMAIN traj
        PROVE  Measured(u, traj[u]) /\ Told(traj[u], dir'[u].msgs)
    BY <1>5, <1>6 DEF DInv, Records, IInv, Places
  <2>. QED
    BY <1>1, <2>1 DEF Records
<1>8. Pending'
  BY <1>1 DEF DInv, Pending, Ended, Unregistered
<1>9. Planned'
  BY <1>1 DEF DInv, Planned, BeforeRound
<1>10. Registering'
  BY <1>1, <1>3, <1>4, <1>5 DEF Registering, Spawning, Executing
<1>11. Growing'
  BY <1>1 DEF Growing, Executing, Unregistered, AfterStep
<1>. QED
  BY <1>7, <1>8, <1>9, <1>10, <1>11 DEF DInv

\* The transcript of the parent being forked has no answer.
LEMMA ParentTold ==
    ASSUME IInv, DInv, pc \in {"spawn", "child"}
    PROVE  /\ contexts # <<>> /\ 1 \in DOMAIN contexts /\ Current = contexts[1]
           /\ Current.id \in DOMAIN traj /\ Current.id \in DOMAIN dir
           /\ traj[Current.id] \in Record /\ Len(Current.id) \in Nat
           /\ ~traj[Current.id].pending /\ ~traj[Current.id].answered
           /\ traj[Current.id].status # "answered"
           /\ traj[Current.id].step = Len(Current.id)
           /\ dir[Current.id].msgs = Transcript(Len(Current.id))
           /\ Measured(Current.id, traj[Current.id])
<1>. DEFINE t == Current.id
<1>1. contexts # <<>> /\ pc \in Spawning /\ pc \notin Ended \cup {"start"} \cup Unregistered
  BY DEF IInv, Places, Dispatching, Spawning, Ended, Unregistered
<1>2. /\ 1 \in DOMAIN contexts /\ Current = contexts[1] /\ t \in DOMAIN traj
      /\ t \in DOMAIN dir /\ traj[t] \in Record /\ Len(t) \in Nat
  BY <1>1, CurrentIsFirst, CurrentContext, RecordNumbers
<1>3. ~traj[t].pending
  BY <1>1, <1>2, NonePending DEF DInv
<1>4. /\ ~traj[t].answered /\ traj[t].step = Len(t) /\ Told(traj[t], dir[t].msgs)
      /\ Measured(t, traj[t])
  BY <1>1, <1>2 DEF DInv, Registering, Records
<1>5. dir[t].msgs = Transcript(traj[t].step) /\ traj[t].status # "answered"
  BY <1>3, <1>4, UnplannedTold
<1>. QED
  BY <1>1, <1>2, <1>3, <1>4, <1>5

\* The trajectory that was dispatched is closed, or left open.
LEMMA ContextDepth ==
    ASSUME IInv, TInv, DInv, MarkAnswered \/ CloseParent
    PROVE  DInv'
<1>. USE DEF family, execution
<1>. DEFINE t == Current.id
            q == traj[t]
<1>1. /\ pc \in {"answered", "spawn"} /\ pc' = "register" /\ contexts' = Tail(contexts)
      /\ UNCHANGED <<dir, budget0, frontier, nextFrontier>>
  BY DEF MarkAnswered, CloseParent
<1>2. contexts # <<>>
  BY <1>1 DEF IInv, Places, Dispatching, Spawning
<1>3. /\ 1 \in DOMAIN contexts /\ Current = contexts[1] /\ t \in DOMAIN traj
      /\ q \in Record /\ Len(t) \in Nat /\ contexts \in Seq(Context)
  BY <1>2, CurrentIsFirst, RecordNumbers
<1>4. Measured(t, q) /\ q.step = Len(t)
  BY <1>1, <1>3 DEF DInv, Records, Registering, Spawning
<1>5. ASSUME NEW x, traj' = [traj EXCEPT ![t] = Marked(q, x)],
             Told(Marked(q, x), dir[t].msgs)
      PROVE  /\ Records' /\ Pending'
             /\ \A u \in DOMAIN traj : u # t => traj'[u] = traj[u]
  <2>. DEFINE r == Marked(q, x)
  <2>1. /\ r.lastRound = q.lastRound /\ r.step = q.step /\ r.steps = q.steps
        /\ r.pending = FALSE
    <3>1. q \in Record
      BY <1>3
    <3>2. /\ Marked(q, x).lastRound = q.lastRound /\ Marked(q, x).step = q.step
          /\ Marked(q, x).steps = q.steps /\ Marked(q, x).pending = FALSE
      <4>. HIDE DEF q, r
      <4>. QED
        BY <3>1, MarkedDepth
    <3>. QED
      BY <3>2
  <2>2. traj' = [traj EXCEPT ![t] = r] /\ Told(r, dir[t].msgs)
    BY <1>5
  <2>. HIDE DEF r
  <2>3. Measured(t, r)
    BY <1>4, <2>1 DEF Measured
  <2>. QED
    BY <1>1, <1>3, <2>1, <2>2, <2>3, RewrittenDepth DEF Ended, Unregistered
<1>6. /\ Records' /\ Pending'
      /\ \A u \in DOMAIN traj : u # t => traj'[u] = traj[u]
  <2>1. CASE MarkAnswered
    <3>. DEFINE r == Marked(q, "answered")
    <3>1. traj' = [traj EXCEPT ![t] = r] /\ pc = "answered"
      BY <2>1 DEF MarkAnswered
    <3>2. q.answered /\ dir[t].msgs = Append(Transcript(Len(t)), FinalAnswer)
      BY <3>1 DEF DInv, Registering
    <3>3. r.answered = q.answered /\ r.step = q.step /\ r.status = "answered"
      BY <1>3, MarkedDepth
    <3>4. Told(r, dir[t].msgs)
      BY <1>4, <3>2, <3>3 DEF Told
    <3>. QED
      BY <1>5, <3>1, <3>4
  <2>2. CASE CloseParent
    <3>1. pc = "spawn"
      BY <2>2 DEF CloseParent
    <3>2. dir[t].msgs = Transcript(Len(t))
      BY <3>1, ParentTold
    <3>3. ASSUME NEW x \in {"expanded", "stopped_early"},
                 traj' = [traj EXCEPT ![t] = Marked(q, x)]
          PROVE  /\ Records' /\ Pending'
                 /\ \A u \in DOMAIN traj : u # t => traj'[u] = traj[u]
      <4>1. Marked(q, x).step = q.step /\ Marked(q, x).status = x
        BY <1>3, MarkedDepth
      <4>2. Told(Marked(q, x), dir[t].msgs)
        BY <1>4, <3>2, <4>1 DEF Told
      <4>. QED
        BY <1>5, <3>3, <4>2
    <3>4. \/ traj' = traj
          \/ \E x \in {"expanded", "stopped_early"} :
                traj' = [traj EXCEPT ![t] = Marked(q, x)]
      BY <2>2 DEF CloseParent, FinalizeUnselected
    <3>5. CASE traj' = traj
      <4>1. pc' \notin Ended \cup {"start"} \cup Unregistered
            /\ pc \notin Ended \cup {"start"} \cup Unregistered
        BY <1>1 DEF Ended, Unregistered
      <4>2. Records'
        BY <1>1, <3>5 DEF DInv, Records
      <4>3. Pending'
        BY <3>5, <4>1 DEF DInv, Pending
      <4>. QED
        BY <3>5, <4>2, <4>3
    <3>. QED
      BY <3>3, <3>4, <3>5
  <2>. QED
    BY <2>1, <2>2
<1>7. Planned'
  <2>1. \A i \in DOMAIN contexts' :
           i + 1 \in DOMAIN contexts /\ i \in Nat /\ i + 1 # 1
           /\ contexts'[i] = contexts[i + 1]
    BY <1>1, <1>2, <1>3, TailElements
  <2>2. \A i \in DOMAIN contexts' : contexts'[i].id # t /\ contexts'[i].id \in DOMAIN traj
    BY <1>3, <2>1 DEF TInv, Apart, IInv, Places
  <2>3. \A i \in DOMAIN nextFrontier : nextFrontier[i] # t /\ nextFrontier[i] \in DOMAIN traj
    BY <1>3 DEF TInv, Apart, IInv, Places
  <2>4. DOMAIN frontier = {}
    BY <1>1 DEF TInv, Apart
  <2>5. \A i \in DOMAIN contexts' :
           contexts'[i].round = Len(contexts'[i].id) /\ Unplanned(contexts'[i].id, traj)
    BY <2>1 DEF DInv, Planned
  <2>. QED
    BY <1>1, <1>6, <2>2, <2>3, <2>4, <2>5 DEF DInv, Planned, Unplanned
<1>8. Registering' /\ Growing'
  BY <1>1 DEF Registering, Growing, Spawning, Executing, Unregistered, AfterStep
<1>. QED
  BY <1>6, <1>7, <1>8 DEF DInv

\* The end of a round opens the next one over the trajectories it kept.
LEMMA RoundDepth ==
    ASSUME IInv, TInv, DInv, StartNextRound
    PROVE  DInv'
<1>. USE DEF StartNextRound, disk, execution
<1>1. Records'
  BY DEF DInv, Records
<1>2. Pending'
  BY DEF DInv, Pending, Ended, Unregistered
<1>3. Planned'
  BY DEF DInv, Planned
<1>4. Registering' /\ Growing'
  BY DEF Registering, Growing, Spawning, Executing, Unregistered, AfterStep
<1>. QED
  BY <1>1, <1>2, <1>3, <1>4 DEF DInv

\* A failed fork changes the parent's status only.
LEMMA FailedForkDepth ==
    ASSUME IInv, TInv, DInv, SpawnFails
    PROVE  DInv'
<1>. USE DEF family, execution
<1>. DEFINE t == Current.id
            q == traj[t]
            r == MarkedError(q, "child_init_error")
<1>1. /\ pc = "spawn" /\ pc' = "spawn" /\ traj' = [traj EXCEPT ![t] = r]
      /\ UNCHANGED <<dir, frontier, contexts, nextFrontier, parent>>
  BY DEF SpawnFails, MoreToSpawn
<1>2. /\ 1 \in DOMAIN contexts /\ Current = contexts[1] /\ t \in DOMAIN traj
      /\ q \in Record /\ ~q.answered /\ q.step = Len(t) /\ Measured(t, q)
      /\ dir[t].msgs = Transcript(Len(t))
  BY <1>1, ParentTold
<1>3. /\ r.lastRound = q.lastRound /\ r.step = q.step /\ r.steps = q.steps
      /\ r.answered = q.answered /\ r.status = "error" /\ r.pending = FALSE
  BY <1>2, MarkedErrorDepth
<1>. HIDE DEF r
<1>4. Measured(t, r) /\ Told(r, dir[t].msgs)
  BY <1>2, <1>3 DEF Measured, Told
<1>5. /\ Records' /\ Pending' /\ traj'[t] = r
      /\ \A u \in DOMAIN traj : u # t => traj'[u] = traj[u]
  BY <1>1, <1>2, <1>3, <1>4, RewrittenDepth DEF Ended, Unregistered
<1>6. Planned'
  <2>1. \A i \in DOMAIN contexts :
           i # 1 => contexts[i].id # t /\ contexts[i].id \in DOMAIN traj
    BY <1>2 DEF TInv, Apart, IInv, Places
  <2>2. \A i \in DOMAIN nextFrontier : nextFrontier[i] # t /\ nextFrontier[i] \in DOMAIN traj
    BY <1>2 DEF TInv, Apart, IInv, Places
  <2>3. DOMAIN frontier = {} /\ pc' \notin BeforeRound
    BY <1>1 DEF TInv, Apart, BeforeRound
  <2>. QED
    BY <1>1, <1>5, <2>1, <2>2, <2>3 DEF DInv, Planned, Unplanned
<1>7. Registering'
  <2>1. Current' = Current
    BY <1>1 DEF Current
  <2>. QED
    BY <1>1, <1>2, <1>3, <1>5, <2>1 DEF DInv, Registering, Spawning
<1>8. Growing'
  BY <1>1 DEF Growing, Executing, Unregistered, AfterStep
<1>. QED
  BY <1>5, <1>6, <1>7, <1>8 DEF DInv

\* The child's directory holds its parent's transcript.
LEMMA ForkedFilesDepth ==
    ASSUME IInv, TInv, DInv, SpawnFiles
    PROVE  DInv'
<1>. USE DEF queue, family
<1>1. /\ pc = "spawn" /\ pc' = "child" /\ child' = NextChild
      /\ NextChild \notin DOMAIN dir /\ dir' = Put(dir, NextChild, dir[Current.id])
      /\ UNCHANGED <<traj, frontier, contexts, nextFrontier, parent>>
  BY DEF SpawnFiles, MoreToSpawn, Spawnable
<1>2. /\ \A u \in DOMAIN dir : dir'[u] = dir[u]
      /\ dir'[child'] = dir[Current.id] /\ Current' = Current
  BY <1>1 DEF Put, Current
<1>3. dir[Current.id].msgs = Transcript(Len(Current.id))
  BY <1>1, ParentTold
<1>4. Records'
  BY <1>1, <1>2 DEF DInv, Records, IInv, Places
<1>5. Pending'
  BY <1>1 DEF DInv, Pending, Ended, Unregistered
<1>6. Planned'
  BY <1>1 DEF DInv, Planned, BeforeRound
<1>7. Registering'
  BY <1>1, <1>2 DEF DInv, Registering, Spawning
<1>8. Growing'
  BY <1>1, <1>2, <1>3 DEF Growing, Executing, Unregistered, AfterStep
<1>. QED
  BY <1>4, <1>5, <1>6, <1>7, <1>8 DEF DInv

\* The child starts one step short of its depth, with that step pending.
LEMMA ForkedRecordDepth ==
    ASSUME IInv, TInv, DInv, SpawnRecord
    PROVE  DInv'
<1>. USE DEF execution
<1>. DEFINE t == Current.id
            r == ForkedRecord(parent)
<1>1. /\ pc = "child" /\ pc' = "execute" /\ traj' = Put(traj, child, r)
      /\ UNCHANGED <<dir, frontier, contexts, nextFrontier, parent, child>>
  BY DEF SpawnRecord
<1>2. /\ 1 \in DOMAIN contexts /\ Current = contexts[1] /\ t \in DOMAIN traj
      /\ Len(t) \in Nat /\ t \in TrajectoryId
  BY <1>1, ParentTold, RecordNumbers
<1>3. child \notin DOMAIN traj /\ Len(child) = Len(t) + 1
  <2>1. PICK s \in Suggestion : child = Append(t, s)
    BY <1>1 DEF TInv, Forking
  <2>. QED
    BY <1>1, <1>2, <2>1, ChildName DEF TInv, Forking
<1>4. /\ DOMAIN traj' = DOMAIN traj \cup {child} /\ traj'[child] = r
      /\ \A u \in DOMAIN traj : traj'[u] = traj[u]
  BY <1>1, <1>3 DEF Put
<1>5. /\ ~parent.answered /\ parent.step = Len(t) /\ parent.lastRound = Len(t)
      /\ {p[2] : p \in parent.steps} = 1..parent.step
  BY <1>1 DEF DInv, Registering, Spawning
<1>6. /\ r.answered = parent.answered /\ r.step = parent.step /\ r.steps = parent.steps
      /\ r.lastRound = parent.lastRound /\ r.pending = TRUE /\ r.status = "running"
  <2>1. parent \in Record
    BY DEF IInv, TypeOK
  <2>. QED
    BY <2>1 DEF ForkedRecord, Record
<1>. HIDE DEF r
<1>7. dir[child].msgs = Transcript(Len(t)) /\ Len(child) - 1 = Len(t)
  BY <1>1, <1>2, <1>3 DEF DInv, Growing
<1>8. Measured(child, r) /\ Told(r, dir[child].msgs)
  BY <1>5, <1>6, <1>7 DEF Measured, Told
<1>9. Records'
  <2>1. ASSUME NEW u \in DOMAIN traj'
        PROVE  Measured(u, traj'[u]) /\ Told(traj'[u], dir[u].msgs)
    BY <1>4, <1>8 DEF DInv, Records
  <2>. QED
    BY <1>1, <2>1 DEF Records
<1>10. Pending'
  <2>1. \A u \in DOMAIN traj : ~traj'[u].pending
    BY <1>1, <1>4, NonePending DEF DInv, Ended, Unregistered
  <2>2. RunningLeaf(child, traj')
    <3>1. TInv'
      BY ForkedRecordTree
    <3>. QED
      BY <1>1, <3>1 DEF TInv, Held, Executing
  <2>. QED
    BY <1>1, <1>4, <2>1, <2>2 DEF Pending, Unregistered
<1>11. Planned'
  <2>1. \A i \in DOMAIN contexts : contexts[i].id \in DOMAIN traj
    BY DEF IInv, Places
  <2>2. \A i \in DOMAIN nextFrontier : nextFrontier[i] \in DOMAIN traj
    BY DEF IInv, Places
  <2>3. DOMAIN frontier = {} /\ pc' \notin BeforeRound
    BY <1>1 DEF TInv, Apart, BeforeRound
  <2>. QED
    BY <1>1, <1>4, <2>1, <2>2, <2>3 DEF DInv, Planned, Unplanned
<1>12. Registering'
  <2>1. Current' = Current
    BY <1>1 DEF Current
  <2>2. ~traj[t].answered /\ traj[t].step = Len(t)
    BY <1>1, ParentTold
  <2>. QED
    BY <1>1, <1>2, <1>4, <1>5, <2>1, <2>2 DEF Registering
<1>13. Growing'
  BY <1>1, <1>4, <1>5, <1>6, <1>7 DEF Growing, Executing, Unregistered, AfterStep
<1>. QED
  BY <1>9, <1>10, <1>11, <1>12, <1>13 DEF DInv
\* What is known of the child while it is executed.
LEMMA ChildTold ==
    ASSUME IInv, TInv, DInv, pc \in Executing
    PROVE  /\ child \in DOMAIN traj /\ child \in DOMAIN dir /\ IsDirectory(dir[child])
           /\ traj[child] \in Record /\ Len(child) \in Nat /\ traj[child].step \in Nat
           /\ traj[child].status = "running" /\ ~traj[child].answered
           /\ traj[child].lastRound = Len(child) - 1
           /\ Measured(child, traj[child]) /\ RunningLeaf(child, traj)
           /\ 1 \in DOMAIN contexts /\ Current = contexts[1] /\ Current.id # child
           /\ Current.id \in DOMAIN traj
           /\ pc \in AfterStep => /\ traj[child].step = Len(child)
                                 /\ dir[child].msgs = Transcript(Len(child))
<1>1. child \in DOMAIN traj /\ child \in DOMAIN dir /\ IsDirectory(dir[child])
  BY DEF IInv, Places, TypeOK
<1>2. /\ traj[child] \in Record /\ Len(child) \in Nat /\ traj[child].step \in Nat
      /\ RunningLeaf(child, traj) /\ traj[child].status = "running"
      /\ Measured(child, traj[child]) /\ Told(traj[child], dir[child].msgs)
  BY <1>1, RecordNumbers DEF TInv, Held, RunningLeaf, DInv, Records
<1>3. ~traj[child].answered /\ traj[child].lastRound = Len(child) - 1
  BY DEF DInv, Growing
<1>4. contexts # <<>>
  BY DEF IInv, Places, Dispatching, Spawning
<1>5. /\ 1 \in DOMAIN contexts /\ Current = contexts[1] /\ Current.id \in DOMAIN traj
      /\ Current.id # child
  BY <1>4, CurrentIsFirst DEF TInv, Apart
<1>6. ASSUME pc \in AfterStep
      PROVE  traj[child].step = Len(child) /\ dir[child].msgs = Transcript(Len(child))
  <2>1. ~traj[child].pending
    BY <1>1, <1>6, NonePending DEF DInv, AfterStep, Ended, Unregistered
  <2>2. traj[child].step = Len(child)
    BY <1>6 DEF DInv, Growing
  <2>. QED
    BY <1>2, <1>3, <2>1, <2>2, UnplannedTold
<1>. QED
  BY <1>1, <1>2, <1>3, <1>5, <1>6

\* The child's record is replaced by one whose step is registered, or failed.
LEMMA ChildDepth ==
    ASSUME IInv, TInv, DInv, pc \in Executing, NEW r,
           traj' = [traj EXCEPT ![child] = r],
           UNCHANGED <<dir, frontier, contexts, family>>,
           Measured(child, r), Told(r, dir[child].msgs), r.pending = FALSE,
           r.lastRound = Len(child) - 1, ~r.answered,
           pc' = "spawn" \/ (pc' \in AfterStep /\ child' = child /\ r.step = Len(child)),
           \/ nextFrontier' = nextFrontier
           \/ nextFrontier' = Append(nextFrontier, child) /\ r.step = Len(child)
    PROVE  DInv'
<1>. USE DEF family
<1>1. /\ child \in DOMAIN traj /\ 1 \in DOMAIN contexts /\ Current = contexts[1]
      /\ Current.id # child /\ Current.id \in DOMAIN traj
  BY ChildTold
<1>2. pc \notin Ended \cup {"start"} /\ pc \in Spawning
  BY DEF Ended, Executing, Spawning
<1>3. /\ Records' /\ Pending' /\ DOMAIN traj' = DOMAIN traj /\ traj'[child] = r
      /\ \A u \in DOMAIN traj : u # child => traj'[u] = traj[u]
  BY <1>1, <1>2, RewrittenDepth
<1>4. Planned'
  <2>1. nextFrontier \in Seq(TrajectoryId)
    BY DEF IInv, TypeOK
  <2>2. \A i \in DOMAIN nextFrontier' :
           \/ i \in DOMAIN nextFrontier /\ nextFrontier'[i] = nextFrontier[i]
           \/ nextFrontier'[i] = child /\ r.step = Len(child)
    BY <2>1, AppendElements
  <2>3. \A i \in DOMAIN nextFrontier :
           nextFrontier[i] # child /\ nextFrontier[i] \in DOMAIN traj
    BY DEF TInv, Apart, IInv, Places
  <2>4. \A i \in DOMAIN contexts : contexts[i].id # child /\ contexts[i].id \in DOMAIN traj
    BY DEF TInv, Apart, IInv, Places
  <2>5. DOMAIN frontier = {} /\ pc' \notin BeforeRound
    BY DEF TInv, Apart, BeforeRound, Executing, AfterStep
  <2>6. \A i \in DOMAIN nextFrontier' : Unplanned(nextFrontier'[i], traj')
    BY <1>3, <2>2, <2>3 DEF DInv, Planned, Unplanned
  <2>. QED
    BY <1>3, <2>4, <2>5, <2>6 DEF DInv, Planned, Unplanned
<1>5. Registering'
  <2>1. Current' = Current
    BY DEF Current
  <2>2. pc' \notin {"answer", "answered"}
    BY DEF AfterStep
  <2>. QED
    BY <1>1, <1>2, <1>3, <2>1, <2>2 DEF DInv, Registering
<1>6. Growing'
  BY <1>3 DEF Growing, Executing, Unregistered, AfterStep
<1>. QED
  BY <1>3, <1>4, <1>5, <1>6 DEF DInv

\* The transcript runs ahead of the child's record by its pending step.
LEMMA MessagesDepth ==
    ASSUME IInv, TInv, DInv, AppendStepMessages
    PROVE  DInv'
<1>. USE DEF queue, family, execution
<1>. DEFINE q == traj[child]
            n == NextStep(q)
            two == <<<<"executor_step", n>>, <<"tool_result", n>>>>
<1>1. /\ pc = "messages" /\ pc' = "step" /\ pc \in Executing
      /\ dir' = [dir EXCEPT ![child].msgs = dir[child].msgs \o two]
      /\ UNCHANGED <<traj, frontier, contexts, nextFrontier, child, parent>>
  BY DEF AppendStepMessages, Executing
<1>2. /\ child \in DOMAIN traj /\ child \in DOMAIN dir /\ IsDirectory(dir[child])
      /\ Len(child) \in Nat /\ q.step \in Nat /\ q.status = "running" /\ Measured(child, q)
      /\ Current.id # child /\ Current.id \in DOMAIN traj
  BY <1>1, ChildTold
<1>3. /\ q.step = Len(child) - 1 /\ q.pending
      /\ dir[child].msgs = Transcript(Len(child) - 1)
  BY <1>1 DEF DInv, Growing, Unregistered
<1>4. n = q.step + 1 /\ n = Len(child)
  BY <1>2, <1>3 DEF NextStep
<1>. HIDE DEF n
<1>5. dir[child].msgs \o two = Transcript(n)
  BY <1>2, <1>3, <1>4, TranscriptNext
<1>. HIDE DEF two
<1>6. /\ dir'[child].msgs = Transcript(n)
      /\ \A u \in DOMAIN dir : u # child => dir'[u] = dir[u]
  BY <1>1, <1>2, <1>5 DEF IsDirectory
<1>7. Told(q, dir'[child].msgs)
  BY <1>2, <1>3, <1>4, <1>6 DEF Told
<1>8. Records'
  <2>1. ASSUME NEW u \in DOMAIN traj
        PROVE  Measured(u, traj[u]) /\ Told(traj[u], dir'[u].msgs)
    BY <1>6, <1>7 DEF DInv, Records, IInv, Places
  <2>. QED
    BY <1>1, <2>1 DEF Records
<1>9. Pending'
  BY <1>1 DEF DInv, Pending, Ended, Unregistered
<1>10. Planned'
  BY <1>1 DEF DInv, Planned, BeforeRound
<1>11. Registering'
  <2>1. Current' = Current
    BY <1>1 DEF Current
  <2>. QED
    BY <1>1, <2>1 DEF DInv, Registering, Spawning, Executing
<1>12. Growing'
  BY <1>1, <1>4, <1>6 DEF DInv, Growing, Executing, Unregistered, AfterStep
<1>. QED
  BY <1>8, <1>9, <1>10, <1>11, <1>12 DEF DInv

\* Registering a step adds its number to those registered.
LEMMA RegisteredIndices ==
    ASSUME NEW refs, NEW c, NEW n
    PROVE  {p[2] : p \in Registered(refs, <<c, n>>)} = ({p[2] : p \in refs} \ {n}) \cup {n}
<1>. DEFINE ref == <<c, n>>
            R == Registered(refs, ref)
            I == ({p[2] : p \in refs} \ {n}) \cup {n}
<1>1. R = {x \in refs : x[2] # n} \cup {ref} /\ ref[2] = n
  BY DEF Registered
<1>. HIDE DEF ref
<1>2. ASSUME NEW p \in R PROVE p[2] \in I
  BY <1>1, <1>2
<1>3. ASSUME NEW i \in I PROVE \E p \in R : p[2] = i
  <2>1. CASE i = n
    BY <1>1, <2>1
  <2>2. CASE i # n
    <3>1. PICK p \in refs : p[2] = i
      BY <2>2
    <3>. QED
      BY <1>1, <2>2, <3>1
  <2>. QED
    BY <2>1, <2>2
<1>. HIDE DEF R, I
<1>4. {p[2] : p \in R} = I
  BY <1>2, <1>3
<1>. QED
  BY <1>4 DEF R, I, ref

\* Executing one step of the child.
LEMMA ExecutionDepth ==
    ASSUME IInv, TInv, DInv,
           \/ ExecutorFails \/ RuntimeFails \/ JudgeFails
           \/ RegisterStepRecord \/ RegisterJudgeRecord \/ FinalizeChild
    PROVE  DInv'
<1>1. pc \in Executing
  BY DEF Executing, ExecutorFails, RuntimeFails, JudgeFails, RegisterStepRecord,
     RegisterJudgeRecord, FinalizeChild
<1>. DEFINE q == traj[child]
            m == dir[child].msgs
<1>2. /\ child \in DOMAIN traj /\ q \in Record /\ Len(child) \in Nat /\ q.step \in Nat
      /\ ~q.answered /\ q.lastRound = Len(child) - 1 /\ Measured(child, q)
      /\ pc \in AfterStep => q.step = Len(child) /\ m = Transcript(Len(child))
  BY <1>1, ChildTold
<1>3. ASSUME NEW c \in {"executor_error", "runtime_error", "judge_error"}, ChildError(c),
             m = Transcript(q.step),
             q.step = Len(child) \/ c \in {"executor_error", "runtime_error"}
      PROVE  DInv'
  <2>. DEFINE r == MarkedError(q, c)
  <2>1. /\ traj' = [traj EXCEPT ![child] = r] /\ pc' = "spawn" /\ nextFrontier' = nextFrontier
        /\ UNCHANGED <<dir, frontier, contexts, family>>
    BY <1>3 DEF ChildError, LeaveChild, queue
  <2>2. /\ r.lastRound = q.lastRound /\ r.step = q.step /\ r.steps = q.steps
        /\ r.answered = q.answered /\ r.err = c /\ r.status = "error" /\ r.pending = FALSE
    BY <1>2, MarkedErrorDepth
  <2>. HIDE DEF r
  <2>3. Measured(child, r) /\ Told(r, m)
    BY <1>2, <1>3, <2>2 DEF Measured, Told
  <2>. QED
    BY <1>1, <1>2, <2>1, <2>2, <2>3, ChildDepth
<1>4. CASE ExecutorFails \/ RuntimeFails
  <2>1. /\ pc \in Unregistered \ {"step"}
        /\ ChildError("executor_error") \/ ChildError("runtime_error")
    BY <1>4 DEF ExecutorFails, RuntimeFails, Unregistered
  <2>2. q.step = Len(child) - 1 /\ m = Transcript(Len(child) - 1)
    BY <2>1 DEF DInv, Growing
  <2>. QED
    BY <1>3, <2>1, <2>2
<1>5. CASE JudgeFails
  <2>1. pc \in AfterStep /\ ChildError("judge_error")
    BY <1>5 DEF JudgeFails, AfterStep
  <2>. QED
    BY <1>2, <1>3, <2>1
<1>6. CASE RegisterStepRecord
  <2>. DEFINE n == NextStep(q)
              steps == Registered(q.steps, <<child, n>>)
              last == Larger(q.step, n)
              r == [q EXCEPT !.steps = steps, !.step = last, !.pending = FALSE]
  <2>1. /\ pc = "step" /\ pc' \in AfterStep /\ traj' = [traj EXCEPT ![child] = r]
        /\ UNCHANGED <<dir, frontier, contexts, nextFrontier, family, child>>
    BY <1>6 DEF RegisterStepRecord, Stepped, AfterStep, queue, execution
  <2>2. q.step = Len(child) - 1 /\ m = Transcript(Len(child))
    BY <2>1 DEF DInv, Growing, Unregistered
  <2>3. n = Len(child) /\ last = n
    BY <1>2, <2>2 DEF NextStep, Larger
  <2>4. {p[2] : p \in steps} = 1..n
    <3>1. {p[2] : p \in q.steps} = 1..(n - 1) /\ n \in Nat /\ n >= 1
      BY <1>2, <2>2, <2>3 DEF Measured
    <3>. HIDE DEF n
    <3>2. {p[2] : p \in steps} = ({p[2] : p \in q.steps} \ {n}) \cup {n}
      BY RegisteredIndices
    <3>3. (1..(n - 1) \ {n}) \cup {n} = 1..n
      BY <3>1
    <3>. QED
      BY <3>1, <3>2, <3>3
  <2>. HIDE DEF n, steps, last
  <2>5. /\ r.lastRound = q.lastRound /\ r.step = last /\ r.steps = steps
        /\ r.answered = q.answered /\ r.status = q.status /\ r.pending = FALSE
    BY <1>2 DEF Record
  <2>. HIDE DEF r
  <2>6. q.status = "running"
    BY <1>1, ChildTold
  <2>7. Measured(child, r) /\ Told(r, m)
    BY <1>2, <2>2, <2>3, <2>4, <2>5, <2>6 DEF Measured, Told
  <2>. QED
    BY <1>1, <1>2, <2>1, <2>3, <2>5, <2>7, ChildDepth
<1>7. CASE RegisterJudgeRecord
  <2>. DEFINE ref == <<child, q.step>>
              judged == q.judged \cup {ref}
              r == [q EXCEPT !.judged = judged, !.lastJudged = ref]
  <2>1. /\ pc \in AfterStep /\ pc' \in AfterStep /\ traj' = [traj EXCEPT ![child] = r]
        /\ UNCHANGED <<dir, frontier, contexts, nextFrontier, family, child>>
    BY <1>7 DEF RegisterJudgeRecord, Judged, AfterStep, queue, execution
  <2>. HIDE DEF ref, judged
  <2>2. /\ r.lastRound = q.lastRound /\ r.step = q.step /\ r.steps = q.steps
        /\ r.answered = q.answered /\ r.status = q.status /\ r.pending = q.pending
    BY <1>2 DEF Record
  <2>. HIDE DEF r
  <2>3. q.status = "running" /\ q.pending = FALSE
    <3>1. q.pending \in BOOLEAN /\ ~q.pending
      BY <1>2, <2>1, NonePending DEF DInv, AfterStep, Ended, Unregistered, Record
    <3>. QED
      BY <1>1, <3>1, ChildTold
  <2>4. Measured(child, r) /\ Told(r, m)
    BY <1>2, <2>1, <2>2, <2>3 DEF Measured, Told
  <2>. QED
    BY <1>1, <1>2, <2>1, <2>2, <2>3, <2>4, ChildDepth
<1>8. CASE FinalizeChild
  <2>. DEFINE r == Marked(q, StatusAfterStep)
  <2>1. /\ pc \in AfterStep /\ traj' = [traj EXCEPT ![child] = r] /\ pc' = "spawn"
        /\ nextFrontier' = nextFrontier \/ nextFrontier' = Append(nextFrontier, child)
        /\ UNCHANGED <<dir, frontier, contexts, family>>
    BY <1>8 DEF FinalizeChild, LeaveChild, AfterStep
  <2>2. /\ r.lastRound = q.lastRound /\ r.step = q.step /\ r.steps = q.steps
        /\ r.answered = q.answered /\ r.status = StatusAfterStep /\ r.pending = FALSE
    BY <1>2, MarkedDepth
  <2>3. StatusAfterStep # "answered"
    BY DEF StatusAfterStep
  <2>. HIDE DEF r
  <2>4. Measured(child, r) /\ Told(r, m)
    BY <1>2, <2>1, <2>2, <2>3 DEF Measured, Told
  <2>. QED
    BY <1>1, <1>2, <2>1, <2>2, <2>4, ChildDepth
<1>. QED
  BY <1>4, <1>5, <1>6, <1>7, <1>8

\* Every step keeps the invariant.
LEMMA NextDepth == IInv /\ TInv /\ DInv /\ [Next]_vars => DInv'
<1>. SUFFICES ASSUME IInv, TInv, DInv, [Next]_vars PROVE DInv'
  OBVIOUS
<1>1. CASE \/ InitRootFails \/ InitRootRefused \/ ResolveInputFails \/ Crash \/ Rerun
  <2>1. Forget /\ pc' \in Ended \cup {"start"}
    BY <1>1 DEF InitRootFails, InitRootRefused, ResolveInputFails, Crash, Rerun, Raise, Ended
  <2>. QED
    BY <2>1, ForgetDepth
<1>. QED
  BY <1>1, QuietDepthSteps, RootDepth, FrontierDepth, PlannedDepth, RegisteredDepth,
     AnswerDepth, ContextDepth, RoundDepth, FailedForkDepth, ForkedFilesDepth,
     ForkedRecordDepth, MessagesDepth, ExecutionDepth DEF Next, Step

-----------------------------------------------------------------------------
(* Theorems. *)

\* The invariant holds of every behaviour.
THEOREM DepthInvariant == Spec => []DInv
BY InitDepth, NextDepth, InductiveInvariant, TreeInvariant, PTL DEF Spec

\* Depth, rounds planned, steps executed and budget spent go together in every
\* trajectory.json, whatever fails and whenever the process dies
\* (init_child_trajectory, register_planner_round, register_step_record).
THEOREM BudgetAlwaysMeasuresDepth == Spec => []BudgetMeasuresDepth
<1>1. TInv /\ DInv => BudgetMeasuresDepth
  BY DEF TInv, Rooted, DInv, Records, Measured, BudgetMeasuresDepth
<1>. QED
  BY <1>1, TreeInvariant, DepthInvariant, PTL

\* A killed run leaves at most one pending execution, a running leaf, and every
\* transcript tells the registered steps, that pending one, or the answer
\* (append_messages, mark_trajectory_status, init_child_trajectory).
THEOREM CrashesStayConsistent == Spec => []CrashConsistent
<1>1. DInv => TranscriptMatchesSteps
  BY DEF DInv, Records, Told, TranscriptMatchesSteps
<1>2. DInv => AtMostOnePending
  BY DEF DInv, Pending, RunningLeaf, Branching, HasChild, AtMostOnePending
<1>3. DInv => CrashConsistent
  BY <1>1, <1>2 DEF CrashConsistent
<1>. QED
  BY <1>3, DepthInvariant, PTL

-----------------------------------------------------------------------------
(* 3. Selecting, the beam, the ranking, the end of a run. *)

(* Selecting. *)

\* A set of naturals has a least element.
LEMMA Least ==
    ASSUME NEW T, T \subseteq Nat, T # {}
    PROVE  \E x \in T : \A y \in T : x <= y
<1>1. \E x \in T : \A y \in T : ~(<<y, x>> \in OpToRel(<, Nat))
  BY NatLessThanWellFounded, WFMin
<1>2. PICK x \in T : \A y \in T : ~(<<y, x>> \in OpToRel(<, Nat))
  BY <1>1
<1>3. \A y \in T : ~(y < x)
  BY <1>2 DEF OpToRel
<1>. QED
  BY <1>3

\* The ids of one round: paths of one length.
Paths(n) == {a \in TrajectoryId : Len(a) = n}

\* At each of its places stands a suggestion, and suggestions are compared as numbers.
LEMMA PathElements ==
    ASSUME NEW n \in Nat, NEW a \in Paths(n)
    PROVE  \A i \in 1..n : a[i] \in Nat
<1>1. a \in Seq(Suggestion) /\ Len(a) = n
  BY DEF Paths, TrajectoryId
<1>2. \A i \in 1..n : a[i] \in Suggestion
  BY <1>1
<1>. QED
  BY <1>2, SelectionAssumption

\* Two of them differ at a first place.
LEMMA IdsCompare ==
    ASSUME NEW n \in Nat, NEW a \in Paths(n), NEW b \in Paths(n), a # b
    PROVE  IdLess(a, b) \/ IdLess(b, a)
<1>. DEFINE D == {i \in 1..n : a[i] # b[i]}
<1>1. /\ a \in Seq(Suggestion) /\ b \in Seq(Suggestion) /\ Len(a) = n /\ Len(b) = n
      /\ Suggestion \subseteq Nat
  BY SelectionAssumption DEF Paths, TrajectoryId
<1>2. D # {} /\ D \subseteq Nat
  BY <1>1
<1>3. PICK i \in D : \A j \in D : i <= j
  BY <1>2, Least
<1>4. i \in 1..n /\ a[i] # b[i] /\ \A j \in 1..(i - 1) : a[j] = b[j]
  BY <1>3
<1>5. a[i] \in Nat /\ b[i] \in Nat
  BY <1>4, PathElements
<1>6. Lesser(Len(a), Len(b)) = n /\ Lesser(Len(b), Len(a)) = n
  BY <1>1 DEF Lesser
<1>7. a[i] < b[i] \/ b[i] < a[i]
  BY <1>4, <1>5
<1>. QED
  BY <1>4, <1>6, <1>7 DEF IdLess

\* Their order is transitive, and none is less than itself.
LEMMA IdsTransitive ==
    ASSUME NEW n \in Nat, NEW a \in Paths(n), NEW b \in Paths(n), NEW c \in Paths(n),
           IdLess(a, b), IdLess(b, c)
    PROVE  IdLess(a, c)
<1>1. /\ a \in Seq(Suggestion) /\ b \in Seq(Suggestion) /\ c \in Seq(Suggestion)
      /\ Len(a) = n /\ Len(b) = n /\ Len(c) = n /\ Suggestion \subseteq Nat
  BY SelectionAssumption DEF Paths, TrajectoryId
<1>2. /\ Lesser(Len(a), Len(b)) = n /\ Lesser(Len(b), Len(c)) = n
      /\ Lesser(Len(a), Len(c)) = n
  BY <1>1 DEF Lesser
<1>3. PICK i \in 1..n : a[i] < b[i] /\ \A k \in 1..(i - 1) : a[k] = b[k]
  BY <1>2 DEF IdLess
<1>4. PICK j \in 1..n : b[j] < c[j] /\ \A k \in 1..(j - 1) : b[k] = c[k]
  BY <1>2 DEF IdLess
<1>5. \A k \in 1..n : a[k] \in Nat /\ b[k] \in Nat /\ c[k] \in Nat
  BY PathElements
<1>6. CASE i <= j
  <2>1. a[i] < c[i]
    BY <1>3, <1>4, <1>5, <1>6
  <2>2. \A k \in 1..(i - 1) : a[k] = c[k]
    BY <1>3, <1>4, <1>6
  <2>. QED
    BY <1>2, <2>1, <2>2 DEF IdLess
<1>7. CASE j < i
  <2>1. a[j] < c[j]
    BY <1>3, <1>4, <1>5, <1>7
  <2>2. \A k \in 1..(j - 1) : a[k] = c[k]
    BY <1>3, <1>4, <1>7
  <2>. QED
    BY <1>2, <2>1, <2>2 DEF IdLess
<1>. QED
  BY <1>6, <1>7

\* No id is before itself.
LEMMA IdNotLess ==
    ASSUME NEW n \in Nat, NEW a \in Paths(n)
    PROVE  ~IdLess(a, a)
<1>1. a \in Seq(Suggestion) /\ Len(a) = n /\ Suggestion \subseteq Nat
  BY SelectionAssumption DEF Paths, TrajectoryId
<1>2. Lesser(Len(a), Len(a)) = n
  BY <1>1 DEF Lesser
<1>3. \A i \in 1..n : ~(a[i] < a[i])
  BY PathElements
<1>. QED
  BY <1>2, <1>3 DEF IdLess

\* The sort key orders the candidates S strictly and totally.
Ordered(S) ==
    /\ \A x \in S : ~Before(x, x)
    /\ \A x, y, z \in S : Before(x, y) /\ Before(y, z) => Before(x, z)
    /\ \A x, y \in S : x # y => Before(x, y) \/ Before(y, x)

\* It does, if they are of one round and no two are the same suggestion's.
LEMMA CandidatesOrdered ==
    ASSUME NEW n \in Nat, NEW S \in SUBSET Candidate, \A x \in S : x.id \in Paths(n),
           \A x, y \in S : x.id = y.id /\ x.order = y.order => x = y
    PROVE  Ordered(S)
<1>1. \A x \in S : x.score \in Nat /\ x.order \in Nat /\ x.id \in Paths(n)
  BY DEF Candidate, MAX_PLANNER_SUGGESTIONS
<1>2. ASSUME NEW x \in S PROVE ~Before(x, x)
  BY <1>1, IdNotLess DEF Before
<1>3. ASSUME NEW x \in S, NEW y \in S, NEW z \in S, Before(x, y), Before(y, z)
      PROVE  Before(x, z)
  <2>1. IdLess(x.id, y.id) /\ IdLess(y.id, z.id) => IdLess(x.id, z.id)
    BY <1>1, IdsTransitive
  <2>. QED
    BY <1>1, <1>3, <2>1 DEF Before
<1>4. ASSUME NEW x \in S, NEW y \in S, x # y PROVE Before(x, y) \/ Before(y, x)
  <2>1. x.id # y.id => IdLess(x.id, y.id) \/ IdLess(y.id, x.id)
    BY <1>1, IdsCompare
  <2>2. x.id # y.id \/ x.order # y.order
    BY <1>4
  <2>. QED
    BY <1>1, <2>1, <2>2 DEF Before
<1>. QED
  BY <1>2, <1>3, <1>4 DEF Ordered

\* Who comes before x.
Preceding(S, x) == {y \in S : Before(y, x)}

\* The n best are at most n: no two of them have as many before them.
LEMMA BestAreFew ==
    ASSUME NEW S, IsFiniteSet(S), Ordered(S), NEW n \in Nat
    PROVE  IsFiniteSet(Best(S, n)) /\ Cardinality(Best(S, n)) <= n
<1>. DEFINE B == Best(S, n)
            rank == [x \in B |-> Cardinality(Preceding(S, x))]
<1>1. B \subseteq S
  BY DEF Best
<1>2. ASSUME NEW x \in S
      PROVE  IsFiniteSet(Preceding(S, x)) /\ Cardinality(Preceding(S, x)) \in Nat
  <2>1. Preceding(S, x) \in SUBSET S
    BY DEF Preceding
  <2>. QED
    BY <2>1, FS_Subset, FS_CardinalityType
<1>3. ASSUME NEW x \in S, NEW y \in S, Before(x, y)
      PROVE  Cardinality(Preceding(S, x)) < Cardinality(Preceding(S, y))
  <2>. DEFINE P == Preceding(S, x)
  <2>1. x \notin P
    BY DEF Preceding, Ordered
  <2>2. P \cup {x} \in SUBSET Preceding(S, y)
    BY <1>3 DEF Preceding, Ordered
  <2>3. Cardinality(P \cup {x}) = Cardinality(P) + 1
    BY <1>2, <2>1, FS_AddElement
  <2>4. Cardinality(P \cup {x}) <= Cardinality(Preceding(S, y))
    BY <1>2, <2>2, FS_Subset
  <2>. QED
    BY <1>2, <2>3, <2>4
<1>4. \A x \in B : Cardinality(Preceding(S, x)) < n
  BY DEF Best, Preceding
<1>5. rank \in [B -> 0..(n - 1)]
  <2>1. ASSUME NEW x \in B PROVE Cardinality(Preceding(S, x)) \in 0..(n - 1)
    BY <1>1, <1>2, <1>4
  <2>. QED
    BY <2>1
<1>6. ASSUME NEW x \in B, NEW y \in B, rank[x] = rank[y] PROVE x = y
  <2>1. x \in S /\ y \in S /\ Cardinality(Preceding(S, x)) = Cardinality(Preceding(S, y))
    BY <1>1, <1>6
  <2>2. ~Before(x, y) /\ ~Before(y, x)
    BY <1>2, <1>3, <2>1
  <2>. QED
    BY <2>1, <2>2 DEF Ordered
<1>. HIDE DEF B, rank
<1>7. rank \in Injection(B, 0..(n - 1))
  BY <1>5, <1>6 DEF Injection, IsInjective
<1>8. IsFiniteSet(0..(n - 1)) /\ Cardinality(0..(n - 1)) = n
  <2>1. n - 1 \in Int
    OBVIOUS
  <2>. QED
    BY <2>1, FS_Interval
<1>9. IsFiniteSet(B) /\ Cardinality(B) <= n
  BY <1>7, <1>8, FS_Injection
<1>. QED
  BY <1>9 DEF B

\* A part of what is ordered is ordered.
LEMMA PartOrdered ==
    ASSUME NEW S, Ordered(S), NEW T \in SUBSET S
    PROVE  Ordered(T)
BY DEF Ordered

\* What was planned in one round.
OneRound(cs, n) ==
    /\ cs \in Seq(Context)
    /\ \A i \in DOMAIN cs : cs[i].id \in Paths(n)
    /\ \A i, j \in DOMAIN cs : cs[i].id = cs[j].id => i = j

\* A candidate is a usable suggestion of one of them.
LEMMA CandidateOrigin ==
    ASSUME NEW cs, NEW x \in Candidates(cs)
    PROVE  \E i \in DOMAIN cs : \E k \in UsableOrders(cs[i]) :
              x = [id |-> cs[i].id, order |-> k, score |-> cs[i].score,
                   suggestion |-> cs[i].sugg[k]]
BY DEF Candidates

\* A trajectory with suggestions has a usable first one.
LEMMA UsableType ==
    ASSUME NEW c \in Context
    PROVE  /\ UsableOrders(c) \subseteq 1..MAX_PLANNER_SUGGESTIONS
           /\ \A k \in UsableOrders(c) : c.sugg[k] \in Suggestion
           /\ c.sugg # <<>> => 1 \in UsableOrders(c)
           /\ c.sugg = <<>> => UsableOrders(c) = {}
<1>1. EffectiveSuggestionCount \in 1..3
  BY SelectionAssumption DEF EffectiveSuggestionCount, Lesser, MAX_PLANNER_SUGGESTIONS
<1>2. c.sugg \in Seq(Suggestion) /\ Len(c.sugg) \in Nat
  BY DEF Context
<1>3. c.sugg # <<>> => Len(c.sugg) > 0
  BY <1>2
<1>4. UsableOrders(c) = 1..Lesser(Len(c.sugg), EffectiveSuggestionCount)
  BY DEF UsableOrders
<1>. QED
  BY <1>1, <1>2, <1>3, <1>4 DEF Lesser, MAX_PLANNER_SUGGESTIONS

\* The candidates of a round are finitely many and ordered, and no more first ones
\* than trajectories were planned.
LEMMA CandidatesOfRound ==
    ASSUME NEW n \in Nat, NEW cs, OneRound(cs, n)
    PROVE  /\ IsFiniteSet(Candidates(cs)) /\ Ordered(Candidates(cs))
           /\ IsFiniteSet(Top1(cs)) /\ Cardinality(Top1(cs)) <= Len(cs)
<1>. DEFINE C == Candidates(cs)
            D == DOMAIN cs
            K == 1..MAX_PLANNER_SUGGESTIONS
<1>1. cs \in Seq(Context) /\ D = 1..Len(cs) /\ Len(cs) \in Nat
  BY DEF OneRound
<1>2. ASSUME NEW x \in C
      PROVE  /\ x \in Candidate /\ x.id \in Paths(n)
             /\ \E i \in D : x.id = cs[i].id /\ x.score = cs[i].score
                             /\ x.suggestion = cs[i].sugg[x.order]
  <2>1. PICK i \in D : \E k \in UsableOrders(cs[i]) :
              x = [id |-> cs[i].id, order |-> k, score |-> cs[i].score,
                   suggestion |-> cs[i].sugg[k]]
    BY CandidateOrigin
  <2>2. cs[i] \in Context
    BY <1>1
  <2>3. PICK k \in UsableOrders(cs[i]) :
              x = [id |-> cs[i].id, order |-> k, score |-> cs[i].score,
                   suggestion |-> cs[i].sugg[k]]
    BY <2>1
  <2>4. k \in K /\ cs[i].sugg[k] \in Suggestion
    BY <2>2, UsableType
  <2>. QED
    BY <2>2, <2>3, <2>4 DEF Context, Candidate, OneRound
<1>3. ASSUME NEW x \in C, NEW y \in C, x.id = y.id, x.order = y.order PROVE x = y
  <2>1. PICK i \in D : x.id = cs[i].id /\ x.score = cs[i].score
                       /\ x.suggestion = cs[i].sugg[x.order]
    BY <1>2
  <2>2. PICK j \in D : y.id = cs[j].id /\ y.score = cs[j].score
                       /\ y.suggestion = cs[j].sugg[y.order]
    BY <1>2
  <2>3. i = j
    BY <1>3, <2>1, <2>2 DEF OneRound
  <2>4. x \in Candidate /\ y \in Candidate
    BY <1>2
  <2>. QED
    BY <1>3, <2>1, <2>2, <2>3, <2>4 DEF Candidate
<1>4. Ordered(C)
  BY <1>2, <1>3, CandidatesOrdered
<1>. DEFINE place(x) == CHOOSE i \in D : x.id = cs[i].id
<1>5. \A x \in C : place(x) \in D /\ x.id = cs[place(x)].id /\ x.order \in K
  BY <1>2 DEF Candidate
<1>. DEFINE f == [x \in C |-> <<place(x), x.order>>]
            g == [x \in Top1(cs) |-> place(x)]
<1>6. f \in [C -> D \X K]
  BY <1>5
<1>7. \A x, y \in C : f[x] = f[y] => x = y
  BY <1>3, <1>5
<1>8. g \in [Top1(cs) -> D]
  BY <1>5 DEF Top1
<1>9. \A x, y \in Top1(cs) : g[x] = g[y] => x = y
  BY <1>3, <1>5 DEF Top1
<1>. HIDE DEF C, f, g
<1>10. f \in Injection(C, D \X K) /\ g \in Injection(Top1(cs), D)
  BY <1>6, <1>7, <1>8, <1>9 DEF Injection, IsInjective
<1>11. IsFiniteSet(D) /\ Cardinality(D) = Len(cs) /\ IsFiniteSet(K)
  <2>1. 1 \in Int /\ Len(cs) \in Int /\ MAX_PLANNER_SUGGESTIONS \in Int
    BY <1>1 DEF MAX_PLANNER_SUGGESTIONS
  <2>2. /\ IsFiniteSet(1..Len(cs)) /\ IsFiniteSet(K)
        /\ Cardinality(1..Len(cs)) = IF 1 > Len(cs) THEN 0 ELSE Len(cs) - 1 + 1
    BY <2>1, FS_Interval
  <2>. QED
    BY <1>1, <2>2
<1>12. IsFiniteSet(C)
  BY <1>10, <1>11, FS_Product, FS_Injection
<1>13. IsFiniteSet(Top1(cs)) /\ Cardinality(Top1(cs)) <= Len(cs)
  BY <1>10, <1>11, FS_Injection
<1>. QED
  BY <1>4, <1>12, <1>13 DEF C

\* Whatever was planned in a round: no more children are selected than the beam is
\* wide; a second suggestion is selected only if all first ones are; and if no more
\* trajectories were planned than the beam is wide, each gets its first suggestion
\* (_select_frontier_candidates).
THEOREM SelectionIsFair ==
    ASSUME NEW n \in Nat, NEW cs, OneRound(cs, n)
    PROVE  LET chosenOnes == SelectCandidates(cs) IN
           /\ IsFiniteSet(chosenOnes) /\ Cardinality(chosenOnes) <= MaxChild
           /\ chosenOnes \subseteq Candidates(cs)
           /\ (\E x \in chosenOnes : x.order # 1) => Top1(cs) \subseteq chosenOnes
           /\ Len(cs) <= MaxChild => Top1(cs) \subseteq chosenOnes
<1>. DEFINE top == Top1(cs)
            rest == Remaining(cs)
            slots == MaxChild - Cardinality(top)
            S == SelectCandidates(cs)
<1>1. /\ IsFiniteSet(Candidates(cs)) /\ Ordered(Candidates(cs))
      /\ IsFiniteSet(top) /\ Cardinality(top) <= Len(cs)
  BY CandidatesOfRound
<1>2. /\ top \in SUBSET Candidates(cs) /\ rest \in SUBSET Candidates(cs)
      /\ \A x \in top : x.order = 1
  BY DEF Top1, Remaining
<1>3. /\ IsFiniteSet(rest) /\ Ordered(rest) /\ Ordered(top)
      /\ Cardinality(top) \in Nat /\ MaxChild \in Nat /\ slots \in Int
  BY <1>1, <1>2, FS_Subset, PartOrdered, FS_CardinalityType, SelectionAssumption
<1>4. CASE slots <= 0
  <2>1. S = Best(top, MaxChild)
    BY <1>4 DEF SelectCandidates
  <2>2. IsFiniteSet(S) /\ Cardinality(S) <= MaxChild
    BY <1>1, <1>3, <2>1, BestAreFew
  <2>3. S \subseteq top
    BY <2>1 DEF Best
  <2>4. ASSUME Len(cs) <= MaxChild PROVE top \subseteq S
    <3>1. SUFFICES ASSUME NEW x \in top
                   PROVE  Cardinality(Preceding(top, x)) < MaxChild
      BY <2>1 DEF Best, Preceding
    <3>2. Preceding(top, x) \in SUBSET (top \ {x})
      BY <1>3 DEF Preceding, Ordered
    <3>3. IsFiniteSet(top \ {x}) /\ Cardinality(top \ {x}) = Cardinality(top) - 1
      BY <1>1, FS_RemoveElement
    <3>4. /\ Cardinality(Preceding(top, x)) <= Cardinality(top \ {x})
          /\ Cardinality(Preceding(top, x)) \in Nat
      BY <3>2, <3>3, FS_Subset, FS_CardinalityType
    <3>5. Len(cs) \in Nat
      BY DEF OneRound
    <3>. QED
      BY <1>1, <1>3, <2>4, <3>3, <3>4, <3>5
  <2>. QED
    BY <1>2, <2>2, <2>3, <2>4
<1>5. CASE slots > 0
  <2>1. S = top \cup Best(rest, slots)
    BY <1>3, <1>5 DEF SelectCandidates
  <2>2. IsFiniteSet(Best(rest, slots)) /\ Cardinality(Best(rest, slots)) <= slots
    BY <1>3, <1>5, BestAreFew
  <2>3. /\ IsFiniteSet(S)
        /\ Cardinality(S) = Cardinality(top) + Cardinality(Best(rest, slots))
                              - Cardinality(top \cap Best(rest, slots))
    BY <1>1, <2>1, <2>2, FS_Union
  <2>4. Cardinality(top \cap Best(rest, slots)) \in Nat /\ Cardinality(Best(rest, slots)) \in Nat
    BY <1>1, <2>2, FS_Intersection, FS_CardinalityType
  <2>5. Cardinality(S) <= MaxChild
    BY <1>3, <2>2, <2>3, <2>4
  <2>6. Best(rest, slots) \subseteq rest
    BY DEF Best
  <2>. QED
    BY <1>2, <2>1, <2>3, <2>5, <2>6
<1>. QED
  BY <1>3, <1>4, <1>5
-----------------------------------------------------------------------------
(* The beam. *)

\* One of S is a suggestion for t.
Chance(t, S) == \E x \in S : x.id = t

\* A child in memory is one of the parent being forked.
Kin ==
    pc \in {"child"} \cup Executing =>
        \E s \in Suggestion : child = Append(Current.id, s)

\* All that is planned in one round is of one depth, and what is kept for the next
\* round is one step deeper.
OneDepth ==
    \E d \in Nat :
        /\ \A i \in DOMAIN frontier : Len(frontier[i]) = d
        /\ \A i \in DOMAIN contexts : Len(contexts[i].id) = d
        /\ \A i \in DOMAIN nextFrontier : Len(nextFrontier[i]) = d + 1

\* What is selected and not yet spawned is of the trajectories still to be
\* dispatched, and with what was kept, and the child in execution, it fits.
Selected ==
    /\ IsFiniteSet(chosen)
    /\ \A x \in chosen : \E i \in DOMAIN contexts :
          x.id = contexts[i].id /\ x.order \in UsableOrders(contexts[i])
    /\ pc = "plan" => chosen = {}

Room ==
    /\ Len(frontier) + Len(contexts) <= MaxChild
    /\ Len(nextFrontier) + Cardinality(chosen) <= MaxChild
    /\ pc \in Executing => Len(nextFrontier) + Cardinality(chosen) < MaxChild

\* Whoever has suggestions has one selected until it is dispatched; then it has one
\* left, or a child, or its forks have failed.
Chances ==
    /\ pc # "plan" => \A i \in DOMAIN contexts :
          (i # 1 \/ pc \in {"register", "record"}) /\ contexts[i].sugg # <<>> =>
              Chance(contexts[i].id, chosen)
    /\ pc \in {"answer", "answered"} => Current.sugg = <<>>
    /\ pc = "child" => Chance(Current.id, chosen)
    /\ pc = "spawn" =>
          \/ Chance(Current.id, chosen)
          \/ created
          \/ traj[Current.id].status = "error" /\ traj[Current.id].err = "child_init_error"
    /\ pc \in Executing => created

\* Only a parent without children whose forks failed was stopped early.
Stopped ==
    \A t \in DOMAIN traj : traj[t].status = "stopped_early" =>
        traj[t].err = "child_init_error" /\ ~Branching(t, traj)

\* What a step preserves, given IInv and TInv.
BInv == Kin /\ OneDepth /\ Selected /\ Room /\ Chances /\ Stopped

\* What the loop asks of the selected ones.
LEMMA ChanceOrders == \A t : Chance(t, chosen) <=> OrdersOf(t) # {}
BY DEF Chance, OrdersOf

\* What is behind the first element stays.
LEMMA TailIndices ==
    ASSUME NEW S, NEW q \in Seq(S), q # <<>>
    PROVE  /\ Len(Tail(q)) = Len(q) - 1
           /\ \A i \in DOMAIN q : i # 1 => i - 1 \in DOMAIN Tail(q) /\ Tail(q)[i - 1] = q[i]
OBVIOUS

\* Nothing is held.
LEMMA ForgetBeam ==
    ASSUME BInv, Forget, pc' \in Ended \cup {"start"}
    PROVE  BInv'
<1>. USE DEF Forget, disk, Ended
<1>1. Kin' /\ OneDepth' /\ Chances'
  BY DEF Kin, OneDepth, Chances, Executing
<1>2. Selected' /\ Room'
  BY FS_EmptySet, SelectionAssumption DEF Selected, Room, Executing
<1>3. Stopped'
  BY DEF BInv, Stopped, Branching
<1>. QED
  BY <1>1, <1>2, <1>3 DEF BInv

\* One record changes, to anything but an early stop.
LEMMA RewrittenStopped ==
    ASSUME Stopped, NEW t \in DOMAIN traj, NEW r, r.status # "stopped_early",
           traj' = [traj EXCEPT ![t] = r]
    PROVE  Stopped'
BY DEF Stopped, Branching

\* Nothing is planned before a run.
LEMMA InitBeam == Init => BInv
<1>. SUFFICES ASSUME Init PROVE BInv
  OBVIOUS
<1>. USE DEF Init, Idle
<1>1. Kin /\ OneDepth /\ Chances
  BY DEF Kin, OneDepth, Chances, Executing
<1>2. Selected /\ Room
  BY FS_EmptySet, SelectionAssumption DEF Selected, Room, Executing
<1>3. Stopped
  BY DEF Stopped
<1>. QED
  BY <1>1, <1>2, <1>3 DEF BInv

\* Steps that neither hold nor write a record.
LEMMA QuietBeam ==
    ASSUME IInv, TInv, BInv,
           \/ InitRootFiles \/ Finish \/ SavePlannerOutput \/ AppendFinalAnswer
           \/ RunExecutor \/ RunRuntime \/ AppendStepMessages \/ SaveJudgeRecord
    PROVE  BInv'
<1>. USE DEF disk, queue, family, execution
<1>1. UNCHANGED <<traj, queue, created, child>>
  BY DEF InitRootFiles, Finish, SavePlannerOutput, AppendFinalAnswer, RunExecutor,
     RunRuntime, AppendStepMessages, SaveJudgeRecord
<1>2. /\ pc' # "plan" /\ (pc' \in Executing <=> pc \in Executing) /\ pc' \notin {"child", "spawn"}
      /\ pc' \in {"register", "record"} => pc \in {"register", "record"}
      /\ pc' \in {"answer", "answered"} => pc \in {"answer", "answered"}
      /\ pc = "plan" => contexts = <<>>
  BY DEF InitRootFiles, Finish, SavePlannerOutput, AppendFinalAnswer, RunExecutor,
     RunRuntime, AppendStepMessages, SaveJudgeRecord, Executing
<1>3. Current' = Current
  BY <1>1 DEF Current
<1>4. Kin' /\ OneDepth' /\ Selected' /\ Room' /\ Stopped'
  BY <1>1, <1>2, <1>3 DEF BInv, Kin, OneDepth, Selected, Room, Stopped
<1>5. Chances'
  BY <1>1, <1>2, <1>3 DEF BInv, Chances
<1>. QED
  BY <1>4, <1>5 DEF BInv

\* The first frontier is the root alone.
LEMMA RootBeam ==
    ASSUME IInv, TInv, BInv, InitRootRecord
    PROVE  BInv'
<1>1. /\ pc = "root" /\ pc' = "plan" /\ frontier' = <<Root>>
      /\ traj' = Put(traj, Root, NewRecord(budget0))
      /\ UNCHANGED <<contexts, chosen, nextFrontier>>
  BY DEF InitRootRecord
<1>2. DOMAIN traj = {}
  BY <1>1 DEF TInv, Rooted
<1>3. contexts = <<>> /\ nextFrontier = <<>>
  BY <1>2 DEF IInv, TypeOK, Places
<1>4. chosen = {}
  BY <1>3 DEF BInv, Selected
<1>5. Kin' /\ Chances'
  BY <1>1 DEF Kin, Chances, Executing
<1>6. OneDepth'
  BY <1>1, <1>3 DEF OneDepth, Root
<1>7. Selected' /\ Room'
  BY <1>1, <1>3, <1>4, FS_EmptySet, SelectionAssumption DEF Selected, Room, Executing
<1>8. Stopped'
  BY <1>1, <1>2 DEF Stopped, Put, NewRecord
<1>. QED
  BY <1>5, <1>6, <1>7, <1>8 DEF BInv

\* Going through the frontier.
LEMMA FrontierBeam ==
    ASSUME IInv, TInv, BInv, SkipTrajectory \/ PlannerFails \/ PlanTrajectory
    PROVE  BInv'
<1>. USE DEF disk, family, execution
<1>. DEFINE t == frontier[1]
<1>1. /\ pc = "plan" /\ pc' = "plan" /\ frontier # <<>> /\ frontier' = Tail(frontier)
      /\ UNCHANGED <<chosen, nextFrontier>>
  BY DEF SkipTrajectory, PlannerFails, PlanTrajectory, Plannable
<1>2. /\ frontier \in Seq(TrajectoryId) /\ 1 \in DOMAIN frontier /\ contexts \in Seq(Context)
      /\ t \in DOMAIN traj /\ traj[t] \in Record
  BY <1>1, FrontierHead DEF IInv, TypeOK
<1>3. /\ Len(frontier') = Len(frontier) - 1
      /\ \A i \in DOMAIN frontier' : i + 1 \in DOMAIN frontier /\ frontier'[i] = frontier[i + 1]
  BY <1>1, <1>2, TailElements, TailIndices
<1>4. \/ contexts' = contexts
      \/ \E c : contexts' = Append(contexts, c) /\ c.id = t
  <2>1. CASE SkipTrajectory \/ PlannerFails
    BY <2>1 DEF SkipTrajectory, PlannerFails
  <2>2. CASE PlanTrajectory
    <3>1. PICK c : contexts' = Append(contexts, c) /\ c.id = t
      BY <2>2 DEF PlanTrajectory
    <3>. QED
      BY <3>1
  <2>. QED
    BY <2>1, <2>2
<1>5. /\ Len(frontier') + Len(contexts') <= MaxChild
      /\ \A i \in DOMAIN contexts' :
            \/ i \in DOMAIN contexts /\ contexts'[i] = contexts[i]
            \/ contexts'[i].id = t
  <2>1. /\ Len(frontier) + Len(contexts) <= MaxChild
        /\ Len(contexts) \in Nat /\ Len(frontier) \in Nat /\ MaxChild \in Nat
    BY <1>2, SelectionAssumption DEF BInv, Room
  <2>2. CASE contexts' = contexts
    BY <1>3, <2>1, <2>2
  <2>3. CASE \E c : contexts' = Append(contexts, c) /\ c.id = t
    <3>1. PICK c : contexts' = Append(contexts, c) /\ c.id = t
      BY <2>3
    <3>2. Len(contexts') = Len(contexts) + 1
      BY <1>2, <3>1
    <3>3. \A i \in DOMAIN contexts' :
            \/ i \in DOMAIN contexts /\ contexts'[i] = contexts[i]
            \/ contexts'[i] = c
      BY <1>2, <3>1, AppendElements
    <3>. QED
      BY <1>3, <2>1, <3>1, <3>2, <3>3
  <2>. QED
    BY <1>4, <2>2, <2>3
<1>6. Kin' /\ Chances'
  BY <1>1 DEF Kin, Chances, Executing
<1>7. OneDepth'
  <2>1. PICK d \in Nat :
           /\ \A i \in DOMAIN frontier : Len(frontier[i]) = d
           /\ \A i \in DOMAIN contexts : Len(contexts[i].id) = d
           /\ \A i \in DOMAIN nextFrontier : Len(nextFrontier[i]) = d + 1
    BY DEF BInv, OneDepth
  <2>2. \A i \in DOMAIN contexts' : Len(contexts'[i].id) = d
    BY <1>2, <1>5, <2>1
  <2>. QED
    BY <1>1, <1>3, <2>1, <2>2 DEF OneDepth
<1>8. Selected'
  BY <1>1 DEF BInv, Selected
<1>9. Room'
  BY <1>1, <1>5 DEF BInv, Room, Executing
<1>10. Stopped'
  <2>1. CASE traj' = traj
    BY <2>1 DEF BInv, Stopped
  <2>2. CASE SkipTrajectory
    <3>1. \/ traj' = traj
          \/ traj' = [traj EXCEPT ![t] = Marked(traj[t], "max_step_reached")]
      BY <2>2 DEF SkipTrajectory
    <3>2. Marked(traj[t], "max_step_reached").status # "stopped_early"
      BY <1>2, MarkedFields
    <3>. QED
      BY <1>2, <2>1, <3>1, <3>2, RewrittenStopped DEF BInv
  <2>3. CASE PlannerFails
    <3>1. traj' = [traj EXCEPT ![t] = MarkedError(traj[t], "planner_error")]
      BY <2>3 DEF PlannerFails
    <3>2. MarkedError(traj[t], "planner_error").status # "stopped_early"
      BY <1>2, MarkedErrorFields
    <3>. QED
      BY <1>2, <3>1, <3>2, RewrittenStopped DEF BInv
  <2>. QED
    BY <2>1, <2>2, <2>3 DEF PlanTrajectory
<1>. QED
  BY <1>6, <1>7, <1>8, <1>9, <1>10 DEF BInv

\* The selection: everything planned has a candidate, and there is room for all.
LEMMA SelectBeam ==
    ASSUME IInv, TInv, BInv, SelectFrontier
    PROVE  BInv'
<1>. USE DEF disk, family, execution
<1>1. /\ pc = "plan" /\ pc' = "register" /\ chosen' = SelectCandidates(contexts)
      /\ UNCHANGED <<traj, frontier, contexts, nextFrontier, child>>
  BY DEF SelectFrontier
<1>2. contexts \in Seq(Context) /\ \A i \in DOMAIN contexts : contexts[i] \in Context
  BY DEF IInv, TypeOK
<1>3. PICK d \in Nat :
         /\ \A i \in DOMAIN frontier : Len(frontier[i]) = d
         /\ \A i \in DOMAIN contexts : Len(contexts[i].id) = d
         /\ \A i \in DOMAIN nextFrontier : Len(nextFrontier[i]) = d + 1
  BY DEF BInv, OneDepth
<1>4. OneRound(contexts, d)
  <2>1. \A i \in DOMAIN contexts : contexts[i].id \in Paths(d)
    BY <1>2, <1>3 DEF Context, Paths
  <2>. QED
    BY <1>2, <2>1 DEF OneRound, TInv, Apart
<1>5. nextFrontier = <<>> /\ frontier \in Seq(TrajectoryId) /\ Len(contexts) <= MaxChild
  BY <1>1, <1>2, SelectionAssumption DEF TInv, Apart, IInv, TypeOK, BInv, Room
<1>6. /\ IsFiniteSet(chosen') /\ Cardinality(chosen') <= MaxChild
      /\ chosen' \subseteq Candidates(contexts) /\ Top1(contexts) \subseteq chosen'
  BY <1>1, <1>4, <1>5, SelectionIsFair
<1>7. \A x \in chosen' : \E i \in DOMAIN contexts :
         x.id = contexts[i].id /\ x.order \in UsableOrders(contexts[i])
  BY <1>6, CandidateOrigin
<1>8. Kin' /\ OneDepth' /\ Stopped'
  BY <1>1 DEF BInv, Kin, OneDepth, Stopped, Executing
<1>9. Selected'
  BY <1>1, <1>6, <1>7 DEF Selected
<1>10. Room'
  <2>1. Len(nextFrontier') + Cardinality(chosen') <= MaxChild
    BY <1>1, <1>5, <1>6, FS_CardinalityType
  <2>. QED
    BY <1>1, <2>1 DEF BInv, Room, Executing
<1>11. Chances'
  <2>1. ASSUME NEW i \in DOMAIN contexts, contexts[i].sugg # <<>>
        PROVE  Chance(contexts[i].id, chosen')
    <3>. DEFINE x == [id |-> contexts[i].id, order |-> 1, score |-> contexts[i].score,
                      suggestion |-> contexts[i].sugg[1]]
    <3>1. 1 \in UsableOrders(contexts[i])
      BY <1>2, <2>1, UsableType
    <3>2. x \in Candidates(contexts) /\ x.order = 1 /\ x.id = contexts[i].id
      BY <3>1 DEF Candidates
    <3>3. x \in Top1(contexts)
      BY <3>2 DEF Top1
    <3>. QED
      BY <1>6, <3>2, <3>3 DEF Chance
  <2>. QED
    BY <1>1, <2>1 DEF Chances, Executing
<1>. QED
  BY <1>8, <1>9, <1>10, <1>11 DEF BInv

\* A round with suggestions has one selected when it is registered.
LEMMA RegisteredBeam ==
    ASSUME IInv, TInv, BInv, RegisterPlannerRound
    PROVE  BInv'
<1>. USE DEF queue, execution
<1>. DEFINE t == Current.id
            planned == Registered(traj[t].planned, <<t, Current.round>>)
            answered == traj[t].answered \/ Current.sugg = <<>>
            r == [traj[t] EXCEPT !.planned = planned, !.lastRound = Current.round,
                                 !.pending = FALSE, !.answered = answered]
<1>1. /\ pc = "record" /\ pc' = IF Current.sugg = <<>> THEN "answer" ELSE "spawn"
      /\ traj' = [traj EXCEPT ![t] = r]
      /\ UNCHANGED <<frontier, contexts, chosen, nextFrontier, child>>
  BY DEF RegisterPlannerRound
<1>2. contexts # <<>>
  BY <1>1 DEF IInv, Places, Dispatching
<1>3. /\ 1 \in DOMAIN contexts /\ Current = contexts[1] /\ t \in DOMAIN traj
      /\ traj[t] \in Record
  BY <1>2, CurrentIsFirst
<1>4. r.status = traj[t].status
  BY <1>3 DEF Record
<1>. HIDE DEF r
<1>5. traj[t].status = "running"
  BY <1>1, <1>3 DEF TInv, Held, RunningLeaf, Spawning, Executing
<1>6. Stopped'
  BY <1>1, <1>3, <1>4, <1>5, RewrittenStopped DEF BInv
<1>7. Kin' /\ OneDepth' /\ Selected' /\ Room'
  BY <1>1 DEF BInv, Kin, OneDepth, Selected, Room, Executing
<1>8. Chances'
  <2>1. Current' = Current
    BY <1>1 DEF Current
  <2>2. Current.sugg # <<>> => Chance(t, chosen)
    BY <1>1, <1>3 DEF BInv, Chances
  <2>. QED
    BY <1>1, <2>1, <2>2 DEF BInv, Chances, Executing
<1>. QED
  BY <1>6, <1>7, <1>8 DEF BInv

\* A trajectory that is left has none selected any more, and is stopped early only
\* if its forks failed.
LEMMA ContextBeam ==
    ASSUME IInv, TInv, BInv, MarkAnswered \/ CloseParent
    PROVE  BInv'
<1>. USE DEF execution
<1>. DEFINE t == Current.id
<1>1. /\ pc \in {"answered", "spawn"} /\ pc' = "register" /\ contexts' = Tail(contexts)
      /\ UNCHANGED <<frontier, chosen, nextFrontier, child>>
  BY DEF MarkAnswered, CloseParent
<1>2. contexts # <<>>
  BY <1>1 DEF IInv, Places, Dispatching, Spawning
<1>3. /\ 1 \in DOMAIN contexts /\ Current = contexts[1] /\ t \in DOMAIN traj
      /\ traj[t] \in Record /\ contexts \in Seq(Context) /\ contexts[1] \in Context
  BY <1>2, CurrentIsFirst
<1>4. /\ \A i \in DOMAIN contexts' :
            i + 1 \in DOMAIN contexts /\ i + 1 # 1 /\ contexts'[i] = contexts[i + 1]
      /\ \A i \in DOMAIN contexts :
            i # 1 => i - 1 \in DOMAIN contexts' /\ contexts'[i - 1] = contexts[i]
      /\ Len(contexts') = Len(contexts) - 1
  BY <1>1, <1>2, <1>3, TailElements, TailIndices
<1>5. ASSUME NEW x \in chosen
      PROVE  \E i \in DOMAIN contexts :
                i # 1 /\ x.id = contexts[i].id /\ x.order \in UsableOrders(contexts[i])
  <2>1. PICK i \in DOMAIN contexts :
           x.id = contexts[i].id /\ x.order \in UsableOrders(contexts[i])
    BY DEF BInv, Selected
  <2>2. CASE MarkAnswered
    <3>1. contexts[1].sugg = <<>>
      BY <1>3, <2>2 DEF MarkAnswered, BInv, Chances
    <3>2. UsableOrders(contexts[1]) = {}
      BY <1>3, <3>1, UsableType
    <3>. QED
      BY <2>1, <3>2
  <2>3. CASE CloseParent
    <3>1. OrdersOf(t) = {}
      BY <2>3 DEF CloseParent
    <3>2. x.id # t
      BY <3>1, ChanceOrders DEF Chance
    <3>. QED
      BY <1>3, <2>1, <3>2
  <2>. QED
    BY <2>2, <2>3
<1>6. Kin' /\ OneDepth'
  <2>1. OneDepth'
    BY <1>1, <1>4 DEF BInv, OneDepth
  <2>. QED
    BY <1>1, <2>1 DEF Kin, Executing
<1>7. Selected'
  <2>1. \A x \in chosen : \E i \in DOMAIN contexts' :
           x.id = contexts'[i].id /\ x.order \in UsableOrders(contexts'[i])
    BY <1>4, <1>5
  <2>. QED
    BY <1>1, <2>1 DEF BInv, Selected
<1>8. Room'
  <2>1. Len(frontier) + Len(contexts) <= MaxChild /\ Len(contexts) \in Nat /\ Len(frontier) \in Nat
    BY <1>3 DEF BInv, Room, IInv, TypeOK
  <2>2. Len(frontier') + Len(contexts') <= MaxChild
    BY <1>1, <1>4, <2>1, SelectionAssumption
  <2>. QED
    BY <1>1, <2>2 DEF BInv, Room, Executing
<1>9. Chances'
  <2>1. \A i \in DOMAIN contexts : i # 1 /\ contexts[i].sugg # <<>> =>
           Chance(contexts[i].id, chosen)
    BY <1>1 DEF BInv, Chances
  <2>. QED
    BY <1>1, <1>4, <2>1 DEF Chances, Executing
<1>10. Stopped'
  <2>1. CASE traj' = traj
    BY <2>1 DEF BInv, Stopped
  <2>2. ASSUME NEW x, traj' = [traj EXCEPT ![t] = Marked(traj[t], x)], x # "stopped_early"
        PROVE  Stopped'
    <3>1. Marked(traj[t], x).status # "stopped_early"
      BY <1>3, <2>2, MarkedFields
    <3>. QED
      BY <1>3, <2>2, <3>1, RewrittenStopped DEF BInv
  <2>3. CASE MarkAnswered
    BY <2>2, <2>3 DEF MarkAnswered
  <2>4. CASE CloseParent /\ created
    BY <2>2, <2>4 DEF CloseParent
  <2>5. CASE CloseParent /\ ~created
    <3>1. \/ traj' = traj
          \/ traj' = [traj EXCEPT ![t] = Marked(traj[t], "stopped_early")]
      BY <2>5 DEF CloseParent, FinalizeUnselected
    <3>2. traj[t].err = "child_init_error"
      BY <2>5, ChanceOrders DEF CloseParent, BInv, Chances
    <3>3. ~Branching(t, traj)
      BY <2>5 DEF CloseParent, TInv, Forking, Spawning
    <3>4. Marked(traj[t], "stopped_early").err = "child_init_error"
      BY <1>3, <3>2, MarkedFields
    <3>. QED
      BY <1>3, <2>1, <3>1, <3>3, <3>4 DEF BInv, Stopped, Branching
  <2>. QED
    BY <2>3, <2>4, <2>5
<1>. QED
  BY <1>6, <1>7, <1>8, <1>9, <1>10 DEF BInv

\* What was kept is the next frontier.
LEMMA RoundBeam ==
    ASSUME IInv, TInv, BInv, StartNextRound
    PROVE  BInv'
<1>. USE DEF disk, execution
<1>1. /\ pc = "register" /\ pc' = "plan" /\ contexts = <<>> /\ frontier' = nextFrontier
      /\ nextFrontier' = <<>> /\ UNCHANGED <<traj, contexts, chosen, child>>
  BY DEF StartNextRound
<1>2. chosen = {}
  BY <1>1 DEF BInv, Selected
<1>3. Kin' /\ Chances'
  BY <1>1 DEF Kin, Chances, Executing
<1>4. OneDepth'
  <2>1. PICK d \in Nat : \A i \in DOMAIN nextFrontier : Len(nextFrontier[i]) = d + 1
    BY DEF BInv, OneDepth
  <2>2. d + 1 \in Nat
    OBVIOUS
  <2>. QED
    BY <1>1, <2>1, <2>2 DEF OneDepth
<1>5. Selected'
  BY <1>1, <1>2, FS_EmptySet DEF Selected
<1>6. Room'
  <2>1. Len(nextFrontier) <= MaxChild /\ Len(nextFrontier) \in Nat
    BY <1>2, FS_EmptySet, SelectionAssumption DEF BInv, Room, IInv, TypeOK
  <2>. QED
    BY <1>1, <1>2, <2>1, FS_EmptySet, SelectionAssumption DEF Room, Executing
<1>7. Stopped'
  BY <1>1 DEF BInv, Stopped
<1>. QED
  BY <1>3, <1>4, <1>5, <1>6, <1>7 DEF BInv

\* Taking a parent's next candidate away leaves those of the others.
LEMMA CandidateTaken ==
    ASSUME IInv, TInv, BInv, contexts # <<>>, Chance(Current.id, chosen),
           chosen' = chosen \ {NextCandidate}
    PROVE  /\ IsFiniteSet(chosen') /\ Cardinality(chosen') = Cardinality(chosen) - 1
           /\ chosen' \subseteq chosen /\ Cardinality(chosen') \in Nat
           /\ \A i \in DOMAIN contexts :
                 i # 1 /\ Chance(contexts[i].id, chosen) => Chance(contexts[i].id, chosen')
<1>1. NextCandidate \in chosen /\ NextCandidate.id = Current.id
  BY ChanceOrders, NextCandidateType DEF IInv, TypeOK
<1>2. 1 \in DOMAIN contexts /\ Current = contexts[1]
  BY CurrentIsFirst
<1>3. \A i \in DOMAIN contexts : i # 1 => contexts[i].id # Current.id
  BY <1>2 DEF TInv, Apart
<1>4. IsFiniteSet(chosen)
  BY DEF BInv, Selected
<1>5. IsFiniteSet(chosen') /\ Cardinality(chosen') = Cardinality(chosen) - 1
  BY <1>1, <1>4, FS_RemoveElement
<1>6. ASSUME NEW i \in DOMAIN contexts, i # 1, Chance(contexts[i].id, chosen)
      PROVE  Chance(contexts[i].id, chosen')
  BY <1>1, <1>3, <1>6 DEF Chance
<1>. QED
  BY <1>5, <1>6, FS_CardinalityType

\* A failed fork uses up a candidate and says so in the record.
LEMMA FailedForkBeam ==
    ASSUME IInv, TInv, BInv, SpawnFails
    PROVE  BInv'
<1>. USE DEF family, execution
<1>. DEFINE t == Current.id
            r == MarkedError(traj[t], "child_init_error")
<1>1. /\ pc = "spawn" /\ pc' = "spawn" /\ traj' = [traj EXCEPT ![t] = r]
      /\ chosen' = chosen \ {NextCandidate} /\ OrdersOf(t) # {}
      /\ UNCHANGED <<frontier, contexts, nextFrontier, child, created>>
  BY DEF SpawnFails, MoreToSpawn
<1>2. contexts # <<>> /\ Current' = Current
  BY <1>1 DEF IInv, Places, Dispatching, Spawning, Current
<1>3. /\ 1 \in DOMAIN contexts /\ Current = contexts[1] /\ t \in DOMAIN traj
      /\ traj[t] \in Record
  BY <1>2, CurrentIsFirst
<1>4. r.status = "error" /\ r.err = "child_init_error"
  BY <1>3, MarkedErrorFields
<1>. HIDE DEF r
<1>5. traj'[t] = r
  BY <1>1, <1>3
<1>6. /\ IsFiniteSet(chosen') /\ Cardinality(chosen') = Cardinality(chosen) - 1
      /\ chosen' \subseteq chosen /\ Cardinality(chosen') \in Nat
      /\ \A i \in DOMAIN contexts :
            i # 1 /\ Chance(contexts[i].id, chosen) => Chance(contexts[i].id, chosen')
  BY <1>1, <1>2, ChanceOrders, CandidateTaken
<1>7. Stopped'
  BY <1>1, <1>3, <1>4, RewrittenStopped DEF BInv
<1>8. Kin' /\ OneDepth' /\ Selected'
  BY <1>1, <1>6 DEF BInv, Kin, OneDepth, Selected, Executing
<1>9. Room'
  <2>1. /\ Len(nextFrontier) + Cardinality(chosen) <= MaxChild /\ Len(nextFrontier) \in Nat
        /\ Cardinality(chosen) \in Int /\ MaxChild \in Nat
    BY <1>6, FS_CardinalityType, SelectionAssumption DEF BInv, Room, Selected, IInv, TypeOK
  <2>2. Len(nextFrontier') + Cardinality(chosen') <= MaxChild
    BY <1>1, <1>6, <2>1
  <2>. QED
    BY <1>1, <2>2 DEF BInv, Room, Executing
<1>10. Chances'
  BY <1>1, <1>2, <1>4, <1>5, <1>6 DEF BInv, Chances, Executing
<1>. QED
  BY <1>7, <1>8, <1>9, <1>10 DEF BInv

\* The directory of the next candidate's child.
LEMMA ForkedFilesBeam ==
    ASSUME IInv, TInv, BInv, SpawnFiles
    PROVE  BInv'
<1>. USE DEF queue, family
<1>1. /\ pc = "spawn" /\ pc' = "child" /\ child' = Append(Current.id, NextSuggestion)
      /\ OrdersOf(Current.id) # {}
      /\ UNCHANGED <<traj, frontier, contexts, chosen, nextFrontier, created>>
  BY DEF SpawnFiles, MoreToSpawn, NextChild, ChildId
<1>2. NextSuggestion \in Suggestion /\ Current' = Current
  BY <1>1, NextCandidateType DEF IInv, TypeOK, Current
<1>3. Chance(Current.id, chosen)
  BY <1>1, ChanceOrders
<1>4. Kin' /\ OneDepth' /\ Selected' /\ Room' /\ Stopped'
  BY <1>1, <1>2 DEF BInv, Kin, OneDepth, Selected, Room, Stopped, Executing
<1>5. Chances'
  BY <1>1, <1>2, <1>3 DEF BInv, Chances, Executing
<1>. QED
  BY <1>4, <1>5 DEF BInv

\* The child takes its candidate's place.
LEMMA ForkedRecordBeam ==
    ASSUME IInv, TInv, BInv, SpawnRecord
    PROVE  BInv'
<1>. USE DEF execution
<1>. DEFINE t == Current.id
            r == ForkedRecord(parent)
<1>1. /\ pc = "child" /\ pc' = "execute" /\ traj' = Put(traj, child, r) /\ created' = TRUE
      /\ chosen' = chosen \ {NextCandidate}
      /\ UNCHANGED <<frontier, contexts, nextFrontier, child>>
  BY DEF SpawnRecord
<1>2. contexts # <<>> /\ Current' = Current
  BY <1>1 DEF IInv, Places, Dispatching, Spawning, Current
<1>3. /\ 1 \in DOMAIN contexts /\ Current = contexts[1] /\ t \in DOMAIN traj
      /\ t \in TrajectoryId
  BY <1>2, CurrentIsFirst
<1>4. Chance(t, chosen)
  BY <1>1 DEF BInv, Chances
<1>5. /\ IsFiniteSet(chosen') /\ Cardinality(chosen') = Cardinality(chosen) - 1
      /\ chosen' \subseteq chosen /\ Cardinality(chosen') \in Nat
      /\ \A i \in DOMAIN contexts :
            i # 1 /\ Chance(contexts[i].id, chosen) => Chance(contexts[i].id, chosen')
  BY <1>1, <1>2, <1>4, CandidateTaken
<1>6. Kin' /\ OneDepth' /\ Selected'
  BY <1>1, <1>2, <1>5 DEF BInv, Kin, OneDepth, Selected
<1>7. Room'
  <2>1. /\ Len(nextFrontier) + Cardinality(chosen) <= MaxChild /\ Len(nextFrontier) \in Nat
        /\ Cardinality(chosen) \in Int /\ MaxChild \in Nat
    BY <1>5, FS_CardinalityType, SelectionAssumption DEF BInv, Room, Selected, IInv, TypeOK
  <2>2. Len(nextFrontier') + Cardinality(chosen') < MaxChild
    BY <1>1, <1>5, <2>1
  <2>3. Len(nextFrontier') + Cardinality(chosen') <= MaxChild
    BY <1>1, <1>5, <2>1
  <2>. QED
    BY <1>1, <2>2, <2>3 DEF BInv, Room
<1>8. Chances'
  BY <1>1, <1>5 DEF BInv, Chances, Executing
<1>9. Stopped'
  <2>1. r.status = "running"
    BY DEF ForkedRecord, IInv, TypeOK, Record
  <2>2. PICK s \in Suggestion : child = Append(t, s)
    BY <1>1 DEF BInv, Kin
  <2>3. child \notin DOMAIN traj /\ IsOpen(t, traj)
    BY <1>1 DEF TInv, Forking, Spawning
  <2>4. /\ DOMAIN traj' = DOMAIN traj \cup {child} /\ traj'[child] = r
        /\ \A u \in DOMAIN traj : traj'[u] = traj[u]
    BY <1>1, <2>3 DEF Put
  <2>. HIDE DEF r
  <2>5. ASSUME NEW u \in DOMAIN traj', traj'[u].status = "stopped_early"
        PROVE  traj'[u].err = "child_init_error" /\ ~Branching(u, traj')
    <3>1. u \in DOMAIN traj /\ traj'[u] = traj[u]
      BY <2>1, <2>4, <2>5
    <3>2. traj[u].err = "child_init_error" /\ ~Branching(u, traj)
      BY <2>5, <3>1 DEF BInv, Stopped
    <3>3. u # t
      BY <2>3, <2>5, <3>1 DEF IsOpen, OpenStatus
    <3>4. u \in TrajectoryId
      BY <3>1 DEF IInv, TypeOK
    <3>5. \A q \in Suggestion : Append(u, q) # child
      BY <1>3, <2>2, <3>3, <3>4, OneParent
    <3>. QED
      BY <2>4, <3>1, <3>2, <3>5 DEF Branching
  <2>. QED
    BY <2>5 DEF Stopped
<1>. QED
  BY <1>6, <1>7, <1>8, <1>9 DEF BInv

\* Executing the child keeps its place, and at the end gives it one in the next
\* frontier or gives it up.
LEMMA ExecutionBeam ==
    ASSUME IInv, TInv, BInv,
           \/ ExecutorFails \/ RuntimeFails \/ JudgeFails
           \/ RegisterStepRecord \/ RegisterJudgeRecord \/ FinalizeChild
    PROVE  BInv'
<1>. USE DEF queue, family, execution
<1>. DEFINE q == traj[child]
<1>1. /\ pc \in Executing /\ pc # "plan" /\ pc \notin {"register", "record"}
      /\ \/ pc' = "spawn"
         \/ pc' \in Executing /\ child' = child /\ nextFrontier' = nextFrontier
      /\ UNCHANGED <<frontier, contexts, chosen, created>>
      /\ nextFrontier' = nextFrontier \/ nextFrontier' = Append(nextFrontier, child)
  BY DEF Executing, ExecutorFails, RuntimeFails, JudgeFails, RegisterStepRecord,
     RegisterJudgeRecord, FinalizeChild, ChildError, LeaveChild
<1>2. child \in DOMAIN traj /\ q \in Record /\ q.status = "running"
  BY <1>1 DEF IInv, TypeOK, Places, TInv, Held, RunningLeaf
<1>3. /\ contexts # <<>> /\ 1 \in DOMAIN contexts /\ Current = contexts[1]
      /\ Current.id \in TrajectoryId /\ Current' = Current
  <2>1. contexts # <<>>
    BY <1>1 DEF IInv, Places, Dispatching, Spawning
  <2>. QED
    BY <1>1, <2>1, CurrentIsFirst DEF Current
<1>4. PICK s \in Suggestion : child = Append(Current.id, s)
  BY <1>1 DEF BInv, Kin
<1>5. /\ nextFrontier \in Seq(TrajectoryId) /\ nextFrontier' \in Seq(TrajectoryId)
      /\ Len(nextFrontier') \in {Len(nextFrontier), Len(nextFrontier) + 1}
      /\ \A i \in DOMAIN nextFrontier' :
            \/ i \in DOMAIN nextFrontier /\ nextFrontier'[i] = nextFrontier[i]
            \/ nextFrontier'[i] = child
  <2>1. nextFrontier \in Seq(TrajectoryId) /\ child \in TrajectoryId
    BY <1>2 DEF IInv, TypeOK
  <2>. QED
    BY <1>1, <2>1, AppendElements
<1>6. OneDepth'
  <2>1. PICK d \in Nat :
           /\ \A i \in DOMAIN frontier : Len(frontier[i]) = d
           /\ \A i \in DOMAIN contexts : Len(contexts[i].id) = d
           /\ \A i \in DOMAIN nextFrontier : Len(nextFrontier[i]) = d + 1
    BY DEF BInv, OneDepth
  <2>2. Len(child) = d + 1
    BY <1>3, <1>4, <2>1, ChildName
  <2>3. \A i \in DOMAIN nextFrontier' : Len(nextFrontier'[i]) = d + 1
    BY <1>5, <2>1, <2>2
  <2>. QED
    BY <1>1, <2>1, <2>3 DEF OneDepth
<1>7. Kin' /\ Selected'
  BY <1>1, <1>3 DEF BInv, Kin, Selected, Executing
<1>8. Room'
  <2>1. /\ Len(nextFrontier) + Cardinality(chosen) < MaxChild /\ Len(nextFrontier) \in Nat
        /\ Cardinality(chosen) \in Nat /\ MaxChild \in Nat
    BY <1>1, <1>5, FS_CardinalityType, SelectionAssumption DEF BInv, Room, Selected
  <2>2. Len(nextFrontier') + Cardinality(chosen') <= MaxChild
    BY <1>1, <1>5, <2>1
  <2>3. pc' \in Executing => nextFrontier' = nextFrontier
    BY <1>1 DEF Executing
  <2>. QED
    BY <1>1, <2>1, <2>2, <2>3 DEF BInv, Room
<1>9. Chances'
  BY <1>1, <1>3 DEF BInv, Chances, Executing
<1>10. Stopped'
  <2>1. CASE ExecutorFails \/ RuntimeFails \/ JudgeFails
    <3>1. PICK c : traj' = [traj EXCEPT ![child] = MarkedError(q, c)]
      BY <2>1 DEF ExecutorFails, RuntimeFails, JudgeFails, ChildError
    <3>2. MarkedError(q, c).status # "stopped_early"
      BY <1>2, MarkedErrorFields
    <3>. QED
      BY <1>2, <3>1, <3>2, RewrittenStopped DEF BInv
  <2>2. CASE RegisterStepRecord \/ RegisterJudgeRecord
    <3>1. PICK ref : traj' = [traj EXCEPT ![child] = Stepped(q, ref)]
                     \/ traj' = [traj EXCEPT ![child] = Judged(q, ref)]
      BY <2>2 DEF RegisterStepRecord, RegisterJudgeRecord
    <3>2. Stepped(q, ref).status = "running" /\ Judged(q, ref).status = "running"
      BY <1>2 DEF Stepped, Judged, Record
    <3>. QED
      BY <1>2, <3>1, <3>2, RewrittenStopped DEF BInv
  <2>3. CASE FinalizeChild
    <3>1. traj' = [traj EXCEPT ![child] = Marked(q, StatusAfterStep)]
      BY <2>3 DEF FinalizeChild
    <3>2. StatusAfterStep # "stopped_early"
      BY DEF StatusAfterStep
    <3>3. Marked(q, StatusAfterStep).status # "stopped_early"
      BY <1>2, <3>2, MarkedFields
    <3>. QED
      BY <1>2, <3>1, <3>3, RewrittenStopped DEF BInv
  <2>. QED
    BY <2>1, <2>2, <2>3
<1>. QED
  BY <1>6, <1>7, <1>8, <1>9, <1>10 DEF BInv

\* Every step keeps the beam.
LEMMA NextBeam == IInv /\ TInv /\ BInv /\ [Next]_vars => BInv'
<1>. SUFFICES ASSUME IInv, TInv, BInv, [Next]_vars PROVE BInv'
  OBVIOUS
<1>1. ASSUME Next PROVE BInv'
  <2>1. CASE \/ InitRootFails \/ InitRootRefused \/ ResolveInputFails \/ Crash \/ Rerun
    <3>1. Forget /\ pc' \in Ended \cup {"start"}
      BY <2>1 DEF InitRootFails, InitRootRefused, ResolveInputFails, Crash, Rerun, Raise, Ended
    <3>. QED
      BY <3>1, ForgetBeam
  <2>. QED
    BY <1>1, <2>1, QuietBeam, RootBeam, FrontierBeam, SelectBeam, RegisteredBeam,
       ContextBeam, RoundBeam, FailedForkBeam, ForkedFilesBeam, ForkedRecordBeam,
       ExecutionBeam DEF Next, Step
<1>2. CASE UNCHANGED vars
  <2>. USE <1>2 DEF vars, disk, memory, queue, family, execution
  <2>1. Current' = Current
    BY DEF Current
  <2>2. Kin' /\ OneDepth' /\ Selected' /\ Room' /\ Stopped'
    BY <2>1 DEF BInv, Kin, OneDepth, Selected, Room, Stopped
  <2>3. Chances'
    BY <2>1 DEF BInv, Chances
  <2>. QED
    BY <2>2, <2>3 DEF BInv
<1>. QED
  BY <1>1, <1>2

\* For any planner, judge, beam width, budget, faults and crashes: the loop keeps the
\* beam described above.
THEOREM BeamInvariant == Spec => []BInv
<1>1. IInv /\ TInv /\ BInv /\ [Next]_vars => BInv'
  BY NextBeam
<1>. QED
  BY InductiveInvariant, TreeInvariant, InitBeam, <1>1, PTL DEF Spec

\* For any planner, judge, beam width, budget, faults and crashes: no parent is dropped
\* as a whole, at most max_child_trajectories are spawned in a round and planned in the
\* next, and a parent is stopped early only if all its forks failed
\* (_select_frontier_candidates, _finalize_unselected_parent).
THEOREM NoParentIsDropped == Spec => []BeamKeepsEveryParent
<1>1. IInv /\ TInv /\ BInv => BeamKeepsEveryParent
  <2>. SUFFICES ASSUME IInv, TInv, BInv PROVE BeamKeepsEveryParent
    OBVIOUS
  <2>1. /\ Len(nextFrontier) \in Nat /\ Cardinality(chosen) \in Nat
        /\ Len(frontier) + Len(contexts) <= MaxChild
        /\ Len(nextFrontier) + Cardinality(chosen) <= MaxChild /\ MaxChild \in Nat
    BY FS_CardinalityType, SelectionAssumption DEF BInv, Room, Selected, IInv, TypeOK
  <2>2. Len(nextFrontier) <= MaxChild /\ Cardinality(chosen) <= MaxChild
    BY <2>1
  <2>3. pc = "record" /\ Current.sugg # <<>> => OrdersOf(Current.id) # {}
    <3>. SUFFICES ASSUME pc = "record", Current.sugg # <<>> PROVE OrdersOf(Current.id) # {}
      OBVIOUS
    <3>1. contexts # <<>>
      BY DEF IInv, Places, Dispatching
    <3>2. 1 \in DOMAIN contexts /\ Current = contexts[1]
      BY <3>1, CurrentIsFirst
    <3>3. Chance(Current.id, chosen)
      BY <3>2 DEF BInv, Chances
    <3>. QED
      BY <3>3, ChanceOrders
  <2>4. \A t \in DOMAIN traj : traj[t].status = "stopped_early" =>
           traj[t].err = "child_init_error" /\ ~HasChild(t)
    BY DEF BInv, Stopped, Branching, HasChild
  <2>. QED
    BY <2>1, <2>2, <2>3, <2>4 DEF BeamKeepsEveryParent
<1>. QED
  BY InductiveInvariant, TreeInvariant, BeamInvariant, <1>1, PTL
-----------------------------------------------------------------------------
(* The ranking. *)

\* The last judge record of t is that of its own last step; the root has none.
Own(t, T) ==
    IF t = Root THEN T[t].judged = {}
    ELSE T[t].judged # {} /\ T[t].lastJudged = <<t, Len(t)>>

\* What is to be planned is ranked by its own step, and so is what was planned.
Ranked ==
    /\ \A i \in DOMAIN frontier : Own(frontier[i], traj)
    /\ \A i \in DOMAIN nextFrontier : Own(nextFrontier[i], traj)
    /\ RankedByOwnStep
    /\ pc = "finalize" => Own(child, traj)

\* Nothing is added to what is held, and neither its records nor its scores change.
LEMMA RankedKept ==
    ASSUME Ranked, pc' # "finalize",
           \A i \in DOMAIN frontier' : \E j \in DOMAIN frontier :
              frontier'[i] = frontier[j] /\ traj'[frontier[j]] = traj[frontier[j]],
           \A i \in DOMAIN nextFrontier' : \E j \in DOMAIN nextFrontier :
              nextFrontier'[i] = nextFrontier[j] /\ traj'[nextFrontier[j]] = traj[nextFrontier[j]],
           \A i \in DOMAIN contexts' : \E j \in DOMAIN contexts :
              /\ contexts'[i] = contexts[j]
              /\ dir'[contexts[j].id].judges = dir[contexts[j].id].judges
    PROVE  Ranked'
<1>1. \A i \in DOMAIN frontier' : Own(frontier'[i], traj')
  BY DEF Ranked, Own
<1>2. \A i \in DOMAIN nextFrontier' : Own(nextFrontier'[i], traj')
  BY DEF Ranked, Own
<1>3. RankedByOwnStep'
  BY DEF Ranked, RankedByOwnStep
<1>. QED
  BY <1>1, <1>2, <1>3 DEF Ranked

\* Steps that change no record of what is held: a run starts or ends, files are
\* written, or what was kept becomes the next frontier.
LEMMA QuietRanks ==
    ASSUME IInv, TInv, Ranked,
           \/ Forget /\ pc' \in Ended \cup {"start"}
           \/ InitRootFiles \/ SelectFrontier \/ Finish \/ SavePlannerOutput
           \/ AppendFinalAnswer \/ StartNextRound \/ SpawnFiles \/ RunExecutor \/ RunRuntime
           \/ AppendStepMessages \/ SaveJudgeRecord
    PROVE  Ranked'
<1>. USE DEF disk, queue, family, execution
<1>1. /\ traj' = traj /\ pc' # "finalize"
      /\ contexts' = contexts \/ contexts' = <<>>
      /\ \/ frontier' = frontier \/ frontier' = <<>>
         \/ frontier' = nextFrontier /\ nextFrontier' = <<>>
      /\ nextFrontier' = nextFrontier \/ nextFrontier' = <<>>
  BY DEF Forget, Ended, InitRootFiles, SelectFrontier, Finish, SavePlannerOutput,
     AppendFinalAnswer, StartNextRound, SpawnFiles, RunExecutor, RunRuntime,
     AppendStepMessages, SaveJudgeRecord
<1>2. ASSUME NEW i \in DOMAIN contexts
      PROVE  dir'[contexts[i].id].judges = dir[contexts[i].id].judges
  <2>. DEFINE t == contexts[i].id
  <2>1. t \in DOMAIN dir
    BY DEF IInv, Places
  <2>2. CASE UNCHANGED dir
    BY <2>2
  <2>3. CASE InitRootFiles
    BY <2>1, <2>3 DEF InitRootFiles, Put
  <2>4. CASE SpawnFiles
    BY <2>1, <2>4 DEF SpawnFiles, Spawnable, Put
  <2>5. CASE SavePlannerOutput \/ AppendFinalAnswer \/ RunRuntime \/ AppendStepMessages
    <3>1. IsDirectory(dir[t])
      BY <2>1 DEF IInv, TypeOK
    <3>. QED
      BY <2>1, <2>5, <3>1 DEF SavePlannerOutput, AppendFinalAnswer, RunRuntime,
         AppendStepMessages, IsDirectory
  <2>6. CASE SaveJudgeRecord
    <3>1. t # child
      BY <2>6 DEF SaveJudgeRecord, TInv, Apart, Executing
    <3>. QED
      BY <2>1, <2>6, <3>1 DEF SaveJudgeRecord
  <2>. QED
    BY <2>2, <2>3, <2>4, <2>5, <2>6 DEF Forget, SelectFrontier, Finish, StartNextRound,
       RunExecutor
<1>3. CASE StartNextRound
  <2>1. /\ frontier' = nextFrontier /\ nextFrontier' = <<>> /\ contexts' = <<>>
    BY <1>3 DEF StartNextRound
  <2>. QED
    BY <1>1, <2>1 DEF Ranked, RankedByOwnStep
<1>4. CASE ~StartNextRound
  <2>1. frontier' = frontier \/ frontier' = <<>>
    BY <1>4 DEF Forget, InitRootFiles, SelectFrontier, Finish, SavePlannerOutput,
       AppendFinalAnswer, SpawnFiles, RunExecutor, RunRuntime, AppendStepMessages,
       SaveJudgeRecord
  <2>. QED
    BY <1>1, <1>2, <2>1, RankedKept
<1>. QED
  BY <1>3, <1>4

\* The first frontier: the root was never judged.
LEMMA RootRanks ==
    ASSUME IInv, TInv, Ranked, InitRootRecord
    PROVE  Ranked'
<1>1. /\ pc = "root" /\ pc' = "plan" /\ frontier' = <<Root>>
      /\ traj' = Put(traj, Root, NewRecord(budget0))
      /\ UNCHANGED <<contexts, nextFrontier>>
  BY DEF InitRootRecord
<1>2. DOMAIN traj = {}
  BY <1>1 DEF TInv, Rooted
<1>3. contexts = <<>> /\ nextFrontier = <<>>
  BY <1>2 DEF IInv, TypeOK, Places
<1>4. Own(Root, traj')
  BY <1>1 DEF Own, Put, NewRecord
<1>. QED
  BY <1>1, <1>3, <1>4 DEF Ranked, RankedByOwnStep

\* t is not in q; of the records only t's changes.
Absent(t, q) == \A i \in DOMAIN q : q[i] # t
SameBut(t, T, U) == \A u \in DOMAIN T : u # t => U[u] = T[u]

\* The record of t alone changes, and t is no longer held, or it is a context.
LEMMA RewrittenRanks ==
    ASSUME IInv, TInv, Ranked, UNCHANGED dir, pc' # "finalize", NEW t, SameBut(t, traj, traj'),
           frontier' = frontier \/ (frontier' = Tail(frontier) /\ frontier # <<>>),
           contexts' = contexts \/ (contexts' = Tail(contexts) /\ contexts # <<>>),
           nextFrontier' = nextFrontier,
           Absent(t, frontier'), Absent(t, nextFrontier)
    PROVE  Ranked'
<1>1. frontier \in Seq(TrajectoryId) /\ contexts \in Seq(Context)
  BY DEF IInv, TypeOK
<1>2. \A i \in DOMAIN frontier' : \E j \in DOMAIN frontier : frontier'[i] = frontier[j]
  BY <1>1, TailElements
<1>3. \A i \in DOMAIN contexts' : \E j \in DOMAIN contexts : contexts'[i] = contexts[j]
  BY <1>1, TailElements
<1>4. \A u \in DOMAIN traj : u # t => traj'[u] = traj[u]
  BY DEF SameBut
<1>5. /\ \A i \in DOMAIN frontier : frontier[i] \in DOMAIN traj
      /\ \A i \in DOMAIN nextFrontier : nextFrontier[i] \in DOMAIN traj
  BY DEF IInv, Places
<1>6. \A i \in DOMAIN frontier' : \E j \in DOMAIN frontier :
         frontier'[i] = frontier[j] /\ traj'[frontier[j]] = traj[frontier[j]]
  <2>. SUFFICES ASSUME NEW i \in DOMAIN frontier'
                PROVE  \E j \in DOMAIN frontier :
                          frontier'[i] = frontier[j] /\ traj'[frontier[j]] = traj[frontier[j]]
    OBVIOUS
  <2>1. PICK j \in DOMAIN frontier : frontier'[i] = frontier[j]
    BY <1>2
  <2>2. frontier[j] # t
    BY <2>1 DEF Absent
  <2>. QED
    BY <1>4, <1>5, <2>1, <2>2
<1>7. \A i \in DOMAIN nextFrontier' : \E j \in DOMAIN nextFrontier :
         nextFrontier'[i] = nextFrontier[j] /\ traj'[nextFrontier[j]] = traj[nextFrontier[j]]
  BY <1>4, <1>5 DEF Absent
<1>. QED
  BY <1>3, <1>6, <1>7, RankedKept

\* Going through the frontier: whoever leaves it is ranked.
LEMMA FrontierRanks ==
    ASSUME IInv, TInv, Ranked, SkipTrajectory \/ PlannerFails \/ PlanTrajectory
    PROVE  Ranked'
<1>. USE DEF disk, family, execution
<1>. DEFINE t == frontier[1]
<1>1. /\ pc = "plan" /\ pc' = "plan" /\ frontier # <<>> /\ frontier' = Tail(frontier)
      /\ UNCHANGED <<dir, nextFrontier>>
  BY DEF SkipTrajectory, PlannerFails, PlanTrajectory, Plannable
<1>2. /\ frontier \in Seq(TrajectoryId) /\ 1 \in DOMAIN frontier /\ contexts \in Seq(Context)
      /\ t \in DOMAIN traj /\ traj[t] \in Record
  BY <1>1, FrontierHead DEF IInv, TypeOK
<1>3. \A i \in DOMAIN frontier' :
         i + 1 \in DOMAIN frontier /\ i + 1 # 1 /\ frontier'[i] = frontier[i + 1]
  BY <1>1, <1>2, TailElements
<1>4. \A i \in DOMAIN frontier' : frontier'[i] # t
  BY <1>2, <1>3 DEF TInv, Apart
<1>5. DOMAIN nextFrontier = {}
  BY <1>1 DEF TInv, Apart
<1>6. CASE SkipTrajectory \/ PlannerFails
  <2>1. contexts' = contexts
    BY <1>6 DEF SkipTrajectory, PlannerFails
  <2>2. SameBut(t, traj, traj')
    BY <1>6 DEF SkipTrajectory, PlannerFails, SameBut
  <2>3. Absent(t, frontier') /\ Absent(t, nextFrontier)
    BY <1>4, <1>5 DEF Absent
  <2>. QED
    BY <1>1, <2>1, <2>2, <2>3, RewrittenRanks
<1>7. CASE PlanTrajectory
  <2>1. traj' = traj
    BY <1>7 DEF PlanTrajectory
  <2>2. PICK c : contexts' = Append(contexts, c) /\ c.id = t /\ c.score = FrontierScore(t)
    <3>1. PICK sugg \in SuggestionLists :
             contexts' = Append(contexts, [id |-> t, sugg |-> sugg, score |-> FrontierScore(t),
                                           round |-> NextRound(traj[t])])
      BY <1>7 DEF PlanTrajectory
    <3>. QED
      BY <3>1
  <2>3. \A i \in DOMAIN contexts' :
           \/ i \in DOMAIN contexts /\ contexts'[i] = contexts[i]
           \/ contexts'[i] = c
    BY <1>2, <2>2, AppendElements
  <2>4. c.score = IF c.id = Root THEN 0 ELSE dir[c.id].judges[Len(c.id)]
    <3>1. Own(t, traj)
      BY <1>2 DEF Ranked
    <3>2. t # Root => traj[t].lastJudged[1] = t /\ traj[t].lastJudged[2] = Len(t)
      BY <3>1 DEF Own
    <3>. QED
      BY <2>2, <3>1, <3>2 DEF FrontierScore, ScoreAt, Own
  <2>5. RankedByOwnStep'
    BY <1>1, <2>3, <2>4 DEF Ranked, RankedByOwnStep
  <2>6. \A i \in DOMAIN frontier' : Own(frontier'[i], traj')
    BY <1>3, <2>1 DEF Ranked
  <2>. QED
    BY <1>1, <1>5, <2>5, <2>6 DEF Ranked
<1>. QED
  BY <1>6, <1>7

\* Dispatching changes the record of the current trajectory, which is ranked already.
LEMMA ContextRanks ==
    ASSUME IInv, TInv, Ranked,
           RegisterPlannerRound \/ MarkAnswered \/ CloseParent \/ SpawnFails
    PROVE  Ranked'
<1>. USE DEF queue, family, execution
<1>. DEFINE t == Current.id
<1>1. /\ pc \in Dispatching /\ pc # "plan" /\ pc' # "finalize"
      /\ contexts' = contexts \/ contexts' = Tail(contexts)
      /\ UNCHANGED <<dir, frontier, nextFrontier>>
  BY DEF RegisterPlannerRound, MarkAnswered, CloseParent, SpawnFails, MoreToSpawn,
     Dispatching, Spawning
<1>2. contexts # <<>>
  BY <1>1 DEF IInv, Places
<1>3. 1 \in DOMAIN contexts /\ Current = contexts[1]
  BY <1>2, CurrentIsFirst
<1>4. SameBut(t, traj, traj')
  BY DEF RegisterPlannerRound, MarkAnswered, CloseParent, FinalizeUnselected, SpawnFails,
     SameBut
<1>5. Absent(t, frontier') /\ Absent(t, nextFrontier)
  BY <1>1, <1>3 DEF TInv, Apart, Absent
<1>. QED
  BY <1>1, <1>2, <1>4, <1>5, RewrittenRanks

\* A new child is not held yet.
LEMMA ForkedRanks ==
    ASSUME IInv, TInv, Ranked, SpawnRecord
    PROVE  Ranked'
<1>. USE DEF execution
<1>1. /\ pc = "child" /\ pc' = "execute" /\ traj' = Put(traj, child, ForkedRecord(parent))
      /\ UNCHANGED <<dir, frontier, contexts, nextFrontier>>
  BY DEF SpawnRecord
<1>2. child \notin DOMAIN traj
  BY <1>1 DEF TInv, Forking
<1>3. \A u \in DOMAIN traj : traj'[u] = traj[u]
  BY <1>1, <1>2 DEF Put
<1>. QED
  BY <1>1, <1>3, RankedKept DEF IInv, Places

\* A child gets a judge record of its own last step before it is kept.
LEMMA ExecutionRanks ==
    ASSUME IInv, TInv, DInv, BInv, Ranked,
           \/ ExecutorFails \/ RuntimeFails \/ JudgeFails
           \/ RegisterStepRecord \/ RegisterJudgeRecord \/ FinalizeChild
    PROVE  Ranked'
<1>. USE DEF queue, family, execution
<1>. DEFINE q == traj[child]
<1>1. /\ pc \in Executing /\ pc # "plan" /\ UNCHANGED <<dir, frontier, contexts>>
  BY DEF Executing, ExecutorFails, RuntimeFails, JudgeFails, RegisterStepRecord,
     RegisterJudgeRecord, FinalizeChild, ChildError
<1>2. child \in DOMAIN traj /\ q \in Record
  BY <1>1 DEF IInv, TypeOK, Places
<1>3. DOMAIN frontier = {} /\ \A i \in DOMAIN nextFrontier : nextFrontier[i] # child
  BY <1>1 DEF TInv, Apart
<1>4. CASE ExecutorFails \/ RuntimeFails \/ JudgeFails \/ RegisterStepRecord
  <2>1. /\ pc' # "finalize" /\ nextFrontier' = nextFrontier
    BY <1>4 DEF ExecutorFails, RuntimeFails, JudgeFails, ChildError, LeaveChild,
       RegisterStepRecord
  <2>2. SameBut(child, traj, traj')
    BY <1>4 DEF ExecutorFails, RuntimeFails, JudgeFails, ChildError, RegisterStepRecord,
       SameBut
  <2>3. Absent(child, frontier') /\ Absent(child, nextFrontier)
    BY <1>1, <1>3 DEF Absent
  <2>. QED
    BY <1>1, <2>1, <2>2, <2>3, RewrittenRanks
<1>5. \A u \in DOMAIN traj : u # child => (\A r : [traj EXCEPT ![child] = r][u] = traj[u])
  OBVIOUS
<1>6. \A i \in DOMAIN nextFrontier : nextFrontier[i] \in DOMAIN traj
  BY DEF IInv, Places
<1>7. CASE RegisterJudgeRecord
  <2>1. /\ pc = "judged" /\ child' = child /\ nextFrontier' = nextFrontier
        /\ traj' = [traj EXCEPT ![child] = Judged(q, <<child, q.step>>)]
    BY <1>7 DEF RegisterJudgeRecord
  <2>2. q.step = Len(child)
    BY <2>1 DEF DInv, Growing, AfterStep
  <2>3. child # Root
    <3>1. Current.id \in TrajectoryId
      <4>1. contexts # <<>>
        BY <1>1 DEF IInv, Places, Dispatching, Spawning
      <4>. QED
        BY <4>1, CurrentIsFirst
    <3>. QED
      BY <1>1, <3>1, ChildName DEF BInv, Kin
  <2>4. /\ Judged(q, <<child, q.step>>).judged # {}
        /\ Judged(q, <<child, q.step>>).lastJudged = <<child, q.step>>
    BY <1>2 DEF Judged, Record
  <2>5. Own(child, traj')
    BY <1>2, <2>1, <2>2, <2>3, <2>4 DEF Own
  <2>6. \A i \in DOMAIN nextFrontier : traj'[nextFrontier[i]] = traj[nextFrontier[i]]
    BY <1>3, <1>5, <1>6, <2>1
  <2>7. \A i \in DOMAIN nextFrontier' : Own(nextFrontier'[i], traj')
    BY <2>1, <2>6 DEF Ranked, Own
  <2>8. RankedByOwnStep'
    BY <1>1 DEF Ranked, RankedByOwnStep
  <2>. QED
    BY <1>1, <1>3, <2>1, <2>5, <2>7, <2>8 DEF Ranked
<1>8. CASE FinalizeChild
  <2>1. /\ pc = "finalize" /\ pc' = "spawn"
        /\ traj' = [traj EXCEPT ![child] = Marked(q, StatusAfterStep)]
        /\ nextFrontier' = nextFrontier \/ nextFrontier' = Append(nextFrontier, child)
    BY <1>8 DEF FinalizeChild, LeaveChild
  <2>2. /\ Marked(q, StatusAfterStep).judged = q.judged
        /\ Marked(q, StatusAfterStep).lastJudged = q.lastJudged
    BY <1>2 DEF Marked, Record
  <2>3. Own(child, traj')
    BY <1>2, <2>1, <2>2 DEF Ranked, Own
  <2>4. \A i \in DOMAIN nextFrontier : traj'[nextFrontier[i]] = traj[nextFrontier[i]]
    BY <1>3, <1>5, <1>6, <2>1
  <2>5. \A i \in DOMAIN nextFrontier : Own(nextFrontier[i], traj')
    BY <2>4 DEF Ranked, Own
  <2>6. nextFrontier \in Seq(TrajectoryId)
    BY DEF IInv, TypeOK
  <2>7. \A i \in DOMAIN nextFrontier' :
           \/ i \in DOMAIN nextFrontier /\ nextFrontier'[i] = nextFrontier[i]
           \/ nextFrontier'[i] = child
    BY <2>1, <2>6, AppendElements
  <2>8. RankedByOwnStep'
    BY <1>1 DEF Ranked, RankedByOwnStep
  <2>. QED
    BY <1>1, <1>3, <2>1, <2>3, <2>5, <2>7, <2>8 DEF Ranked
<1>. QED
  BY <1>4, <1>7, <1>8

\* Every step keeps the ranking.
LEMMA NextRanks == IInv /\ TInv /\ DInv /\ BInv /\ Ranked /\ [Next]_vars => Ranked'
<1>. SUFFICES ASSUME IInv, TInv, DInv, BInv, Ranked, [Next]_vars PROVE Ranked'
  OBVIOUS
<1>1. ASSUME Next PROVE Ranked'
  <2>1. CASE \/ InitRootFails \/ InitRootRefused \/ ResolveInputFails \/ Crash \/ Rerun
    <3>1. Forget /\ pc' \in Ended \cup {"start"}
      BY <2>1 DEF InitRootFails, InitRootRefused, ResolveInputFails, Crash, Rerun, Raise, Ended
    <3>. QED
      BY <3>1, QuietRanks
  <2>. QED
    BY <1>1, <2>1, QuietRanks, RootRanks, FrontierRanks, ContextRanks, ForkedRanks,
       ExecutionRanks DEF Next, Step
<1>2. CASE UNCHANGED vars
  BY <1>2 DEF vars, disk, memory, queue, family, execution, Ranked, RankedByOwnStep
<1>. QED
  BY <1>1, <1>2

\* For any scores, failures and crashes: a parent competes with the judge's score of
\* its own last step, never with one it inherited (_load_parent_frontier_score).
THEOREM ParentsRankedByOwnStep == Spec => []RankedByOwnStep
<1>1. Init => Ranked
  BY DEF Init, Idle, Ranked, RankedByOwnStep
<1>2. IInv /\ TInv /\ DInv /\ BInv /\ Ranked /\ [Next]_vars => Ranked'
  BY NextRanks
<1>3. Ranked => RankedByOwnStep
  BY DEF Ranked
<1>. QED
  BY InductiveInvariant, TreeInvariant, DepthInvariant, BeamInvariant, <1>1, <1>2, <1>3,
     PTL DEF Spec
-----------------------------------------------------------------------------
(* The store that a finished run leaves. *)

\* The process does not hold what the store records: before a run, or after one
\* that did not return.
Away == {"start", "raised", "crashed"}

\* What the loop will still come to.
Remembered ==
    {frontier[i] : i \in DOMAIN frontier} \cup {contexts[i].id : i \in DOMAIN contexts}
      \cup {nextFrontier[i] : i \in DOMAIN nextFrontier}
      \cup (IF pc \in Executing THEN {child} ELSE {})

\* A directory without its record, and a parent that is not closed yet.
Unrecorded == IF pc = "root" THEN {Root} ELSE IF pc = "child" THEN {child} ELSE {}
Forked == IF pc \in Spawning THEN {Current.id} ELSE {}

\* Of the records T: who is running is among the remembered, and who has children and is
\* not being forked is expanded, nobody else.
Settling(T, remembered, forked) ==
    /\ \A t \in DOMAIN T : T[t].status = "running" => t \in remembered
    /\ \A t \in DOMAIN T :
          T[t].status = "expanded" <=> Branching(t, T) /\ t \notin forked

\* What a step preserves, given the other invariants.
SInv ==
    /\ DOMAIN dir # {} => Root \in DOMAIN dir
    /\ pc = "done" => /\ contexts = <<>> /\ nextFrontier = <<>>
                      /\ \A t \in DOMAIN traj : ~traj[t].pending
    /\ pc \notin Away =>
          /\ DOMAIN dir = DOMAIN traj \cup Unrecorded
          /\ Settling(traj, Remembered, Forked)

\* Nothing is claimed of an interrupted run.
LEMMA ForgetSettles ==
    ASSUME SInv, Forget, pc' \in Away
    PROVE  SInv'
BY DEF SInv, Forget, disk, Away

\* The first directory and its record.
LEMMA RootSettles ==
    ASSUME IInv, TInv, SInv, InitRootFiles \/ InitRootRecord
    PROVE  SInv'
<1>1. CASE InitRootFiles
  <2>1. /\ pc = "start" /\ pc' = "root" /\ Root \notin DOMAIN dir /\ traj' = traj
        /\ dir' = Put(dir, Root, EmptyDir)
    BY <1>1 DEF InitRootFiles
  <2>2. DOMAIN dir = {} /\ DOMAIN traj = {}
    BY <2>1 DEF SInv, IInv, Places
  <2>3. DOMAIN dir' = {Root} /\ DOMAIN traj' = {}
    BY <2>1, <2>2 DEF Put
  <2>4. Settling(traj', Remembered', Forked')
    BY <2>3 DEF Settling
  <2>. QED
    BY <2>1, <2>3, <2>4 DEF SInv, Unrecorded
<1>2. CASE InitRootRecord
  <2>1. /\ pc = "root" /\ pc' = "plan" /\ frontier' = <<Root>> /\ dir' = dir
        /\ traj' = Put(traj, Root, NewRecord(budget0))
    BY <1>2 DEF InitRootRecord
  <2>2. DOMAIN traj = {}
    BY <2>1 DEF TInv, Rooted
  <2>3. DOMAIN traj' = {Root} /\ traj'[Root].status = "running"
    BY <2>1, <2>2 DEF Put, NewRecord
  <2>4. DOMAIN dir' = {Root}
    BY <2>1, <2>2 DEF SInv, Away, Unrecorded
  <2>5. ~Branching(Root, traj')
    BY <2>3 DEF Branching, Root
  <2>6. Root \in Remembered'
    BY <2>1 DEF Remembered
  <2>7. Settling(traj', Remembered', Forked')
    BY <2>3, <2>5, <2>6 DEF Settling
  <2>. QED
    BY <2>1, <2>3, <2>4, <2>7 DEF SInv, Unrecorded
<1>. QED
  BY <1>1, <1>2

\* The records stay, and so does all that is remembered.
LEMMA QuietSettles ==
    ASSUME SInv, pc \notin Away, pc' \notin Away \cup {"done"}, traj' = traj,
           Remembered \subseteq Remembered', Forked' = Forked,
           DOMAIN dir' = DOMAIN traj' \cup Unrecorded',
           DOMAIN dir' = DOMAIN dir \/ Root \in DOMAIN dir'
    PROVE  SInv'
<1>1. Settling(traj', Remembered', Forked')
  BY DEF SInv, Settling
<1>. QED
  BY <1>1 DEF SInv

\* One record changes, and with it what is still to be done with it.
LEMMA RewrittenSettles ==
    ASSUME SInv, pc \notin Away \cup {"root", "child"},
           pc' \notin Away \cup {"root", "child", "done"}, dir' = dir,
           NEW t \in DOMAIN traj, NEW r,
           traj' = [traj EXCEPT ![t] = r] \/ (traj' = traj /\ r = traj[t]),
           Remembered \ {t} \subseteq Remembered', Forked \ {t} = Forked' \ {t},
           r.status = "running" => t \in Remembered',
           r.status = "expanded" <=> Branching(t, traj) /\ t \notin Forked'
    PROVE  SInv'
<1>1. /\ DOMAIN traj' = DOMAIN traj /\ traj'[t] = r
      /\ \A u \in DOMAIN traj : u # t => traj'[u] = traj[u]
  OBVIOUS
<1>2. \A u : Branching(u, traj') <=> Branching(u, traj)
  BY <1>1 DEF Branching
<1>3. Settling(traj, Remembered, Forked)
  BY DEF SInv
<1>4. \A u \in DOMAIN traj' : traj'[u].status = "running" => u \in Remembered'
  BY <1>1, <1>3 DEF Settling
<1>5. \A u \in DOMAIN traj' :
         traj'[u].status = "expanded" <=> Branching(u, traj') /\ u \notin Forked'
  BY <1>1, <1>2, <1>3 DEF Settling
<1>6. DOMAIN dir' = DOMAIN traj' \cup Unrecorded'
  BY <1>1 DEF SInv, Unrecorded
<1>. QED
  BY <1>4, <1>5, <1>6 DEF SInv, Settling

\* Planning: all but what was skipped goes on, and nothing is pending when a run returns.
LEMMA PlanningSettles ==
    ASSUME IInv, TInv, DInv, SInv,
           SkipTrajectory \/ PlannerFails \/ PlanTrajectory \/ SelectFrontier \/ Finish
    PROVE  SInv'
<1>. USE DEF disk, queue, family, execution
<1>1. pc = "plan" /\ dir' = dir /\ nextFrontier = <<>> /\ nextFrontier' = nextFrontier
  BY DEF SkipTrajectory, PlannerFails, PlanTrajectory, Plannable, SelectFrontier, Finish,
     TInv, Apart
<1>2. Forked = {}
  BY <1>1 DEF Forked, Spawning, Executing
<1>3. CASE SkipTrajectory \/ PlannerFails
  <2>. DEFINE t == frontier[1]
  <2>1. /\ pc' = "plan" /\ frontier # <<>> /\ frontier' = Tail(frontier) /\ contexts' = contexts
    BY <1>3 DEF SkipTrajectory, PlannerFails, Plannable
  <2>2. /\ frontier \in Seq(TrajectoryId) /\ 1 \in DOMAIN frontier
        /\ t \in DOMAIN traj /\ traj[t] \in Record
    BY <2>1, FrontierHead DEF IInv, TypeOK
  <2>3. RunningLeaf(t, traj)
    BY <2>2 DEF TInv, Held
  <2>4. PICK r : traj' = [traj EXCEPT ![t] = r] /\ r.status \in {"max_step_reached", "error"}
    BY <1>3, <2>2, <2>3, MarkedFields, MarkedErrorFields DEF SkipTrajectory, PlannerFails,
       RunningLeaf
  <2>5. Forked' = {}
    BY <2>1 DEF Forked, Spawning, Executing
  <2>6. \A i \in DOMAIN frontier :
         i # 1 => i - 1 \in DOMAIN frontier' /\ frontier'[i - 1] = frontier[i]
    BY <2>1, <2>2, TailIndices
  <2>7. Remembered \ {t} \subseteq Remembered'
    BY <1>1, <2>1, <2>6 DEF Remembered, Executing
  <2>. HIDE DEF t
  <2>. QED
    BY <1>1, <1>2, <2>1, <2>2, <2>3, <2>4, <2>5, <2>7, RewrittenSettles DEF RunningLeaf, Away
<1>4. CASE PlanTrajectory
  <2>1. /\ pc' = "plan" /\ frontier # <<>> /\ frontier' = Tail(frontier) /\ traj' = traj
    BY <1>4 DEF PlanTrajectory, Plannable
  <2>2. PICK c : contexts' = Append(contexts, c) /\ c.id = frontier[1]
    <3>1. PICK sugg \in SuggestionLists :
             contexts' = Append(contexts, [id |-> frontier[1], sugg |-> sugg,
                                           score |-> FrontierScore(frontier[1]),
                                           round |-> NextRound(traj[frontier[1]])])
      BY <1>4 DEF PlanTrajectory
    <3>. QED
      BY <3>1
  <2>3. frontier \in Seq(TrajectoryId) /\ contexts \in Seq(Context)
    BY DEF IInv, TypeOK
  <2>4. \A i \in DOMAIN frontier :
         i # 1 => i - 1 \in DOMAIN frontier' /\ frontier'[i - 1] = frontier[i]
    BY <2>1, <2>3, TailIndices
  <2>5. /\ \A i \in DOMAIN contexts : i \in DOMAIN contexts' /\ contexts'[i] = contexts[i]
        /\ Len(contexts) + 1 \in DOMAIN contexts' /\ contexts'[Len(contexts) + 1] = c
    BY <2>2, <2>3
  <2>6. Remembered \subseteq Remembered'
    <3>. SUFFICES ASSUME NEW u \in Remembered
                  PROVE  u \in Remembered'
      OBVIOUS
    <3>1. \/ \E i \in DOMAIN frontier : u = frontier[i]
          \/ \E i \in DOMAIN contexts : u = contexts[i].id
      BY <1>1 DEF Remembered, Executing
    <3>2. CASE u = frontier[1]
      BY <2>2, <2>5, <3>2 DEF Remembered
    <3>3. ASSUME NEW i \in DOMAIN frontier, u = frontier[i], i # 1
          PROVE  u \in Remembered'
      BY <2>4, <3>3 DEF Remembered
    <3>4. ASSUME NEW i \in DOMAIN contexts, u = contexts[i].id
          PROVE  u \in Remembered'
      BY <2>5, <3>4 DEF Remembered
    <3>. QED
      BY <3>1, <3>2, <3>3, <3>4
  <2>7. Forked' = Forked /\ Unrecorded' = Unrecorded
    BY <1>1, <1>2, <2>1 DEF Forked, Unrecorded, Spawning, Executing
  <2>8. DOMAIN dir' = DOMAIN traj' \cup Unrecorded'
    BY <1>1, <2>1, <2>7 DEF SInv, Away
  <2>. QED
    BY <1>1, <2>1, <2>6, <2>7, <2>8, QuietSettles DEF Away
<1>5. CASE SelectFrontier
  <2>1. pc' = "register" /\ traj' = traj /\ UNCHANGED <<frontier, contexts>>
    BY <1>5 DEF SelectFrontier
  <2>2. Forked' = Forked /\ Unrecorded' = Unrecorded
    BY <1>1, <1>2, <2>1 DEF Forked, Unrecorded, Spawning, Executing
  <2>3. Remembered \subseteq Remembered'
    BY <1>1, <2>1 DEF Remembered, Executing
  <2>4. DOMAIN dir' = DOMAIN traj' \cup Unrecorded'
    BY <1>1, <2>1, <2>2 DEF SInv, Away
  <2>. QED
    BY <1>1, <2>1, <2>2, <2>3, <2>4, QuietSettles DEF Away
<1>6. CASE Finish
  <2>1. /\ frontier = <<>> /\ contexts = <<>> /\ pc' = "done"
        /\ UNCHANGED <<traj, frontier, contexts>>
    BY <1>6 DEF Finish
  <2>2. \A t \in DOMAIN traj : ~traj[t].pending
    BY <1>1, NonePending DEF DInv, Ended, Unregistered
  <2>3. Forked' = {} /\ Unrecorded = {} /\ Unrecorded' = {}
    BY <1>1, <2>1 DEF Forked, Unrecorded, Spawning, Executing
  <2>4. Remembered = {} /\ Remembered' = {}
    BY <1>1, <2>1 DEF Remembered, Executing
  <2>5. Settling(traj', Remembered', Forked')
    BY <1>1, <1>2, <2>1, <2>3, <2>4 DEF SInv, Away
  <2>. QED
    BY <1>1, <2>1, <2>2, <2>3, <2>5 DEF SInv, Away
<1>. QED
  BY <1>3, <1>4, <1>5, <1>6

\* Between two rounds, and the writes that leave every record as it is.
LEMMA WritesSettle ==
    ASSUME IInv, TInv, SInv,
           \/ StartNextRound \/ SavePlannerOutput \/ AppendFinalAnswer \/ RunExecutor
           \/ RunRuntime \/ AppendStepMessages \/ SaveJudgeRecord
    PROVE  SInv'
<1>. USE DEF disk, queue, family, execution
<1>1. /\ traj' = traj /\ DOMAIN dir' = DOMAIN dir
      /\ pc \notin Away \cup {"root", "child"} /\ pc' \notin Away \cup {"root", "child", "done"}
      /\ contexts' = contexts /\ child' = child
      /\ pc' \in Executing <=> pc \in Executing
      /\ pc' \in Spawning <=> pc \in Spawning
  BY DEF StartNextRound, SavePlannerOutput, AppendFinalAnswer, RunExecutor, RunRuntime,
     AppendStepMessages, SaveJudgeRecord, Away, Executing, Spawning
<1>2. Current' = Current /\ Forked' = Forked
  BY <1>1 DEF Forked, Current
<1>3. Remembered \subseteq Remembered'
  <2>1. CASE StartNextRound
    <3>1. DOMAIN frontier = {} /\ frontier' = nextFrontier
      BY <2>1 DEF StartNextRound, TInv, Apart
    <3>. QED
      BY <1>1, <3>1 DEF Remembered
  <2>2. CASE ~StartNextRound
    <3>1. UNCHANGED <<frontier, nextFrontier>>
      BY <2>2 DEF SavePlannerOutput, AppendFinalAnswer, RunExecutor, RunRuntime,
         AppendStepMessages, SaveJudgeRecord
    <3>. QED
      BY <1>1, <3>1 DEF Remembered
  <2>. QED
    BY <2>1, <2>2
<1>4. DOMAIN dir' = DOMAIN traj' \cup Unrecorded'
  BY <1>1 DEF SInv, Unrecorded
<1>. QED
  BY <1>1, <1>2, <1>3, <1>4, QuietSettles

\* Dispatching a trajectory whose planner answered, or closing a parent: it is closed
\* for good; a registered round and a failed fork leave it to the loop.
LEMMA ContextSettles ==
    ASSUME IInv, TInv, BInv, SInv,
           RegisterPlannerRound \/ MarkAnswered \/ SpawnFails \/ CloseParent
    PROVE  SInv'
<1>. USE DEF disk, queue, family, execution
<1>. DEFINE t == Current.id
            q == traj[t]
<1>1. /\ pc \in {"record", "answered", "spawn"}
      /\ pc' \in {"answer", "register", "spawn"}
      /\ contexts' = contexts \/ contexts' = Tail(contexts)
      /\ UNCHANGED <<dir, frontier, nextFrontier>>
  BY DEF RegisterPlannerRound, MarkAnswered, SpawnFails, CloseParent, MoreToSpawn
<1>2. contexts # <<>>
  BY <1>1 DEF IInv, Places, Dispatching, Spawning
<1>3. /\ contexts \in Seq(Context) /\ 1 \in DOMAIN contexts /\ Current = contexts[1]
      /\ t \in DOMAIN traj /\ q \in Record
  BY <1>2, CurrentIsFirst
<1>4. Remembered \ {t} \subseteq Remembered'
  <2>1. CASE contexts' = contexts
    BY <1>1, <2>1 DEF Remembered, Executing
  <2>2. CASE contexts' = Tail(contexts)
    <3>1. \A i \in DOMAIN contexts :
             i # 1 => i - 1 \in DOMAIN contexts' /\ contexts'[i - 1] = contexts[i]
      BY <1>2, <1>3, <2>2, TailIndices
    <3>. QED
      BY <1>1, <1>3, <3>1 DEF Remembered, Executing
  <2>. QED
    BY <1>1, <2>1, <2>2
<1>5. contexts' = contexts => t \in Remembered' /\ Current' = Current
  BY <1>3 DEF Remembered, Current
<1>6. pc = "spawn" => Forked = {t}
  BY DEF Forked, Spawning
<1>7. pc # "spawn" => Forked = {} /\ ~Branching(t, traj) /\ q.status = "running"
  BY <1>1, <1>3 DEF Forked, Spawning, Executing, TInv, Held, RunningLeaf
<1>8. pc' # "spawn" => Forked' = {}
  BY <1>1 DEF Forked, Spawning, Executing
<1>9. pc' = "spawn" /\ contexts' = contexts => Forked' = {t}
  BY <1>5 DEF Forked, Spawning
<1>10. CASE RegisterPlannerRound
  <2>1. PICK r : /\ traj' = [traj EXCEPT ![t] = r] /\ r.status = "running"
                 /\ contexts' = contexts /\ pc = "record"
    <3>. DEFINE r == [q EXCEPT !.planned = Registered(@, <<t, Current.round>>),
                               !.lastRound = Current.round,
                               !.pending = FALSE,
                               !.answered = @ \/ Current.sugg = <<>>]
    <3>1. /\ traj' = [traj EXCEPT ![t] = r] /\ contexts' = contexts /\ pc = "record"
      BY <1>10 DEF RegisterPlannerRound
    <3>2. r.status = "running"
      BY <1>3, <1>7, <3>1 DEF Record
    <3>. QED
      BY <3>1, <3>2
  <2>2. Forked \ {t} = Forked' \ {t}
    BY <1>1, <1>7, <1>8, <1>9, <2>1
  <2>. HIDE DEF t
  <2>. QED
    BY <1>1, <1>3, <1>4, <1>5, <1>7, <2>1, <2>2, RewrittenSettles DEF Away
<1>11. CASE MarkAnswered
  <2>1. PICK r : traj' = [traj EXCEPT ![t] = r] /\ r.status = "answered" /\ pc = "answered"
    <3>1. traj' = [traj EXCEPT ![t] = Marked(q, "answered")] /\ pc = "answered"
      BY <1>11 DEF MarkAnswered
    <3>2. Marked(q, "answered").status = "answered"
      BY <1>3, MarkedFields
    <3>. QED
      BY <3>1, <3>2
  <2>2. pc' = "register"
    BY <1>11 DEF MarkAnswered
  <2>. HIDE DEF t
  <2>. QED
    BY <1>1, <1>3, <1>4, <1>7, <1>8, <2>1, <2>2, RewrittenSettles DEF Away
<1>12. CASE SpawnFails
  <2>1. PICK r : traj' = [traj EXCEPT ![t] = r] /\ r.status = "error"
    <3>1. traj' = [traj EXCEPT ![t] = MarkedError(q, "child_init_error")]
      BY <1>12 DEF SpawnFails
    <3>2. MarkedError(q, "child_init_error").status = "error"
      BY <1>3, MarkedErrorFields
    <3>. QED
      BY <3>1, <3>2
  <2>2. pc = "spawn" /\ pc' = "spawn" /\ contexts' = contexts
    BY <1>12 DEF SpawnFails, MoreToSpawn
  <2>. HIDE DEF t
  <2>. QED
    BY <1>1, <1>3, <1>4, <1>6, <1>9, <2>1, <2>2, RewrittenSettles DEF Away
<1>13. CASE CloseParent
  <2>1. pc = "spawn" /\ pc' = "register" /\ ~Chance(t, chosen)
    BY <1>13, ChanceOrders DEF CloseParent
  <2>2. created <=> Branching(t, traj)
    BY <2>1 DEF TInv, Forking, Spawning
  <2>3. ~created => q.status = "error"
    BY <2>1 DEF BInv, Chances
  <2>4. PICK r : /\ traj' = [traj EXCEPT ![t] = r] \/ (traj' = traj /\ r = q)
                 /\ r.status # "running"
                 /\ r.status = "expanded" <=> created
    <3>1. \A x : Marked(q, x).status = x
      BY <1>3, MarkedFields
    <3>2. CASE created
      <4>1. traj' = [traj EXCEPT ![t] = Marked(q, "expanded")]
        BY <1>13, <3>2 DEF CloseParent
      <4>. QED
        BY <3>1, <3>2, <4>1
    <3>3. CASE ~created
      <4>1. traj' = [traj EXCEPT ![t] = Marked(q, "stopped_early")] \/ traj' = traj
        BY <1>13, <3>3 DEF CloseParent, FinalizeUnselected
      <4>. QED
        BY <2>3, <3>1, <3>3, <4>1
    <3>. QED
      BY <3>2, <3>3
  <2>. HIDE DEF t
  <2>. QED
    BY <1>1, <1>3, <1>4, <1>6, <1>8, <2>1, <2>2, <2>4, RewrittenSettles DEF Away
<1>. QED
  BY <1>10, <1>11, <1>12, <1>13

\* A fork: its files first, then the record of a running leaf.
LEMMA ForkSettles ==
    ASSUME IInv, TInv, BInv, SInv, SpawnFiles \/ SpawnRecord
    PROVE  SInv'
<1>. DEFINE t == Current.id
<1>1. /\ pc \in {"spawn", "child"} /\ UNCHANGED <<frontier, contexts, nextFrontier>>
  BY DEF SpawnFiles, SpawnRecord, MoreToSpawn, queue
<1>2. contexts # <<>>
  BY <1>1 DEF IInv, Places, Dispatching, Spawning
<1>3. t \in DOMAIN traj /\ t \in TrajectoryId
  BY <1>2, CurrentIsFirst
<1>4. CASE SpawnFiles
  <2>1. /\ pc = "spawn" /\ pc' = "child" /\ traj' = traj /\ dir' = Put(dir, child', dir[t])
    BY <1>4 DEF SpawnFiles, MoreToSpawn
  <2>2. DOMAIN dir' = DOMAIN dir \cup {child'}
    BY <2>1 DEF Put
  <2>3. DOMAIN dir' = DOMAIN traj' \cup Unrecorded'
    BY <2>1, <2>2 DEF SInv, Away, Unrecorded
  <2>4. Root \in DOMAIN dir'
    BY <1>3, <2>2 DEF IInv, Places, SInv
  <2>5. Forked' = Forked
    BY <1>1, <2>1 DEF Forked, Current, Spawning
  <2>6. Remembered \subseteq Remembered'
    BY <1>1, <2>1 DEF Remembered, Executing
  <2>. QED
    BY <2>1, <2>3, <2>4, <2>5, <2>6, QuietSettles DEF Away
<1>5. CASE SpawnRecord
  <2>1. /\ pc = "child" /\ pc' = "execute" /\ dir' = dir /\ child' = child
        /\ traj' = Put(traj, child, ForkedRecord(parent)) /\ created' = TRUE
    BY <1>5 DEF SpawnRecord, execution
  <2>2. PICK s \in Suggestion : child = Append(t, s)
    BY <2>1 DEF TInv, Forking
  <2>3. child \notin DOMAIN traj
    BY <2>1 DEF TInv, Forking
  <2>4. /\ DOMAIN traj' = DOMAIN traj \cup {child}
        /\ \A u \in DOMAIN traj : traj'[u] = traj[u]
    BY <2>1, <2>3 DEF Put
  <2>5. RunningLeaf(child, traj')
    BY <1>5, <2>1, ForkedRecordTree DEF TInv, Held, Executing
  <2>6. Current' = Current /\ Forked = {t} /\ Forked' = {t}
    BY <1>1, <2>1 DEF Forked, Current, Spawning, Executing
  <2>7. Remembered' = Remembered \cup {child}
    BY <1>1, <2>1 DEF Remembered, Executing
  <2>8. Settling(traj, Remembered, Forked)
    BY <2>1 DEF SInv, Away
  <2>9. \A u \in DOMAIN traj : u # t => (Branching(u, traj') <=> Branching(u, traj))
    <3>1. DOMAIN traj \subseteq TrajectoryId
      BY DEF IInv, TypeOK
    <3>2. \A u \in DOMAIN traj, x \in Suggestion : Append(u, x) = child => u = t
      BY <1>3, <2>2, <3>1, OneParent
    <3>. QED
      BY <2>4, <3>2 DEF Branching
  <2>10. \A u \in DOMAIN traj' :
            traj'[u].status = "expanded" <=> Branching(u, traj') /\ u \notin {t}
    BY <2>4, <2>5, <2>6, <2>8, <2>9 DEF Settling, RunningLeaf
  <2>11. \A u \in DOMAIN traj' : traj'[u].status = "running" => u \in Remembered'
    BY <2>4, <2>7, <2>8 DEF Settling
  <2>12. DOMAIN dir' = DOMAIN traj' \cup Unrecorded'
    BY <2>1, <2>4 DEF SInv, Away, Unrecorded
  <2>. QED
    BY <2>1, <2>6, <2>10, <2>11, <2>12 DEF SInv, Settling
<1>. QED
  BY <1>4, <1>5

\* A child is remembered as long as it runs.
LEMMA ExecutionSettles ==
    ASSUME IInv, TInv, SInv,
           \/ ExecutorFails \/ RuntimeFails \/ JudgeFails
           \/ RegisterStepRecord \/ RegisterJudgeRecord \/ FinalizeChild
    PROVE  SInv'
<1>. USE DEF queue, family, execution
<1>. DEFINE q == traj[child]
<1>1. /\ pc \in Executing /\ pc' \in {"spawn", "judge", "finalize"}
      /\ UNCHANGED <<dir, frontier, contexts>>
      /\ nextFrontier' = nextFrontier \/ nextFrontier' = Append(nextFrontier, child)
  BY DEF Executing, ExecutorFails, RuntimeFails, JudgeFails, RegisterStepRecord,
     RegisterJudgeRecord, FinalizeChild, ChildError, LeaveChild
<1>2. child \in DOMAIN traj /\ q \in Record /\ RunningLeaf(child, traj)
  BY <1>1 DEF IInv, TypeOK, Places, TInv, Held
<1>3. nextFrontier \in Seq(TrajectoryId)
  BY DEF IInv, TypeOK
<1>4. \A i \in DOMAIN nextFrontier :
         i \in DOMAIN nextFrontier' /\ nextFrontier'[i] = nextFrontier[i]
  BY <1>1, <1>3
<1>5. Remembered \ {child} \subseteq Remembered'
  BY <1>1, <1>4 DEF Remembered
<1>6. Forked' = Forked
  BY <1>1 DEF Forked, Current, Spawning, Executing
<1>7. /\ pc \notin Away \cup {"root", "child"}
      /\ pc' \notin Away \cup {"root", "child", "done"}
  BY <1>1 DEF Executing, Away
<1>8. PICK r : /\ traj' = [traj EXCEPT ![child] = r] /\ r.status # "expanded"
               /\ r.status = "running" => child \in Remembered'
  <2>1. CASE ExecutorFails \/ RuntimeFails \/ JudgeFails
    <3>1. PICK c : traj' = [traj EXCEPT ![child] = MarkedError(q, c)]
      BY <2>1 DEF ExecutorFails, RuntimeFails, JudgeFails, ChildError
    <3>. QED
      BY <1>2, <3>1, MarkedErrorFields
  <2>2. CASE RegisterStepRecord \/ RegisterJudgeRecord
    <3>1. PICK ref : traj' = [traj EXCEPT ![child] = Stepped(q, ref)]
                     \/ traj' = [traj EXCEPT ![child] = Judged(q, ref)]
      BY <2>2 DEF RegisterStepRecord, RegisterJudgeRecord
    <3>2. Stepped(q, ref).status = "running" /\ Judged(q, ref).status = "running"
      BY <1>2 DEF Stepped, Judged, Record, RunningLeaf
    <3>3. pc' \in Executing /\ child' = child
      BY <2>2 DEF RegisterStepRecord, RegisterJudgeRecord, Executing
    <3>4. child \in Remembered'
      BY <3>3 DEF Remembered
    <3>. QED
      BY <3>1, <3>2, <3>4
  <2>3. CASE FinalizeChild
    <3>1. traj' = [traj EXCEPT ![child] = Marked(q, StatusAfterStep)]
      BY <2>3 DEF FinalizeChild
    <3>2. StatusAfterStep # "expanded"
      BY DEF StatusAfterStep
    <3>3. ASSUME StatusAfterStep = "running" PROVE child \in Remembered'
      <4>1. nextFrontier' = Append(nextFrontier, child)
        BY <2>3, <3>3 DEF FinalizeChild
      <4>2. /\ Len(nextFrontier) + 1 \in DOMAIN nextFrontier'
            /\ nextFrontier'[Len(nextFrontier) + 1] = child
        BY <1>3, <4>1
      <4>. QED
        BY <4>2 DEF Remembered
    <3>4. Marked(q, StatusAfterStep).status = StatusAfterStep
      BY <1>2, MarkedFields
    <3>. QED
      BY <3>1, <3>2, <3>3, <3>4
  <2>. QED
    BY <2>1, <2>2, <2>3
<1>9. ~Branching(child, traj)
  BY <1>2 DEF RunningLeaf
<1>. QED
  BY <1>1, <1>2, <1>5, <1>6, <1>7, <1>8, <1>9, RewrittenSettles

\* Every step keeps account of what the store holds.
LEMMA NextSettles == IInv /\ TInv /\ DInv /\ BInv /\ SInv /\ [Next]_vars => SInv'
<1>. SUFFICES ASSUME IInv, TInv, DInv, BInv, SInv, [Next]_vars PROVE SInv'
  OBVIOUS
<1>1. ASSUME Next PROVE SInv'
  <2>1. CASE \/ InitRootFails \/ InitRootRefused \/ ResolveInputFails \/ Crash \/ Rerun
    <3>1. Forget /\ pc' \in Away
      BY <2>1 DEF InitRootFails, InitRootRefused, ResolveInputFails, Crash, Rerun, Raise, Away
    <3>. QED
      BY <3>1, ForgetSettles
  <2>. QED
    BY <1>1, <2>1, RootSettles, PlanningSettles, WritesSettle, ContextSettles, ForkSettles,
       ExecutionSettles DEF Next, Step
<1>2. CASE UNCHANGED vars
  BY <1>2 DEF vars, disk, memory, queue, family, execution, SInv, Settling, Remembered,
     Unrecorded, Forked, Current
<1>. QED
  BY <1>1, <1>2

\* For any scores, failures and crashes: a run that returns leaves no trajectory running
\* or pending, no directory without its trajectory.json, and whoever has children is
\* expanded.
THEOREM FinishedRunsAreSettled == Spec => []SettledWhenDone
<1>1. Init => SInv
  BY DEF Init, SInv, Away
<1>2. IInv /\ TInv /\ DInv /\ BInv /\ SInv /\ [Next]_vars => SInv'
  BY NextSettles
<1>3. TInv /\ SInv => SettledWhenDone
  <2>. SUFFICES ASSUME TInv, SInv, pc = "done" PROVE SettledWhenDone
    BY DEF SettledWhenDone
  <2>1. Forked = {} /\ Unrecorded = {}
    BY DEF Forked, Unrecorded, Spawning, Executing
  <2>2. Remembered = {}
    BY DEF Remembered, Executing, SInv, TInv, Apart
  <2>3. \A t : HasChild(t) <=> Branching(t, traj)
    BY DEF HasChild, Branching
  <2>. QED
    BY <2>1, <2>2, <2>3 DEF SettledWhenDone, SInv, Settling, Away
<1>. QED
  BY <1>1, <1>2, <1>3, InductiveInvariant, TreeInvariant, DepthInvariant, BeamInvariant, PTL
     DEF Spec
=============================================================================
