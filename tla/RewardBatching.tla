--------------------------- MODULE RewardBatching ---------------------------
(***************************************************************************)
(* How one rollout batch gets its reward-model scores:                     *)
(* AgentLoopManager.generate_sequences hands a chunk of prompts to every   *)
(* AgentLoopWorker; each worker runs its agent loops concurrently and has  *)
(* one RewardManagerWorker, a synchronous actor that serves one            *)
(* compute_score call at a time and blocks in it until the shared          *)
(* BatchExecutor answers; the executor's thread collects submissions until *)
(* their number is a multiple of the micro batch, and scores them.         *)
(*                                                                         *)
(* Submitting, waiting for the future and returning to the agent loop are  *)
(* one step each; the generation before and the rule-based part of the     *)
(* reward after are not modelled.                                          *)
(***************************************************************************)
EXTENDS Naturals, Sequences, FiniteSets

CONSTANTS
    Worker,     \* agent loop workers (rollout.agent.num_workers)
    MaxPrompts, \* bound: prompts of one call
    Configs     \* the configurations to run with

\* rm_wg.world_size, max_batch_size with 0 for None, the bound on calls of
\* generate_sequences, and what may raise: an agent loop, the batch function.
Config ==
    [micro_batch_size: Nat \ {0}, max_batch_size: Nat, calls: Nat,
     faults: SUBSET {"loop", "batch"}]

ASSUME RewardBatchingAssumption ==
    /\ IsFiniteSet(Worker) /\ Worker # {}
    /\ MaxPrompts \in Nat
    /\ Configs \subseteq Config

Workers == Cardinality(Worker)

\* The k-th prompt of a worker's chunk.
Sample == Worker \X (1..(MaxPrompts \div Workers))
None == <<>>
Error == <<"error">>

VARIABLES
    config,    \* never changes
    manager,   \* "idle", "waiting" in ray.get, or "raised"
    awake,     \* the rollout replicas are awake
    calls,
    loop,      \* sample -> its agent loop: "none", "running", "asking", "done", "failed"
    mailbox,   \* worker -> compute_score calls its reward worker has still to serve
    blocked,   \* the workers whose reward worker is in ray.get
    q,         \* BatchExecutor._q
    thread,    \* "get", "drain", "fill" or "run": where _worker_loop is
    items,     \* the batch being collected
    answer     \* sample -> what its future holds: None, Error, or the sample scored

managers == <<config, manager, awake, calls>>
rewards == <<mailbox, blocked>>
executor == <<q, thread, items, answer>>
vars == <<managers, loop, rewards, executor>>

Init ==
    /\ config \in Configs
    /\ manager = "idle" /\ awake = FALSE /\ calls = 0
    /\ loop = [s \in Sample |-> "none"]
    /\ mailbox = [w \in Worker |-> <<>>] /\ blocked = {}
    /\ q = <<>> /\ thread = "get" /\ items = <<>>
    /\ answer = [s \in Sample |-> None]
-----------------------------------------------------------------------------
(* AgentLoopManager.generate_sequences. *)

\* Refused before the replicas are woken.
CallRefused ==
    /\ manager = "idle" /\ calls < config.calls
    /\ \E prompts \in 1..MaxPrompts : prompts % config.micro_batch_size # 0
    /\ manager' = "raised"
    /\ UNCHANGED <<config, awake, calls, loop, rewards, executor>>

\* DataProto.chunk wants equal chunks: its assertion comes after wake_up.
ChunkFails ==
    /\ manager = "idle" /\ calls < config.calls
    /\ \E prompts \in 1..MaxPrompts : prompts % config.micro_batch_size = 0 /\ prompts % Workers # 0
    /\ manager' = "raised" /\ awake' = TRUE
    /\ UNCHANGED <<config, calls, loop, rewards, executor>>

Call ==
    /\ manager = "idle" /\ calls < config.calls
    /\ \E prompts \in 1..MaxPrompts :
          /\ prompts % config.micro_batch_size = 0 /\ prompts % Workers = 0
          /\ loop' = [s \in Sample |->
                         IF s[2] <= prompts \div Workers THEN "running" ELSE "none"]
    /\ manager' = "waiting" /\ awake' = TRUE /\ calls' = calls + 1
    /\ answer' = [s \in Sample |-> None]
    /\ UNCHANGED <<config, rewards, q, thread, items>>

\* Bug: returns with the first worker.
Bug_ReturnEarly ==
    /\ manager = "waiting"
    /\ \E w \in Worker : \A s \in Sample : s[1] = w => loop[s] \in {"none", "done"}
    /\ manager' = "idle" /\ awake' = FALSE
    /\ UNCHANGED <<config, calls, loop, rewards, executor>>

Return ==
    /\ manager = "waiting"
    /\ \A s \in Sample : loop[s] \in {"none", "done"}
    /\ manager' = "idle" /\ awake' = FALSE
    /\ UNCHANGED <<config, calls, loop, rewards, executor>>

\* A failed agent loop fails its worker's gather, and that ray.get: the
\* exception leaves the replicas awake and the other loops running.
RaiseCall ==
    /\ manager = "waiting"
    /\ \E s \in Sample : loop[s] = "failed"
    /\ manager' = "raised"
    /\ UNCHANGED <<config, awake, calls, loop, rewards, executor>>
-----------------------------------------------------------------------------
(* Agent loops and reward workers. *)

\* Generation is over and the score is asked for.
AskScore(s) ==
    /\ loop[s] = "running"
    /\ loop' = [loop EXCEPT ![s] = "asking"]
    /\ mailbox' = [mailbox EXCEPT ![s[1]] = Append(@, s)]
    /\ UNCHANGED <<managers, blocked, executor>>

LoopFails(s) ==
    /\ "loop" \in config.faults
    /\ loop[s] = "running"
    /\ loop' = [loop EXCEPT ![s] = "failed"]
    /\ UNCHANGED <<managers, rewards, executor>>

\* Bug: an actor that serves its calls concurrently.
Bug_SubmitAll(w) ==
    /\ \E i \in DOMAIN mailbox[w] :
          LET s == mailbox[w][i] IN
          /\ answer[s] = None
          /\ \A k \in DOMAIN (q \o items) : (q \o items)[k] # s
          /\ q' = Append(q, s)
    /\ blocked' = blocked \cup {w}
    /\ UNCHANGED <<managers, loop, mailbox, thread, items, answer>>

\* compute_score submits to the executor and blocks.
Submit(w) ==
    /\ mailbox[w] # <<>> /\ w \notin blocked
    /\ q' = Append(q, Head(mailbox[w]))
    /\ blocked' = blocked \cup {w}
    /\ UNCHANGED <<managers, loop, mailbox, thread, items, answer>>

\* The future is set: compute_score returns or raises in the agent loop.
Resume(w) ==
    /\ w \in blocked
    /\ answer[Head(mailbox[w])] # None
    /\ loop' = [loop EXCEPT ![Head(mailbox[w])] =
                   IF answer[Head(mailbox[w])] = Error THEN "failed" ELSE "done"]
    /\ mailbox' = [mailbox EXCEPT ![w] = Tail(@)]
    /\ blocked' = blocked \ {w}
    /\ UNCHANGED <<managers, executor>>
-----------------------------------------------------------------------------
(* BatchExecutor._worker_loop. *)

Whole(batch) == Len(batch) % config.micro_batch_size = 0
Full(batch) == config.max_batch_size > 0 /\ Len(batch) >= config.max_batch_size

Take(next) ==
    /\ q # <<>>
    /\ items' = Append(items, Head(q))
    /\ q' = Tail(q)
    /\ thread' = next
    /\ UNCHANGED <<managers, loop, rewards, answer>>

\* The blocking get of the first item.
GetFirst == thread = "get" /\ Take("drain")

\* get_nowait while there is something.
Drain ==
    /\ thread = "drain" /\ q # <<>>
    /\ Take(IF Full(Append(items, Head(q))) THEN "run" ELSE "drain")

\* Bug: any number of items is a batch.
Bug_NoFill ==
    /\ thread = "drain" /\ q = <<>>
    /\ thread' = "run"
    /\ UNCHANGED <<managers, loop, rewards, q, items, answer>>

\* queue.Empty: go on with a whole number of micro batches only.
DrainEnds ==
    /\ thread = "drain" /\ q = <<>>
    /\ thread' = IF Whole(items) THEN "run" ELSE "fill"
    /\ UNCHANGED <<managers, loop, rewards, q, items, answer>>

\* The blocking gets that complete a micro batch.
Fill ==
    /\ thread = "fill" /\ q # <<>>
    /\ LET batch == Append(items, Head(q))
       IN  Take(IF Full(batch) \/ Whole(batch) THEN "run" ELSE "fill")

Answered(results) ==
    [s \in Sample |->
        IF \E i \in DOMAIN items : items[i] = s
        THEN results[CHOOSE i \in DOMAIN items : items[i] = s]
        ELSE answer[s]]

\* Bug: the output is not split, every future gets all of it and its error.
Bug_Unsplit ==
    /\ thread = "run"
    /\ answer' = Answered([i \in DOMAIN items |-> <<items, None>>])
    /\ thread' = "get" /\ items' = <<>>
    /\ UNCHANGED <<managers, loop, rewards, q>>

\* Bug: results come back in reverse order.
Bug_Reordered ==
    /\ thread = "run"
    /\ answer' = Answered([i \in DOMAIN items |-> items[Len(items) + 1 - i]])
    /\ thread' = "get" /\ items' = <<>>
    /\ UNCHANGED <<managers, loop, rewards, q>>

\* One score per item, in order.
RunBatch ==
    /\ thread = "run"
    /\ answer' = Answered(items)
    /\ thread' = "get" /\ items' = <<>>
    /\ UNCHANGED <<managers, loop, rewards, q>>

\* Bug: the exception is logged and no future is set.
Bug_LeavesFutures ==
    /\ "batch" \in config.faults
    /\ thread = "run"
    /\ thread' = "get" /\ items' = <<>>
    /\ UNCHANGED <<managers, loop, rewards, q, answer>>

\* The batch function raises: every future of the batch gets the exception.
BatchFails ==
    /\ "batch" \in config.faults
    /\ thread = "run"
    /\ answer' = Answered([i \in DOMAIN items |-> Error])
    /\ thread' = "get" /\ items' = <<>>
    /\ UNCHANGED <<managers, loop, rewards, q>>
-----------------------------------------------------------------------------
WorkerLoop == GetFirst \/ Drain \/ DrainEnds \/ Fill \/ RunBatch

Next ==
    \/ CallRefused \/ ChunkFails \/ Call \/ Return \/ RaiseCall
    \/ \E s \in Sample : AskScore(s) \/ LoopFails(s)
    \/ \E w \in Worker : Submit(w) \/ Resume(w)
    \/ WorkerLoop \/ BatchFails

\* Every generation ends, every actor serves its calls and the executor's
\* thread runs; the trainer need not call again and nothing has to fail.
Fairness ==
    /\ WF_vars(Return) /\ WF_vars(RaiseCall)
    /\ \A s \in Sample : WF_vars(AskScore(s))
    /\ \A w \in Worker : WF_vars(Submit(w)) /\ WF_vars(Resume(w))
    /\ WF_vars(WorkerLoop)

Spec == Init /\ [][Next]_vars
FairSpec == Spec /\ Fairness
-----------------------------------------------------------------------------
TypeOK ==
    /\ config \in Configs
    /\ manager \in {"idle", "waiting", "raised"} /\ awake \in BOOLEAN /\ calls \in Nat
    /\ loop \in [Sample -> {"none", "running", "asking", "done", "failed"}]
    /\ mailbox \in [Worker -> Seq(Sample)] /\ blocked \subseteq Worker
    /\ q \in Seq(Sample) /\ items \in Seq(Sample)
    /\ thread \in {"get", "drain", "fill", "run"}
    /\ answer \in [Sample -> Sample \cup {None, Error}]

\* A score reaches the agent loop whose output was scored, however submissions
\* of different workers were mixed into batches.
OwnScore ==
    \A s \in Sample : loop[s] = "done" => answer[s] = s

\* The reward model is given whole micro batches, which its worker group can
\* split evenly.
BatchesAreWhole == thread = "run" /\ config.max_batch_size = 0 => Whole(items) /\ items # <<>>

\* The executor never holds more than one submission of a worker: the reason why
\* a micro batch larger than the number of workers can never fill.
OneSubmissionPerWorker ==
    LET held == q \o items IN
    \A i, j \in DOMAIN held : held[i][1] = held[j][1] => i = j

\* The executor's queue and batches are in order.
QueueIsSound == TypeOK /\ BatchesAreWhole /\ OneSubmissionPerWorker

\* Between two calls nothing of the last one is left anywhere, and the replicas
\* sleep: the next call's scores cannot be held up by, or mixed with, old ones.
QuietBetweenCalls ==
    manager = "idle" =>
        /\ ~awake /\ q = <<>> /\ items = <<>> /\ thread = "get"
        /\ blocked = {} /\ \A w \in Worker : mailbox[w] = <<>>

\* Every call of generate_sequences returns or raises.
CallsEnd == manager = "waiting" ~> manager # "waiting"

\* submit_task's docstring: it returns the function's output.
SubmissionsAnswered ==
    \A s \in Sample : (\E i \in DOMAIN q : q[i] = s) ~> (answer[s] # None)
=============================================================================
