# ToolVision: a TLA+ model

ToolVision trains a vision-language model to answer questions by writing image
processing code. The repository holds two programs of its own on top of
vendored frameworks:

* `offline_sft_pipeline/` builds supervised training data offline. For every
  sample it grows a *tree of trajectories* on disk: a planner suggests how to go
  on, each chosen suggestion forks a child trajectory, an executor writes code
  for it, a runtime runs the code, a judge scores the result.
* `CodeVision/verl/` (a modified verl) trains by reinforcement learning: Ray
  actors run *agent loops* that alternate generation and tool calls, have the
  results scored, and hand the batch to the trainer, whose workers share their
  GPUs with the rollout engine and save checkpoints.

This directory holds TLA+ modules of both programs' control, TLC configurations
that check them on small instances, and proofs of their most important
invariants for every instance. All paths below are relative to the repository
(`src/` in `PROJECT.json` is the repository's root).

## 1. Inventory

### 1.1 Offline pipeline

| Component | State | Operations | Correct when |
|---|---|---|---|
| Orchestrator, `pipelines/orchestrator_v01.py` | the frontier, the planner outputs of a round, selected candidates, a *copy* of the parent's record (`refreshed_parent`) | `run`, and the steps it calls: plan, select, spawn, execute, finalize | it ends; every trajectory ends terminal or expanded; budgets shrink along every path; nobody is forgotten |
| Frontier selection, `_select_frontier_candidates` | none | one pure function | every parent's first suggestion goes before any parent's second; at most `max_child_trajectories` |
| Trajectory store, `core/store.py`, `core/models.py` | per trajectory a directory: `trajectory.json`, `messages.json`, `planner/round_NNN.json`, `steps/step_NNN/...`, `judges/*.json` | `init_root_trajectory`, `init_child_trajectory`, `append_messages`, `register_planner_round`, `register_step_record`, `register_judge_record`, `mark_trajectory_status`, `mark_trajectory_expanded` | what `trajectory.json` refers to exists; the transcript tells the registered steps; a terminal trajectory is not written again |
| Planner, executor and judge clients | none | one request each, may raise | outputs are normalised (a planner gives either an answer or suggestions; scores are clamped to 0..1) |
| Step runtime, `runtime/code_image_runtime_wrapper.py` | the step's directory | `run_step` | the result file is there before anyone refers to it |
| Model backends, scripted components | none | HTTP requests, canned answers | - |

The orchestrator is one thread calling the others synchronously. What is hard
about it is not concurrency but *persistence and partial failure*: every
operation is several file writes, the process may be killed between any two,
each of four external calls may raise at a different depth of the same step,
and decisions are taken on records read earlier (`refreshed_parent`, the
frontier) that other steps have overwritten on disk in the meantime.

### 1.2 Agent loops (`CodeVision/verl/experimental/agent_loop/`)

| Component | State | Operations | Correct when |
|---|---|---|---|
| `AgentLoopManager` | replicas awake or asleep | `generate_sequences`: wake, chunk, `ray.get` on all workers, sleep | a call ends; nothing of it is left for the next |
| `AgentLoopWorker` | one asyncio task per prompt | run the agent loop, pad, ask for a score | its output gets its own score |
| `RewardManagerWorker` | one synchronous Ray actor per agent loop worker | `compute_score`: blocks on the executor, then rule-based reward | - |
| `BatchExecutor` | `queue.Queue` of (item, future), a daemon thread | `submit_task`, `_worker_loop` | batches are whole micro batches; every future is set, with its own result |
| `AsyncLLMServerManager`, one per worker | a heap of (requests, server), an LRU of sticky sessions | `_choose_server` | one trajectory stays on one server; load is balanced |
| `ToolAgentLoop` | messages, token ids, response mask, images, turn counters | the states PENDING, GENERATING, PROCESSING_TOOLS, INTERACTING, TERMINATED | ids, mask and log probabilities stay aligned; limits are respected; it terminates |
| Code execution, `verl/tools/code_image_tool.py` | per worker a pool of threads that share one `sys.stdout`; one token bucket for all pools | `create`, `execute`, `release` of a call; `acquire`, `release` of a token | a call reports its own output; tokens are conserved; code that does not end costs its own worker only |
| Tool reward aggregation, `_post_aggregate_tool_rewards` | none | numeric formulas over one batch | a rollout's reward depends on its own prompt's rollouts; the tools a sample needs pay, others do not |

Here concurrency is the matter: coroutines, actors and a thread wait for one
another through mailboxes, a queue and futures.

### 1.3 Trainer (`CodeVision/verl/trainer/ppo`, `workers`, `utils`)

| Component | State | Operations | Correct when |
|---|---|---|---|
| The way of a batch through `RayPPOTrainer.fit` | columns of rows that belong together by position only | repeat, chunk, balance, dispatch, micro-batch, collect, union, pad and unpad | every row keeps its own prompt and results; all ranks make the same backward passes |
| Balancing, `utils/seqlen_balancing.py` | none | `karmarkar_karp`, `rearrange_micro_batches`, `restore_dynamic_batch` | partitions are complete, balanced and within bounds; results find their way back |
| Hybrid engine, `fsdp_workers.py`, `agent_loop.py`, `replica.py` | per worker: weights of the actor and of the engine, what is in GPU memory, three random states | `launch_servers`, `wake_up`, `generate`, `sleep`, `compute_log_prob`, `update_actor`, `save_checkpoint`, `load_checkpoint` | training is on the policy that sampled; requests meet a ready engine; memory fits; random streams are not mixed |
| Checkpoints, `ray_trainer.py`, `utils/checkpoint` | a folder per step, the tracker file, the paths rank 0 remembers | `_save_checkpoint`, rotation, `_load_checkpoint` | what the tracker names is whole; an interrupted training is the uninterrupted one |

Here the hard part is the order of calls to many workers that share a GPU
with a second engine, and what is left on disk when all of them are killed.

### 1.4 Supervised fine tuning (`CodeVision/LLaMA-Factory`, vendored)

The upstream trainer the offline data goes into. What this repository depends on is
what becomes of its multi-turn conversations: `processor_utils.py` cuts turns to
`cutoff_len`, `supervised.py` labels them and packs several into one row,
`collator.py` makes the attention mask that keeps them apart.

### 1.5 The rest

The other tools use the same limiter and pool or wrap remote services;
`recipe/codevision/reward.py` holds scoring formulas that call a judge model;
numerical training, Megatron workers and the other rollout engines are upstream
verl; most of LLaMA-Factory is a vendored library; `paddleocr_vl_service` is
container configuration.

`PROJECT.json` lists every component with its status, and under `hazards` what
is hard to test in this code, at the line where it bites.

## 2. Plan

The order in which the modules were written is the order of what matters: first
the programs' loops, then what they call, then what their calls compute.

1. `FrontierSelection`, `Orchestrator` - the offline loop and its store, write
   by write, with failures, crashes and reruns; `TrajectoryTree` - the abstract
   tree it implements; `SelectionLists` - the selection algorithm as written;
   `OrchestratorProofs`.
2. `RewardBatching` - the manager, workers, reward actors and batch executor;
   `RewardBatchingProofs`.
3. `ToolAgentLoop`, `ToolAgentLoopProofs` - the multi-turn state machine of one
   trajectory. It meets
   `RewardBatching` only in "an agent loop ends": `LoopReturns` is what the
   fairness of `AskScore` in `RewardBatching` stands on.
4. `AgentWorkers` - many trajectories: the servers they choose, the pools that run
   their code, the limiter all pools share; `AgentWorkersProofs`. It composes what
   `ToolAgentLoop` says of one trajectory with what trajectories share.
5. `Checkpointing` and `CheckpointingProofs` - what survives the trainer's death.
6. `HybridEngine` with `HybridEngineProofs` - the calls
   of a training step. Its `AgentLoopFails` is the exception that leaves
   `ToolAgentLoop` (`state = "raised"`) and ends the call (`RaiseCall` in
   `RewardBatching`).
7. The pure algorithms: `SeqlenBalancing`, `TrainingBatch` (which uses it),
   `ToolRewards`, `SftData`, all over the sorting and adding of `Sorting`, compared with
   what is expected of them in `Algorithms`; `SftDataProofs` and `AlgorithmsProofs`.

What would come next: the colocated and standalone modes of the rollout; the chat
templates of LLaMA-Factory; torn writes of the offline store.

## 3. Modules

### 3.1 `FrontierSelection`

A trajectory is named by its path of suggestion ids from the root. The code's
id `<parent>__rNNN_<suggestion>` spells the same path: the round number NNN in
it is the depth (`BudgetMeasuresDepth` checks that). `SelectCandidates` is the
beam as a ranking of sets by `_candidate_sort_key`: all first suggestions, cut
at `MaxChild`; slots that are left go to the best others. A planner output is
its list of suggestions; the empty list is a direct answer, because
`PlannerOutput` validates that exactly one of the two is there.

### 3.2 `SelectionLists`

The same function as written in Python: two lists filled context by context,
sorted, sliced and joined. The run compares it with the ranking for every
frontier, and checks what only the list has, its order.

### 3.3 `Orchestrator`

| Code | Model |
|---|---|
| `trajectory.json` | `traj[t]`, a record; present when `t \in DOMAIN traj` |
| the rest of the directory | `dir[t]`: planner rounds, runtime results, judge scores, messages |
| relative paths in `trajectory.json` | `<<owner, index>>`; a child inherits its parent's records and the paths are rebased, so the owner stays |
| locals of `run` | `frontier`, `contexts`, `chosen`, `parent` (= `refreshed_parent`), `created` (= `child_created`), `child`, `nextFrontier` |
| program counter | `pc` |
| process killed, started again | `Crash`, `Rerun` |

One action is one write or one external call. `register_planner_round`, for
instance, writes `planner/round_NNN.json` (`SavePlannerOutput`) and then
`trajectory.json` (`RegisterPlannerRound`, which also keeps the copy every later
test of this parent reads). A crash may fall between them. Everything that can
raise does so at its place: inside a `try` the child or the parent is marked
`error` (`PlannerFails`, `SpawnFails`, `ExecutorFails`, `RuntimeFails`,
`JudgeFails`), outside it the exception ends `run` (`ResolveInputFails`,
`InitRootFails`, `InitRootRefused`).

Abstractions, all in the data:

* planner, executor, runtime and judge answers are chosen from small sets. The
  runtime's result is one of four the loop tells apart: failed; no image and no
  text (`blank`); text only; an image. A score is a natural number compared with
  `KeepThreshold`;
* whether a suggestion asks for the current image is left open, so
  `_resolve_runtime_input` may raise whenever there is no latest image;
* a message is its kind and step;
* `judge_records` is kept as the set of its entries and the last one, which is
  all the code reads of it;
* one file write is atomic and succeeds. Filling a new directory (creation,
  copied artefacts, `messages.json`) is one write: until `trajectory.json` is
  there nobody reads any of it;
* the executor's own files in a step directory (prompt, code) are not tracked;
* `_finalize_unselected_parent` on a parent without candidates is in
  `CloseParent`; `BeamKeepsEveryParent` shows that case never arises.

Operations of the store without a caller in the pipeline
(`set_pending_execution`, `list_resumable_trajectories`, the canonical export)
are not modelled.

### 3.4 `TrajectoryTree`

What the loop promises, without files, beams, judges or program counters: a
tree of trajectories, each *open*, *inner* or *closed*. Only an open one gets
children, each once and no deeper than the initial budget; it becomes inner when
it has children, closed otherwise, and then stays so. `Orchestrator!ImplementsTree`
is the refinement: `running` is open, `expanded` inner, terminal closed, except
that a parent a failed fork marked `error` is still open (see finding 1).

### 3.5 `RewardBatching`

| Code | Model |
|---|---|
| `generate_sequences` up to `ray.get`; its return; its exception | `Call`, `CallRefused`, `ChunkFails`; `Return`; `RaiseCall` |
| the wait and the calls queued at a `RewardManagerWorker` | `blocked`, `mailbox[w]` |
| `submit_task` | `Submit`; the future is `answer[s]` |
| `_worker_loop` | `GetFirst`, `Drain`, `DrainEnds`, `Fill`, then `RunBatch` or `BatchFails` |

`thread` says where the daemon thread is: in the blocking `get` of the first
item, in the `get_nowait` loop, in the blocking `get`s that complete a micro
batch, or in the batch function. Modelled from their use: a synchronous Ray actor
serves one call at a time in the order of arrival, and `ray.get` of a list raises
with the first failed task and leaves the others running. `batch_fn` concatenates,
scores and splits, so result *i* belongs to item *i*. A raised call ends the
model: the trainer does not catch it. Generation, before the score is asked for,
is not modelled, except that it may fail.

`AgentLoopManager` never sets `max_batch_size`; the second configuration of `reward`
sets it to cover those branches of `BatchExecutor`.

### 3.6 `ToolAgentLoop`

| Code | Model |
|---|---|
| the state machine in `run` | `state`, plus `"raised"` when an exception leaves it |
| `prompt_ids`, `response_mask`, `response_logprobs` | `ids`, `mask`, `logprobs`, one element per token |
| `image_data`; `tools_kwargs[...]["create_kwargs"]["image"]` | `images`; `toolImages` |
| `_handle_pending_state`, `_handle_generating_state` | `Pending`; `Generate`, `GenerateFails` |
| `_call_tool`, several at once under `asyncio.gather` | `CreateFails`, `CreateInstance`, `Execute`, `ExecuteRaises`, `ExecuteHangs`, `Release` for call `i`; `calls[i]` says where it is |
| the rest of `_handle_processing_tools_state`; `_handle_interacting_state` | `ProcessResponses`; `Interact` |
| the cut that makes prompt and response at the end of `run` | `Cut` |

A token is its kind, an image has one placeholder, an image is named by its turn
and its place among that turn's images. The number of tokens of an answer, of a tool turn and of a
user turn, the number of tool calls in an answer, what comes of each call, and
whether an interaction goes on are all left open. `_handle_pending_state` adds the
tool schemas to a prompt whose length the dataset tested without them (`uvtr.py:142`),
so a prompt may exceed `PromptLength` by `schema_length`; `RoomAfterTools`
and `LoopReturns` are therefore about prompts that fit with their schemas, the other
properties about all. Assumed from
outside: the dataset's own prompts fit `prompt_length`; tools and model start with
the same images; the engine returns at least one token, at most as many as fit,
and never an image placeholder; a tool returns at most one image, as
`CodeImageTool` does, and a `processor` is configured when it returns one.

`CodeImageTool.execute` blocks the event loop until the code it runs has ended, so
with this tool the calls of a turn follow one another; a tool that awaits lets
them interleave. The model has the interleavings, and `Blocked`: once code does
not end, nothing else of the worker moves.

### 3.7 `AgentWorkers`

| Code | Model |
|---|---|
| a trajectory's coroutine, its call in a thread of the pool | `phase[t]` |
| `ray.get` in `CodeImageTool.execute`, which holds up the event loop | `loop[w]`: the trajectory it waits for; `Free` |
| `_choose_server`: heap, LRU cache | `count[w]`, `sticky[t]` and `recent[w]`; `ChooseServer` |
| `CodeExecutionWorker.execute` in the pool | `EnterPool`, then `Acquire` by the limiter |
| `TokenBucketWorker` and its semaphore | `mailbox`, `tokens`, `releases`; `Acquire`, `Release` |
| `redirect_stdout` in `_execute_code` | `stdout[w]`, `previous[t]`, `buffer[t]`; `RunCode`, `PrintText`, `CodeEnds` |

The heap is a set from which a server with the fewest assignments is taken; which
of equals is decided by a hash, hence any. `buffer[t]` is the set of trajectories
whose code wrote into the buffer of `t`'s call. `server` and `since` are auxiliary
and only read by `StickySession`. The limiter is what the code of the actor does
with its semaphore: `acquire` waits inside the actor, so at most one is waiting
there and the others in its mailbox; `release` runs in another thread of the
actor. Modelled from their use (external): Ray's mailboxes and thread pools.

### 3.8 `Checkpointing`

| Code | Model |
|---|---|
| `global_step_s/<part>/*_rank_r.pt` | `shards[s][part][r]`: the run that wrote it and the number of updates in it; `Absent`, `Torn` |
| `data.pt`, `latest_checkpointed_iteration.txt` | `data[s]`, `tracker` |
| `previous_saved_paths` | `saved[part]` |
| `fit` up to the first batch, `_load_checkpoint` | `StartFromScratch`, `ResumeFrom`, `ResumeFails` |
| the loops of `fit` | `TrainStep`, `NextEpoch`, `SaveDue`, `IsLast` |
| `_save_checkpoint` | `Rotate`, `SaveShard(r)`, `PartSaved` for each part, `SaveData`, `SaveTracker` |

Weights are the number of optimizer steps that made them, which is what tells one
training from another here. `Crash` may tear every file that is being written: any
set of the pending shards, `data.pt`, or the tracker, which is opened for writing
and left empty. `Steps` bounds what is trained, `MaxRuns` how often it is started.

### 3.9 `HybridEngine`

One variable per thing a worker has: `mode`, `gpu`, `actor`, `engine` (versions of
the weights), `rng` and the two stored random states. The driver makes one call
after another to all workers (`Call`) and waits for all of them (`Answered`);
`plan` holds the calls of this iteration that are still to come, as `fit` makes
them (`Iteration`), with `critic_warmup`, `test_freq` and `save_freq` abstracted to
whether they apply. `rollout_mode` is four actions of each worker (`Collect`,
`ResumeWeights`, `UpdateWeights`, `ResumeCache`), because `UpdateWeights` gathers
full tensors and so waits for every other worker, and because what is on the GPU
differs between them. `draws` is auxiliary: which random number was used for what.
A configuration says whether the cache is freed, what is offloaded, the sleep
level, whether the engine starts with dummy weights, and which step is resumed.

### 3.10 The pure algorithms

`SeqlenBalancing`, `TrainingBatch`, `ToolRewards` and `SftData` have no variables;
they say what the functions of the code return. Where the code has a heap or a
loop that pops and pushes, the model has a recursive function over the same order,
ties included, because properties such as "the largest and the smallest
partition differ by at most one row" depend on ties. `Algorithms` makes inputs: a
state is an input, a step makes it one element longer, and an invariant compares
what the functions return with what their docstrings and callers expect.

* `Sorting`: Python's `list.sort` as an insertion sort that keeps the order of equal
  elements, and `sum`.

* `SeqlenBalancing`: a set is its sum and the sequence of its items, so that two sets
  of equal sums are ordered as in Python (`Set.__lt__`).
* `TrainingBatch`: a row is a record of columns; a result computed for a row is named
  by the row's response, so a result that came to another row is seen.
* `ToolRewards`: integers, `One` for 1.0. The formulas only multiply by weights in
  tenths and divide by numbers up to four, which divide `One`. That a transform which
  is needed pays is said with the runs of code it takes (`With`), as long as they are
  free or cost less than the transform's share is worth (`Affordable`). That a rollout's reward
  is its group's own is stated as: the same in every list of exactly the rollouts of its
  prompt, in any order (`GroupedByPrompt`).
* `SftData`: a token is its turn, its side and its place. Images of a turn are part
  of the prompt's length. The one product of floating point numbers
  (`int(cutoff_len * (target_len / (source_len + target_len)))`) is an integer quotient,
  less one where the exact product is an integer and rounding falls below it:
  `FallsShort`. Where it does depends on the numbers, so an option `short` names the
  triples; the run takes none, or all with room for 4 tokens, and the proofs take any set.

## 4. Runs

| Run | Question | Instance | Distinct states |
|---|---|---|---|
| `loop` | Is the store consistent after every single write, whatever fails and whenever the process dies? Does a live process end with a settled store, do parents compete with their own score, does the beam keep them all, are terminal trajectories left alone, does the loop implement the tree? | 2 children; budgets of 0 to 2 rounds in which every call may fail, every result is possible, scores are below the threshold or at it, and one suggestion of three cannot become a directory; a budget of 3 rounds in which every child is kept and a planner may suggest one id twice, whose second fork is refused; reruns | 1.0 million |
| `reopened` | Is `error` final? (finding 1) | 1 round, 1 bad suggestion | |
| `algorithms` | Do the pure algorithms return what their callers rely on? | see below | 195 thousand |
| `micro_batches_over` | Is a micro batch within `max_token_len`? (finding 5) | 3 rows of 1 or 2 tokens | |
| `reward` | Does every call end and leave nothing behind, and does everyone get their own score, with loops and batches failing? | 3 workers, 3 or 6 prompts; micro batches of 3 and 2 calls, or batches of at most 2 | 430 thousand |
| `reward_starved` | Is every submission answered? (finding 2) | 3 workers, 6 prompts, micro batches of 2 | |
| `agent` | Do tokens, mask, log probabilities and images stay aligned, are instances released, do turn limits hold, does the loop return? | answers of 1-2 tokens with up to 3 calls of which 2 are made, results of all kinds, tool turns of 1-2 tokens, response length 9; or user turns of 1-3 tokens, response length 7; schemas that make a prompt too long by a token, limits of 3 turns, code that may not end | 30 thousand |
| `agent_overflow` | Is there room whenever the engine is asked? (finding 3) | user turns of 1-3 tokens, response length 4 | |
| `agent_workers` | Does a call report its own output, are tokens conserved, do sessions stick, do the other workers finish when one has code that does not end? | 3 trajectories on 2 workers, pools of 2 threads, 2 tokens, 2 servers, a cache of one session | 300 thousand |
| `checkpoints_resume` | Is what the tracker names whole, and is an interrupted training the uninterrupted one? | 2 ranks, actor and critic, 3 steps in epochs of 2, a save every second step and whenever the instance is about to expire, 2 checkpoints kept, warm up of 2 steps, 3 starts | 49 thousand |
| `hybrid_engine` | Is training on policy, are engines ready, does memory fit, are random streams apart, does the run end? | 2 replicas of 2 and 1 workers, 2 steps, every combination of offloading, sleep level, dummy weights and resumption | 365 thousand |
| `hybrid_off_policy` | The same of a rollout that keeps its memory (finding 4) | 1 worker, `free_cache_engine` off | |

Each property is commented in its module with the hazard it is about. Several are
conjunctions of named parts that one run checks together:

* `StoreIsSound` = `TypeOK` and `FilesBeforeReferences`; `CrashConsistent` =
  `TranscriptMatchesSteps` and `AtMostOnePending`;
* `QueueIsSound`, `ImagesMatch`, `LimitsHold`, `StdoutIsOwn`,
  `MemoryIsSound` and `CheckpointsAreSound` contain the type invariant of their
  module or two invariants of one hazard;
* `SessionsAreSound` = `TypeOK`, `Balanced`, and `Remembered`: a worker's LRU is no
  longer than the cache, without repetition, and holds exactly those of its own
  trajectories that have a server;
* `AsUninterrupted` = the weights and the position in the data are those of an
  uninterrupted training, a finished run is saved, and every further start takes at
  most a step more; `GetsOn` = the tracker only advances, a restart repeats at most
  a save interval, and a run that is not killed ends;
* `BalancingIsSound`, `RowsKeepTheirPrompt`, `ToolsPayWhenNeeded`, `BonusIsEarned`.

Inputs of `algorithms`: every frontier of up to three trajectories (three paths in any
order) with up to three suggestions each of which two are used, and two scores; every batch of up to six rows
of lengths 0, 1 and 3 on every grid of up to three by two ranks; every three rollouts
of two prompts; every conversation, or dataset of examples, of up to four turns with
prompts and responses of 1, 2 or 6 tokens, every option of the labels (`mask_history`
with `train_on_prompt` is refused by `data_args.py`), rows that begin with two image
tokens or none, cut-off lengths of 1, 4 and 7, and of 4, 7 and 10 for packing.

Why the bounds are enough. `loop` cannot have three rounds with every failure, result
and score, so `MCOrchestrator` lets the initial budget choose between two cases of one
behaviour, `Failing` and `Keeping`. Two rounds show every kind of record a child can
inherit (its parent's planner round, and nothing, or one step and one judge record)
under every failure; three show that the *last* one is used, with inherited judge
records of two ancestors, and need children that are kept. Two children show an
earlier sibling's outcome influencing the parent and the later sibling; two scores
show ties and order. `StopUnselected` is on, as by default; the proofs take it on or
off, and do without the cases. In the selection, three parents for three slots with
two usable suggestions each give every split of slots between first and second
suggestions. In the batching, three workers with two prompts each give a second
submission by a worker while others' are in the same batch; two calls show leftovers.
In the agent loop a response of nine tokens has room for three tool turns, so images
of two earlier turns exist when a turn is cut off, and two parallel calls give every
pair of outcomes. Two trajectories
of one worker are enough for two codes in one process, two workers for two processes
that share a limiter, three trajectories with a cache of one for an eviction by
others and by nobody. Three starts show a checkpoint made by a resumed training
being resumed. Two replicas of different size show that a wake up which misses one,
or one worker of one, is seen; two steps show a second synchronisation. Six rows show
every grouping by two and three; lengths of zero show empty partitions. Four turns
with cut-offs below, between and above their lengths show each of the three rules of
`infer_seqlen` at every turn.

The violation runs take the smallest instance that shows what they are about.
`micro_batches_over` states a sentence of a docstring that does not hold; beside it
`MicroBatchesFit` in `algorithms` states what does.

`CHECK_DEADLOCK FALSE` is set where the system stops: after the last call or an
exception in `RewardBatching`, after an input cannot grow any more in `Algorithms`,
when a trajectory of `ToolAgentLoop` has ended or waits for endless code, when all
trajectories of `AgentWorkers` are done or wait for it, after the last start in
`Checkpointing`, and after the last step, or an exception, in `HybridEngine`. The
orchestrator runs check for deadlock: a process can always go on, crash or be
started again. Where a deadlock would hide in a stop, liveness speaks of it:
`CallsEnd`, `LoopReturns`, `OthersFinish`, `RunEnds`.

### Fairness

* `Orchestrator`: `WF_vars(Step)`, in `loop` of the steps its cases admit, which are
  never none. The loop is sequential code; a process that is
  not killed executes its next statement, and every external call returns or
  raises. The HTTP clients have timeouts. Executed code has none: `CodeImageTool`
  reads `timeout` (`code_image_tool.py:407`, 30 in the recipe's configuration, 180
  in the offline wrapper) and nothing uses it, so `RunEnds` assumes that it
  ends. `Crash` and `Rerun` are not fair: nobody has to kill or restart the process.
  No single outcome of a call is ever forced, so `RunEnds` holds for whatever the
  planner and the judge answer.
* `RewardBatching`: weak fairness of each agent loop's progress to its score, each
  reward actor's next step, the executor's thread, and of the manager's return.
  Each is a thread or process of its own that is scheduled on its own. Calls
  and failures are not fair.
* `ToolAgentLoop`: weak fairness of the state machine's next step and of each
  call's next step: the coroutine is resumed once what it awaits is there, and the
  engine answers. Which outcome a call has is never forced. `LoopReturns` is
  checked where executed code ends; code that does not stops the whole worker.
* `AgentWorkers`: weak fairness of each trajectory's step, of the limiter's two
  operations, and of the end of code that is not endless: coroutines and threads
  are scheduled, the actor serves its mailbox.
* `Checkpointing`: `WF_vars(Progress)`: a process that is not killed goes on. Neither
  `Crash` nor `Resume` is fair.
* `HybridEngine`: weak fairness of the driver, of each worker and of each replica's
  answer. `AgentLoopFails` is not fair.

### What the runs show

Within the instances: the store is never left with a dangling reference; a
transcript is never more than one step or one answer ahead of its record, and
only where `pending_execution` or the running status says so; depth, rounds,
steps and budget agree; the beam never drops a parent, therefore `stopped_early`
arises only from failed forks; after a normal end all trajectories are terminal or
expanded; the loop always ends. A reward call ends when there are as many
reward model ranks as workers, or one, and every loop gets its own score whatever
the batching. An agent loop's output is always a prompt and a response whose mask
marks the policy's tokens and whose placeholders match its images, also when the
last tool turn was cut off; tools and model number the images alike; the loop
returns without turn limits if tool code ends. Outputs of code are not mixed, but
only because the blocking `ray.get` lets one call of a worker run at a time: with
an `await` in its place (the mutant `Bug_Awaited`) the threads of the pool
write into each other's buffers. A training that is killed anywhere and resumed has
the weights and the data of one that was not, and with two checkpoints kept it can be
resumed unless the tracker itself was being written. Training is on policy where the engine's memory is freed.
Rows stay with their prompts through balancing, dispatch and micro batches.

### Findings

1. **`error` is not final** (`reopened`). After a failed fork `run` writes
   `error` to disk (`orchestrator_v01.py:213`) and goes on testing the copy in
   `refreshed_parent`: if a sibling could be forked, `mark_trajectory_expanded`
   overwrites it, and if none could, the test at line 231 still sees `running`
   and writes `stopped_early`, as in TLC's trace. `docs/8...:301` lists `error` among the final
   states. `last_error` survives, which is how the model tells these parents.
2. **A submission can wait for ever** (`reward_starved`). A batch is completed to
   a multiple of the reward model's world size by blocking `get`s, but every
   worker has one synchronous reward actor with one outstanding submission. With
   3 workers and world size 2 the thread waits for a submission nobody can make,
   and the call never ends. A world size that divides the number of workers is no
   way out once a worker has more than one prompt: towards the end of a call
   fewer workers than a micro batch may have anything left (TLC shows it with 4
   workers of 2 prompts each and world size 2, in the same configuration).
3. **A user turn can leave the engine no room** (`agent_overflow`).
   `_handle_interacting_state` appends the interaction's answer without the length
   test tool turns get (`tool_agent_loop.py:476`); `generate` then asks vLLM for
   zero or fewer tokens, the exception leaves `run`, and the whole
   `generate_sequences` call fails (`RaiseCall` in `RewardBatching`). The other
   multi-turn rollout tests the length (`sglang_rollout.py:883`).
4. **Without `free_cache_engine` training is off policy** (`hybrid_off_policy`).
   `generate_sequences` wakes the replicas only if the option is on
   (`agent_loop.py:931`), and waking up is the only way the actor's weights get to
   vLLM in asynchronous mode. `rollout.yaml:46` describes the option as one of
   memory. The default and the recipes have it on.
5. **`max_token_len` is exceeded** (`micro_batches_over`). It is not the "max sum of
   attention_mask per micro-batch" (`seqlen_balancing.py:264`): rows of 2, 2 and 2 tokens
   with a maximum of 3 make micro batches of 4 and 2. `MicroBatchesFit` is the bound that
   holds: less than the maximum and one row.

Smaller observations, made while modelling and without a run of their own:

* A parent can stay running above its child. `_resolve_runtime_input`
  (`orchestrator_v01.py:360`) is called outside every `try`: a suggestion that asks for
  the current image after a step that produced none ends the run with an exception,
  before the parent is marked expanded. `docs/4...:46` proposes for V0.1 that only leaves
  are running, and `tests/test_orchestrator_v01.py:182` tests it for a run that returns.
  `SettledWhenDone` is therefore about runs that return, and neither it nor
  `BudgetMeasuresDepth` sees this: the records are consistent, one status is not.
* A restart forgets checkpoints. `previous_saved_paths` is empty when a process starts
  (`checkpoint_manager.py:59`), so what an earlier run saved is never removed, and more
  are on disk than `fsdp_checkpoint_manager.py:190` says ("keeping at most
  `max_ckpt_to_keep`"): with two to keep, a training that saves steps 1 and 2, is killed,
  resumes and saves step 3 has three. `RotationBounds` is what holds, for the
  checkpoints one run has written.
* Keeping one checkpoint is not safe. Rotation comes before writing
  (`fsdp_checkpoint_manager.py:213`): with `max_actor_ckpt_to_keep: 1`, as
  `ray_trainer.py:954` advises, the only checkpoint is gone while the tracker, "for
  atomic usage" (`ray_trainer.py:984`), still names it. The run keeps two, and the proofs
  exclude it (`Careful`).
* `mask_history` trains the end of earlier turns, with a template that has
  `efficient_eos` (`supervised.py:65`), although the comment at line 70 says "train on
  the last turn only". `LabelsMatchTargets` gives every token's label exactly, these
  included (`AsksForEnd`): it states what the code does, which here is not what the
  comment says.
* Tool schemas may do without an interaction what finding 3 says of user turns: a prompt
  that fits `prompt_length` only without them leaves less than `response_length` in the
  context, and tool turns are tested against `response_length` alone.
* A start after a training that has finished trains one step beyond the end and
  saves it (`OneStepTooMany` bounds it).
* A needed transform does not always pay: past the free runs (two, or as many as
  transforms are expected) a run of code costs `gamma` (`agent_loop.py:1404`). With the
  default weights 0.5 and 0.2 and three expected transforms, a transform that takes a
  fourth run earns a third of 0.5 and costs 0.2.
* `greedy_knapsack` does not end on a length above its capacity; its caller drops
  such examples first.
* Replicas stay awake after an exception of an agent loop (`agent_loop.py:934`); the
  trainer does not catch it, so the program ends, and so do the models. No property
  speaks of what comes after.
* The counts in the heap of `AsyncLLMServerManager` only grow, and every worker has a
  heap of its own: `Balanced` holds per worker, and all together the servers may
  differ by as much as there are workers.

## 5. Proofs

TLAPS proves the following for every value of the constants the named assumptions
admit. Each proof module has an inductive invariant, one lemma or step per action,
and a last temporal step.

### `OrchestratorProofs`

Three parts, each with an invariant on top of the one before: the order of writes, the
tree, and the beam.

*Writes.* For every set of suggestions and scores, every beam width, budget, threshold and
every set of faults that `SelectionAssumption` and `OrchestratorAssumption` admit:
`InductiveInvariant` (`Spec => []IInv`) and `StoreStaysSound` (`Spec =>
[]StoreIsSound`, from `TypeCorrect` and `NoDanglingReference`).

`FilesBeforeReferences` is not inductive. `IInv` adds to `TypeOK`

* *places*: which trajectories exist at which program counter (the frontier,
  contexts, candidates and the child in memory name trajectories on disk; while a
  directory is being filled its record does not exist). Without it a
  `traj' = [traj EXCEPT ![t] = ...]` could name a trajectory that is not there;
* *references*: `FilesBeforeReferences`, with the copy in `parent` included,
  since a child's record is made from that copy and not from the disk;
* *first writes*: between the two writes of a registration, the file the second
  one will name exists (`pc = "record"`, `"step"`, `"judged"`).

Crashes need no case of their own beyond `Forget`: the invariant relates the
store to itself, and what relates it to memory is void when memory is empty.
Type correctness depends on references as well: a parent's score is *read* from
the file its last judge reference names, and is a score only because the file is
there.

*Tree.* `LoopImplementsTree` (`Spec => ImplementsTree`) and `TerminalStaysFinal` (`Spec =>
TerminalIsFinal`), under the same assumptions. The refinement is a step simulation:
`InitRootRecord` plants the root, `SpawnRecord` forks, `CloseParent` expands or closes
its parent, and what skips, answers, fails or finalizes a trajectory closes it; every
other step, a failed fork among them, is a stutter of the tree. What makes each of them
a step the tree allows is `TInv`, on top of `IInv`: the trajectories the loop holds in
`frontier`, `contexts`, `nextFrontier` and `child` are pairwise different running leaves
(`Apart`, `Held`), so that closing one never closes a trajectory with children; only the
parent being forked has children, exactly when `created` says so, although its record
may say `error` (`Forking`); and the records hang together, with a budget that measures
their depth, so that a new child is a leaf and never too deep (`Rooted`).

On top of it `DInv` proves `BudgetAlwaysMeasuresDepth` (`Spec =>
[]BudgetMeasuresDepth`) and `CrashesStayConsistent` (`Spec => []CrashConsistent`);
it is inductive with `IInv` and `TInv`. A trajectory's record and its transcript
are separate files written one after the other, so neither property is inductive: that
a transcript tells exactly the registered steps depends on where in its step the child
is. `DInv` says, of every stored record, that its rounds and steps measure its depth
(`Measured`) and which of three forms its transcript may have (`Told`); that an execution
is pending only in the child being executed, or, between runs, in the one record a killed
run left (`Pending`); that what the loop holds is still to be planned, at the round that
is its depth (`Planned`); and what the parent being registered (`Registering`) and the
child being executed (`Growing`) have on disk at each point between two writes.

*Beam.* What the loop selects, and what it leaves behind. `SelectionIsFair` is a theorem about
`SelectCandidates` alone, for any trajectories of one depth: `Best(S, n)` takes those
candidates with fewer than `n` before them, so that it takes at most `n` depends on the
sort key being a strict total order on `S`. It is one because ids of one length that
differ are ordered one way or the other, and two candidates of one trajectory differ in
their place in its list. Whoever is not in the first slots can then be counted.

`NoParentIsDropped` (`Spec => []BeamKeepsEveryParent`) needs the loop around it. `BInv`,
inductive on top of `IInv` and `TInv`, says that all that is planned in one round is of
one depth (`OneDepth`), as `SelectionIsFair` requires; that what is kept, what is selected
and the child in execution together are no more than `MaxChild` (`Room`), so the next
round plans no more trajectories than it has slots; and hence that whoever has
suggestions has one selected until it is dispatched, and afterwards one left, a child, or
a record that says a fork failed (`Chances`). From the last follows that a parent is
stopped early only if its forks failed (`Stopped`).

`ParentsRankedByOwnStep` (`Spec => []RankedByOwnStep`) follows a score from the file to the
candidate: whatever may be planned has as its last judge record that of its own last
step (`Ranked`). A child inherits its parent's judge records, so this holds only once
its own is registered, before `FinalizeChild` can keep it, and that a step's number is
its child's depth comes from `DInv`.

`FinishedRunsAreSettled` (`Spec => []SettledWhenDone`) rests on all of these. `SInv`
compares disk and memory during a run: every running record is of a trajectory the loop
still remembers, the expanded ones are exactly those with children, but for the parent
being forked, and only the directory being filled has no record. With
`stop_unselected_trajectories` off, a parent none of whose suggestions was selected
would be forgotten while running; that there is none is `BInv`.

### `CheckpointingProofs`

`CheckpointsStaySound` (`Spec => []CheckpointsAreSound`) and `TrackerOnlyAdvances`
(`Spec => TrackerAdvances`), for any ranks, steps, frequencies, starts and kills,
under `Careful`: more than one checkpoint is kept (or all of them) and runs are started with
`resume_mode: auto`. Both are needed: keeping one is not safe (section 4), and a
`resume_path` may name an older step, after which the tracker goes back. The
invariant says which step may be saved when the tracker names which: a run is ahead
of what it resumed from, the paths rank 0 remembers ascend and end with the tracked
step or with what is being saved, so rotation never takes the tracked one; and what
each program counter of a save has already written.

`InterruptionsLeaveNoTrace` (`[]AsUninterrupted`) needs `Attainable` besides: the steps
asked for fit in the epochs, without which the data ends first and there is no last
step to save. A restart takes whatever a checkpoint holds, so `UInv` says of every file
on disk, whoever wrote it, that its weights and its place in the data are those of as
many steps as its folder is named for (`Alike`), the same of the memory of a run
(`Continued`: the place in the data is the number of steps modulo the steps of an
epoch, and a run never has more epochs behind it than its steps fill), and by how much the
steps of later runs may exceed those asked for (`Counted`, `Ended`). `RestartsRepeatLittle`
(`LossBounded`) needs that no multiple of `SaveFreq` has gone by without a checkpoint
(`Regular`), so that what was reached is never more than `SaveFreq` ahead of the tracker.
`RotationKeepsBounds` (`[]RotationBounds`) needs no assumption: what a run has written is
among the paths it remembers, or is the step being saved (`Known`), and a sequence has
no more elements than its length.

### `AgentWorkersProofs`

`StdoutStaysOwn` (`[]StdoutIsOwn`), `TokensAreConserved` and `StaysBalanced`, for any
workers, trajectories, threads and tokens. The invariant behind the first: whenever a
trajectory is anywhere in the pool, its worker's event loop waits for it, so no two
trajectories of a worker are in the pool together, whatever `num_workers` is. The
second needs that sets of running trajectories stay finite and gain or lose one
element (cardinality facts of the library), the third only that a server's count
grows when it is a minimum.

`SessionsStick` (`StickySession`) and `SessionsStaySound` (`[]SessionsAreSound`) are about the
LRU, for any number of servers and any cache size. `SessionInv` says that a worker's
LRU is a list of its own trajectories without repetition, no longer than the cache
(`Cached`); that whoever comes behind a trajectory in it has asked since that one did
(`Ordered`); and that a trajectory missing from it has been overtaken by as many
others as the cache has places (`Remembering`). The last is kept when the first of a full
list leaves: all others in it have asked since, and with the new one they are as many
as the cache has places, by counting a sequence without repetition.

### `HybridEngineProofs`

`TrainsOnPolicy` (`[]OnPolicy`), `EngineIsReady`, `MemoryStaysSound` and `DrawsAreOwn`,
for any replicas, steps and configurations, under `Frees`: every configuration has
`free_cache_engine` on. Finding 4 is why. The invariant has two halves: the *order* of
calls, namely which sequences `plan` may still hold (after `wake_up` comes `generate`,
then `sleep`; nothing that trains comes before a `sleep`), and what *workers* are like
during a call, for those that have answered it and those that have not: their mode,
what is in their memory, and whether their engine's weights are their actor's. The
second half of the module adds where in its two streams of random numbers every worker
is: what is stored continues where the last draw of that kind left off, so no number is
drawn twice.

### `RewardBatchingProofs`

`OwnScoreHolds` (`[]OwnScore`), `QueueStaysSound` (`[]QueueIsSound`) and `QuietBetween`
(`[]QuietBetweenCalls`), for any workers, prompts and configurations, failing agent
loops and batches included, from `RewardBatchingAssumption` alone. What an agent loop
gets and what the executor scored are related only through the reward actor: what the
executor holds of a worker is the call at the head of that worker's mailbox, in which
its actor is blocked, and it has no answer yet (`Held`); only that call may have been
answered, and every call in a mailbox is one whose loop waits for it (`Mail`). So the
executor holds one submission of a worker (`Apart`), a batch never answers a future
twice, and when every loop has returned there is nothing left to hold.

### `ToolAgentLoopProofs`

`MaskStaysAligned` (`[]MaskMarksGenerated`), `ImagesStayMatched` (`[]ImagesMatch`),
`InstancesAreReleased` (`[]InstancesReleased`) and `LimitsAlwaysHold` (`[]LimitsHold`), for
any prompt, response and text lengths, turn limits, tool outcomes and numbers of
concurrent calls, from `AgentAssumption` alone. The first is about positions counted
from the end of the token ids: `Growth` says that adding as much to the ids as to the
mask leaves what is there where it is. Padding the log probabilities only if there are
some is right because a tool's or a user's turn comes after an answer, so there are some
if the engine reports any (`Phase`). The second counts: placeholders and images grow by
the same number (`ImagesOf`), and no placeholder is put behind the end of the response,
so cutting the response loses none (`Pictures`). An instance belongs to a call between
its creation and its release (`Instances`), which a call that failed to create one
never is.

### `SftDataProofs` and `AlgorithmsProofs`

The invariants of `Algorithms` for inputs of any size. The specification's own invariant,
`Inputs`, only says what an input is; each property is proved for every input by a lemma
called `...Any`, which mentions no bound. What recursive functions return needs
induction, and the library's theorems of induction take an operator, which no installed
prover can instantiate. `Counting` and `Appending` state it over the members of a *set*
instead (the set of numbers, or of sequences, for which the claim holds), proved
from the library's least element of a well-founded order. From these follow the lemmas
of `SftDataProofs` on sums, flattened sequences, sequences put together from pieces,
and the insertion sort (the result is a permutation and sorted). Then:

* `ListIsRanking` (`[]ListMatchesRanking`), for any round of different trajectories of
  one depth. The sort key orders the candidates of a round strictly, so a sorted list
  has exactly one element per rank, and a slice of it is the set of those with
  fewer before them (`Best`).
* `Balancing` (`[]BalancingIsSound`), for any lengths and any number of partitions. All
  states in the heap divide the rows put into them, and in each no set is ahead of
  another by more than one row may be (`Divided`, `Within`). Merging the largest set of one
  state with the smallest of the other keeps that bound, because the difference of
  the two sums is between the larger of the two spreads and its negative. That the heap
  loses and repeats no row is its own invariant (`Heap`). `MicroBatchesFit` follows from
  the spread and the average.
* `RowsKept` (`[]RowsKeepTheirPrompt`). At every stage of a step the batch is the rows in
  some order (`HoldsRows`), each with its own columns; chunks followed by concatenation,
  dispatch followed by collection, and micro batches followed by restoring compose to
  that order or to the identity. Padding adds rows behind the last and cutting
  takes as many.
* `InStepInvariant` (`[]RanksInStep`), and `InStepAny` for any grid of ranks and any mini
  batch size: the number of micro batches is the maximum over the ranks, every rank
  splits its own mini batch into that many, and the ranks' shares are disjoint and
  complete.
* `BonusEarned` (`[]BonusIsEarned`): every term of `Reward` is a function of the rollout
  and of numbers counted over its group, and those numbers are kept by a bijection. A
  positive `Necessity` has rollouts without tools in its group, and fewer of them right
  than all, since the tool users' share is at most 1.
* `ToolsPay` (`[]ToolsPayWhenNeeded`), for any weights with `Alpha # 0`, without which what
  a tool pays has no weight: a needed transform raises `Mandatory` by its share
  (`NeededRaises`) and its group's bonus is not lowered, though the rollout is part of the
  averages; the runs it takes add at most themselves to the penalty, and nothing
  while they are free (`UsageGrows`). A turn without need raises nothing.
* `LabelsMatch` (`[]LabelsMatchTargets`) for any conversation, and `EncodeAny` for any
  options, prefix, cut-off length and rounding. `CutTo` is what `InferSeqlen` does to a
  turn: at least a token of its prompt, no more than the room, and less than the
  turn only if the room is used up. `RowOf` then says of every place in the row
  which token of which turn it holds and its label; order, completeness and
  labels are read off there.
* `RowsPacked` (`[]PackedApart`) for any dataset, and `RowsArePacked` for any lengths up to
  the cut-off. The knapsacks share out the sorted lengths (`FillAll` ends because each
  takes at least one), every length left when a sack is closed is larger than what remains
  in it, and `pop` gives each occurrence of a length an example of its own. `RowLaid` says
  what each place of a packed row holds.

`LabelsMatch` and `RowsPacked` assume `0 \notin Sides`: no prompt and no response is
empty, since both carry tokens of the chat template (and an empty prompt with
`efficient_eos` would get a label without a token). That `Length` and `Sides` are natural
numbers is `AlgorithmsAssumption`, and that scores are integers, compared and nothing
else, `SelectionListsAssumption`.

### Only model-checked

Every invariant and every action property that a passing run checks is also proved, some
under the assumptions named above (`Careful`, `Attainable`, `Frees`, `Alpha # 0`,
`0 \notin Sides`). Out of the prover's reach and left to TLC are the liveness properties,
which need fairness and `ENABLED`: `RunEnds` of `Orchestrator` and of `HybridEngine`,
`CallsEnd`, `LoopReturns`, `OthersFinish`, and the liveness part of `GetsOn` in
`Checkpointing`.

## 6. Not modelled

Most of the repository by lines is vendored: LLaMA-Factory (models, adapters, chat
templates, multimodal plugins, other objectives, a web interface and its
translations) and upstream verl (tensor programs, kernels, Megatron, other engines
and algorithms). It is numerical code, tables or user interface, whose state is
tensors or whose control is a library call; a model of it would be a transliteration.
The map therefore covers a small share of the lines, and nearly all of the control
this repository's programs have of their own. Within what is modelled:

* torn writes of the offline store: files are written in place (`core/models.py:94`);
  a crash inside one write leaves a JSON file that raises when loaded, and nothing
  recovers from it (in `Checkpointing` torn writes are modelled);
* two offline processes on the same sample at once: the code has no lock and does not
  claim to support it;
* the tool-use judge and the counters of `ToolAgentLoop` that only end in
  `extra_fields`; videos; SGLang as the engine, whose limit is one token lower
  than vLLM's;
* LoRA adapters, REMAX's second generation, the synchronous, colocated and standalone
  rollouts, Megatron in `HybridEngine`; HDFS copies, `del_local_ckpt_after_load` and the
  full Hugging Face model in `Checkpointing`; the state of a KL controller or a
  curriculum sampler, which no checkpoint holds;
* `roundup_divisible` with a virtual pipeline in `rearrange_micro_batches`;
* in `SftData`, that cutting a prompt may cut image placeholders while the images are
  kept, and PaliGemma's prefix, which `mask_history` puts last;
* model outputs as text, prompts, image contents, scores as floating point, among
  these the clamping of a score that is not a number (`judge_client.py`);
* what a second tool would add to the limiter: it has one name, so tools of one
  cluster share it with the rate of whoever created it first.
