---------------------------- MODULE HybridEngine ----------------------------
(***************************************************************************)
(* The hybrid engine (verl/workers/fsdp_workers.py, rollout_mode,          *)
(* trainer_mode and the calls of the actor; AgentLoopManager;              *)
(* vLLMReplica).  Training engine and rollout engine of a worker share a   *)
(* process, a GPU and its random state.  The trainer's loop is one call to *)
(* all workers after another; before a batch is generated every worker     *)
(* hands its weights to its rollout engine, afterwards the engine goes to  *)
(* sleep to make room for training.                                        *)
(***************************************************************************)
EXTENDS Integers, Sequences

CONSTANTS
  Replicas,  \* the sets of workers that make up one rollout replica each
  Configs,   \* configurations to run with
  TotalSteps \* training steps of a run

Workers == UNION Replicas

(* free: rollout.free_cache_engine; offload_param, offload_optimizer: of   *)
(* the actor; sleep_level: of the engine; dummy: rollout.load_format is    *)
(* "dummy"; start: the step of the checkpoint that is loaded, 0 for none.  *)
Config == [free : BOOLEAN, offload_param : BOOLEAN, offload_optimizer : BOOLEAN,
           sleep_level : {1, 2}, dummy : BOOLEAN, start : Nat]

ASSUME HybridEngineAssumption ==
  /\ \A r \in Replicas : r # {}
  /\ Configs \subseteq Config
  /\ TotalSteps \in Nat \ {0}

VARIABLES
  config,
  plan,   \* the calls the driver is still to make in this iteration
  call,   \* the one it is making
  todo,   \* workers that have not answered it
  step,   \* training steps begun
  mode,   \* mode[w]: where worker w is between trainer mode and rollout mode
  gpu,    \* gpu[w]: what is in its GPU memory
  actor,  \* actor[w]: version of the weights in its training engine
  engine, \* engine[w]: version of the weights in its rollout engine
  rng,    \* rng[w]: the random state of its device
  torch_random_states, gen_random_states,
  batch,  \* versions of the policy the last batch was sampled from
  draws   \* auxiliary: draws[w]: the random numbers w has used, and for what

random == <<rng, torch_random_states, gen_random_states>>
worker == <<mode, gpu, actor, engine, random>>
vars == <<config, plan, call, todo, step, worker, batch, draws>>

-----------------------------------------------------------------------------
Garbage == -1       \* weights that are random, or were discarded

(* A stream of random numbers and how many were drawn from it. *)
Stream(of, n) == [of |-> of, n |-> n]

Offloadable ==
  (IF config.offload_param THEN {"params"} ELSE {}) \cup
  (IF config.offload_optimizer THEN {"optimizer"} ELSE {})

(* What a call loads to the GPU, and what it takes down at its end.        *)
(* load_checkpoint creates the optimizer's state where the parameters are. *)
Loaded(c) == CASE c \in {"load", "update_actor"} -> {"params", "optimizer"}
               [] OTHER -> {"params"}
Bug_Unloaded(c) ==     \* load_checkpoint forgets the optimizer
  IF c = "update_actor" THEN Offloadable ELSE Offloadable \cap {"params"}
Unloaded(c) ==
  IF c \in {"load", "update_actor"} THEN Offloadable ELSE Offloadable \cap {"params"}

Generation == IF config.free THEN <<"wake_up", "generate", "sleep">> ELSE <<"generate">>

(* The calls of one iteration of fit: critic_warmup, test_freq and         *)
(* save_freq decide which of the last three are made.                      *)
When(condition, calls) == IF condition THEN calls ELSE <<>>
Bug_Iteration(update, validate, save) ==     \* log probabilities after the update
  Generation \o When(update, <<"update_actor">>) \o <<"log_prob">>
    \o When(validate, Generation) \o When(save, <<"save">>)
Iteration(update, validate, save) ==
  Generation \o <<"log_prob">> \o When(update, <<"update_actor">>)
    \o When(validate, Generation) \o When(save, <<"save">>)

(* Those before the first step. *)
FirstCalls(load, validate) ==
  <<"launch">> \o When(config.free, <<"sleep">>)
    \o When(load, <<"load">>) \o When(validate, Generation)

(* init_model has built the workers, with the training engine offloaded. *)
Init ==
  /\ config \in Configs
  /\ \E validate \in BOOLEAN : plan = FirstCalls(config.start > 0, validate)
  /\ call = "none" /\ todo = {} /\ step = 0 /\ batch = {}
  /\ draws = [w \in Workers |-> <<>>]
  /\ mode = [w \in Workers |-> "trainer"]
  /\ gpu = [w \in Workers |-> {"params", "optimizer"} \ Offloadable]
  /\ actor = [w \in Workers |-> 0]
  /\ engine = [w \in Workers |-> Garbage]
  /\ rng = [w \in Workers |-> Stream("trainer", 0)]
  /\ torch_random_states = rng
  /\ gen_random_states = [w \in Workers |-> Stream("rollout", 0)]

-----------------------------------------------------------------------------
(* The driver: fit, AgentLoopManager.__init__ and generate_sequences.  A   *)
(* call goes to all workers, the next one waits for all of them.           *)
Bug_Called(c) ==     \* only the first server of a wake_up
  IF c = "wake_up" THEN CHOOSE r \in Replicas : TRUE ELSE Workers
Called(c) == Workers

Bug_Answered == call # "wake_up" => todo = {}     \* wake_up is not waited for
Answered == todo = {}

Running == call \notin {"done", "raised"}

Call ==
  /\ Running /\ Answered /\ plan # <<>>
  /\ call' = Head(plan) /\ plan' = Tail(plan)
  /\ todo' = Called(call')
  /\ batch' = IF call' = "generate" THEN {} ELSE batch
  /\ UNCHANGED <<config, step, worker, draws>>

Bug_MoreSteps == step <= TotalSteps     \* one step too many
MoreSteps == step < TotalSteps

NextStep ==
  /\ Running /\ Answered /\ plan = <<>>
  /\ \/ /\ MoreSteps
        /\ step' = step + 1 /\ call' = "none"
        /\ \E update, validate, save \in BOOLEAN : plan' = Iteration(update, validate, save)
     \/ ~MoreSteps /\ call' = "done" /\ UNCHANGED <<step, plan>>
  /\ UNCHANGED <<config, todo, worker, batch, draws>>

(* Agent loops sample from the replicas; an exception of one of them ends  *)
(* generate_sequences, and fit, with the replicas awake.                   *)
Drawn(w) == [rng[w] EXCEPT !.n = @ + 1]

Draw(w, use) == Append(draws[w], [number |-> rng[w], use |-> use])

Sample(r) ==
  /\ call = "generate" /\ r \subseteq todo /\ todo' = todo \ r
  /\ batch' = batch \cup {engine[w] : w \in r}
  /\ rng' = [w \in Workers |-> IF w \in r THEN Drawn(w) ELSE rng[w]]
  /\ draws' = [w \in Workers |-> IF w \in r THEN Draw(w, "rollout") ELSE draws[w]]
  /\ UNCHANGED <<config, plan, call, step, mode, gpu, actor, engine,
                 torch_random_states, gen_random_states>>

AgentLoopFails ==
  /\ call = "generate" /\ call' = "raised"
  /\ UNCHANGED <<config, plan, todo, step, worker, batch, draws>>

-----------------------------------------------------------------------------
(* The answer of worker w to the driver's call. *)
Answer(w) == todo' = todo \ {w} /\ UNCHANGED <<config, plan, call, step, batch>>
Busy == UNCHANGED <<config, plan, call, todo, step, batch, draws>>

(* launch_servers: the engine loads the model and seeds the device. *)
Launch(w) ==
  /\ call = "launch" /\ w \in todo /\ Answer(w)
  /\ gpu' = [gpu EXCEPT ![w] = @ \cup {"weights", "kv_cache"}]
  /\ engine' = [engine EXCEPT ![w] = IF config.dummy THEN Garbage ELSE 0]
  /\ rng' = [rng EXCEPT ![w] = Stream("rollout", 0)]
  /\ mode' = [mode EXCEPT ![w] = "rollout"]
  /\ UNCHANGED <<actor, torch_random_states, gen_random_states, draws>>

(* rollout_mode collects the parameters, which it loads for a moment ...    *)
Collect(w) ==
  /\ call = "wake_up" /\ w \in todo /\ mode[w] = "trainer"
  /\ mode' = [mode EXCEPT ![w] = "collected"]
  /\ gpu' = [gpu EXCEPT ![w] = (@ \cup {"params"}) \ (Offloadable \cap {"params"})]
  /\ Busy /\ UNCHANGED <<actor, engine, random>>

(* ... makes room for the engine's weights ... *)
ResumeWeights(w) ==
  /\ mode[w] = "collected"
  /\ mode' = [mode EXCEPT ![w] = "weights"]
  /\ gpu' = [gpu EXCEPT ![w] = @ \cup {"weights"}]
  /\ Busy /\ UNCHANGED <<actor, engine, random>>

(* ... gathers the full tensors, which every worker has to take part in,   *)
(* and loads them ...                                                      *)
UpdateWeights(w) ==
  /\ mode[w] = "weights"
  /\ \A v \in Workers : mode[v] \in {"weights", "updated", "rollout"}
  /\ mode' = [mode EXCEPT ![w] = "updated"]
  /\ engine' = [engine EXCEPT ![w] = actor[w]]
  /\ Busy /\ UNCHANGED <<gpu, actor, random>>

(* ... and last the KV cache and the rollout's random state. *)
ResumeCache(w) ==
  /\ mode[w] = "updated" /\ Answer(w)
  /\ mode' = [mode EXCEPT ![w] = "rollout"]
  /\ gpu' = [gpu EXCEPT ![w] = @ \cup {"kv_cache"}]
  /\ torch_random_states' = [torch_random_states EXCEPT ![w] = rng[w]]
  /\ rng' = [rng EXCEPT ![w] = gen_random_states[w]]
  /\ UNCHANGED <<actor, engine, gen_random_states, draws>>

(* trainer_mode, when the replica's requests are drained. *)
Bug_Swapped(w) == gen_random_states[w]     \* not saved: starts over every time
Swapped(w) == rng[w]
Sleep(w) ==
  /\ call = "sleep" /\ w \in todo /\ Answer(w)
  /\ mode' = [mode EXCEPT ![w] = "trainer"]
  /\ gpu' = [gpu EXCEPT ![w] = @ \ {"weights", "kv_cache"}]
  /\ engine' = [engine EXCEPT ![w] = IF config.sleep_level = 2 THEN Garbage ELSE @]
  /\ gen_random_states' = [gen_random_states EXCEPT ![w] = Swapped(w)]
  /\ rng' = [rng EXCEPT ![w] = torch_random_states[w]]
  /\ UNCHANGED <<actor, torch_random_states, draws>>

-----------------------------------------------------------------------------
(* compute_log_prob, update_actor, save_checkpoint, load_checkpoint. *)
Computing == call \in {"log_prob", "update_actor", "save", "load"}

Begin(w) ==
  /\ Computing /\ w \in todo /\ mode[w] # "computing"
  /\ mode' = [mode EXCEPT ![w] = "computing"]
  /\ gpu' = [gpu EXCEPT ![w] = @ \cup Loaded(call)]
  /\ Busy /\ UNCHANGED <<actor, engine, random>>

End(w) ==
  /\ Computing /\ mode[w] = "computing" /\ Answer(w)
  /\ mode' = [mode EXCEPT ![w] = IF config.free THEN "trainer" ELSE "rollout"]
  /\ gpu' = [gpu EXCEPT ![w] = @ \ Unloaded(call)]
  /\ actor' = [actor EXCEPT ![w] = CASE call = "load" -> config.start
                                     [] call = "update_actor" -> @ + 1
                                     [] OTHER -> @]
  /\ rng' = [rng EXCEPT ![w] = CASE call = "load" -> Stream("trainer", config.start)
                                 [] call = "update_actor" -> Drawn(w)
                                 [] OTHER -> @]
  /\ draws' = IF call = "update_actor"
                THEN [draws EXCEPT ![w] = Draw(w, "trainer")] ELSE draws
  /\ UNCHANGED <<engine, torch_random_states, gen_random_states>>

Driver == Call \/ NextStep

Work(w) ==
  \/ Launch(w) \/ Collect(w) \/ ResumeWeights(w) \/ UpdateWeights(w)
  \/ ResumeCache(w) \/ Sleep(w) \/ Begin(w) \/ End(w)

Next ==
  \/ Driver \/ AgentLoopFails
  \/ \E w \in Workers : Work(w)
  \/ \E r \in Replicas : Sample(r)

Spec == Init /\ [][Next]_vars

(* The driver goes on, workers and replicas answer. *)
FairSpec ==
  /\ Spec /\ WF_vars(Driver)
  /\ \A w \in Workers : WF_vars(Work(w))
  /\ \A r \in Replicas : WF_vars(Sample(r))

-----------------------------------------------------------------------------
Calls == {"launch", "sleep", "load", "wake_up", "generate", "log_prob", "update_actor", "save"}
Version == {Garbage} \cup Nat
Number == [of : {"trainer", "rollout"}, n : Nat]

TypeOK ==
  /\ config \in Configs
  /\ plan \in Seq(Calls) /\ call \in Calls \cup {"none", "done", "raised"}
  /\ todo \subseteq Workers /\ step \in 0 .. TotalSteps
  /\ mode \in [Workers -> {"trainer", "collected", "weights", "updated", "rollout",
                           "computing"}]
  /\ gpu \in [Workers -> SUBSET {"params", "optimizer", "weights", "kv_cache"}]
  /\ actor \in [Workers -> Nat]
  /\ engine \in [Workers -> Version]
  /\ {rng, torch_random_states, gen_random_states} \subseteq [Workers -> Number]
  /\ batch \subseteq Version
  /\ draws \in [Workers -> Seq([number : Number, use : {"trainer", "rollout"}])]

(* `switch context with weight synchronization ... on-policy training'     *)
(* (verl/workers/rollout/replica.py): every worker computes log            *)
(* probabilities and updates with exactly the weights that all of the      *)
(* batch was sampled from.                                                 *)
OnPolicy ==
  call \in {"log_prob", "update_actor"} => \A w \in todo : batch = {actor[w]}

(* No request reaches a replica of which a worker is not awake with all it *)
(* needs in its memory.                                                    *)
EngineReady ==
  call = "generate" => \A w \in Workers :
    mode[w] = "rollout" /\ {"weights", "kv_cache"} \subseteq gpu[w]

(* What can be offloaded makes room: it is never in the GPU's memory       *)
(* together with the engine's KV cache, nor when a call has returned.      *)
GpuFits == \A w \in Workers : "kv_cache" \in gpu[w] => gpu[w] \cap Offloadable = {}
OffloadedAtRest ==
  call \in {"load", "log_prob", "update_actor", "save"} =>
    \A w \in Workers \ todo : gpu[w] \cap Offloadable = {}
MemoryIsSound == TypeOK /\ GpuFits /\ OffloadedAtRest

(* Training and rollout draw random numbers of their own, and none twice:  *)
(* a stream goes on where it was left.                                     *)
OwnRandom ==
  \A w \in Workers : \A i \in DOMAIN draws[w] :
    /\ draws[w][i].number.of = draws[w][i].use
    /\ \A j \in DOMAIN draws[w] : draws[w][i] = draws[w][j] => i = j

(* Every worker gets to the collective operation the others wait in: the   *)
(* run ends.                                                               *)
RunEnds == <>(call \in {"done", "raised"})
=============================================================================
