------------------------- MODULE HybridEngineProofs -------------------------
(***************************************************************************)
(* Theorems about the hybrid engine where it frees its memory, for any     *)
(* number of workers, replicas and steps: no request meets an engine that  *)
(* is not ready, training and KV cache are never in memory together,       *)
(* training is on the policy the batch was sampled from, and neither       *)
(* training nor rollout draws a random number twice.                       *)
(*                                                                         *)
(* The workers keep no rules between them: what call may come when is only *)
(* in the order in which fit makes its calls.  So the invariant speaks of  *)
(* the plan (Orderly, Samples), and then, for every call, of the mode,     *)
(* memory and weights of the workers that have answered it and of those    *)
(* that have not.                                                          *)
(***************************************************************************)
EXTENDS HybridEngine, SequenceTheorems, TLAPS

Frees == \A c \in Configs : c.free

(* After these the workers are in trainer mode. *)
Resting == {"none", "sleep", "load", "log_prob", "update_actor", "save"}

(* Call c may come directly after b. *)
Follows(b, c) ==
  /\ c = "sleep" => b \in {"launch", "generate"}
  /\ c = "generate" => b = "wake_up"
  /\ c \notin {"sleep", "generate"} => b \in Resting

(* What precedes the i-th of the calls p, which come after b. *)
Before(b, p, i) == IF i = 1 THEN b ELSE p[i - 1]

Orderly(b, p) ==
  /\ \A i \in 1 .. Len(p) : Follows(Before(b, p, i), p[i])
  /\ Before(b, p, Len(p) + 1) \in Resting

(* Log probabilities are asked for right after a batch was generated, and  *)
(* updates right after log probabilities.                                  *)
Samples(b, p) ==
  \A i \in 1 .. Len(p) :
    /\ p[i] = "log_prob" =>
         /\ Before(b, p, i) = "sleep"
         /\ i > 1 => Before(b, p, i - 1) = "generate"
    /\ p[i] = "update_actor" => Before(b, p, i) = "log_prob"

(* The last batch was sampled with the weights every worker has. *)
Sampled == \A w \in Workers : batch = {actor[w]}

Mode == {"trainer", "collected", "weights", "updated", "rollout", "computing"}

(* The variables these theorems are about. *)
Types ==
  /\ config \in Configs
  /\ plan \in Seq(Calls) /\ call \in Calls \cup {"none", "done", "raised"}
  /\ todo \subseteq Workers
  /\ mode \in [Workers -> Mode]
  /\ gpu \in [Workers -> SUBSET {"params", "optimizer", "weights", "kv_cache"}]
  /\ actor \in [Workers -> Nat]
  /\ engine \in [Workers -> Version]

Order ==
  Running =>
    /\ Orderly(call, plan) /\ Samples(call, plan)
    /\ plan # <<>> /\ plan[1] = "log_prob" => Sampled

(* Workers that have answered, and workers that have not. *)
Modes ==
  /\ call \in {"none", "done"} => todo = {}
  /\ call = "raised" => \A w \in Workers : mode[w] = "rollout"
  /\ \A w \in Workers \ todo :
       /\ call \in Resting \cup {"done"} => mode[w] = "trainer"
       /\ call \in {"launch", "wake_up", "generate"} => mode[w] = "rollout"
  /\ \A w \in todo :
       /\ call = "launch" => mode[w] = "trainer"
       /\ call \in {"sleep", "generate"} => mode[w] = "rollout"
       /\ call = "wake_up" => mode[w] \in {"trainer", "collected", "weights", "updated"}
       /\ Computing => mode[w] \in {"trainer", "computing"}

Memory ==
  \A w \in Workers :
    /\ mode[w] # "rollout" => "kv_cache" \notin gpu[w]
    /\ mode[w] \in {"weights", "updated", "rollout"} => "weights" \in gpu[w]
    /\ mode[w] = "rollout" => "kv_cache" \in gpu[w]
    /\ IF mode[w] = "computing" THEN gpu[w] \cap Offloadable \subseteq Loaded(call)
                                ELSE gpu[w] \cap Offloadable = {}

(* All workers have the same weights, but where only some of them have     *)
(* loaded or updated them.                                                 *)
Weights ==
  /\ \A v, w \in Workers :
       (call \in {"load", "update_actor"} => (v \in todo <=> w \in todo)) => actor[v] = actor[w]
  /\ call = "load" => \A w \in Workers \ todo : actor[w] = config.start
  /\ call = "update_actor" =>
       \A v \in todo, w \in Workers \ todo : actor[w] = actor[v] + 1
  /\ \A w \in Workers :
       /\ call = "wake_up" /\ mode[w] \in {"updated", "rollout"} => engine[w] = actor[w]
       /\ call = "generate" => /\ engine[w] = actor[w] /\ batch \subseteq {actor[w]}
                               /\ w \notin todo => batch = {actor[w]}
       /\ call = "log_prob" => batch = {actor[w]}
       /\ call = "update_actor" /\ w \in todo => batch = {actor[w]}

IInv == Types /\ Order /\ Modes /\ Memory /\ Weights

-----------------------------------------------------------------------------
(* The calls of an iteration, one by one: p[k] is the last before          *)
(* validation, p[m] the last before saving.                                *)
LEMMA IterationOrderly ==
  ASSUME config.free, NEW update \in BOOLEAN, NEW validate \in BOOLEAN, NEW save \in BOOLEAN,
         NEW p, p = Iteration(update, validate, save)
  PROVE  /\ p \in Seq(Calls) /\ Orderly("none", p) /\ Samples("none", p)
         /\ p[1] # "log_prob"
<1>. DEFINE k == 4 + (IF update THEN 1 ELSE 0)
            m == k + (IF validate THEN 3 ELSE 0)
<1>1. Generation = <<"wake_up", "generate", "sleep">>
  BY DEF Generation
<1>2. p \in Seq(Calls)
  <2>1. \A x \in BOOLEAN : \A s \in Seq(Calls) : When(x, s) \in Seq(Calls)
    BY DEF When
  <2>2. /\ <<"wake_up", "generate", "sleep">> \in Seq(Calls)
        /\ <<"log_prob">> \in Seq(Calls) /\ <<"update_actor">> \in Seq(Calls)
        /\ <<"save">> \in Seq(Calls)
    BY DEF Calls
  <2>3. \A s, t \in Seq(Calls) : s \o t \in Seq(Calls)
    OBVIOUS
  <2>. QED
    BY <1>1, <2>1, <2>2, <2>3 DEF Iteration
<1>3. Len(p) = m + (IF save THEN 1 ELSE 0)
  BY <1>1 DEF Iteration, When
<1>4. p[1] = "wake_up" /\ p[2] = "generate" /\ p[3] = "sleep" /\ p[4] = "log_prob"
  BY <1>1 DEF Iteration, When
<1>5. update => p[5] = "update_actor"
  BY <1>1 DEF Iteration, When
<1>6. validate => p[k + 1] = "wake_up" /\ p[k + 2] = "generate" /\ p[k + 3] = "sleep"
  BY <1>1 DEF Iteration, When
<1>7. save => p[m + 1] = "save"
  BY <1>1 DEF Iteration, When
<1>8. /\ k \in {4, 5} /\ (update => k = 5) /\ (~update => k = 4)
      /\ m \in {k, k + 3} /\ (validate => m = k + 3) /\ (~validate => m = k)
      /\ Len(p) \in {m, m + 1} /\ (save => Len(p) = m + 1) /\ (~save => Len(p) = m)
  BY <1>3
<1>. HIDE DEF k, m
<1>9. ASSUME NEW i \in 1 .. Len(p)
      PROVE  \/ i \in 1 .. 4
             \/ update /\ i = 5
             \/ validate /\ i \in k + 1 .. k + 3
             \/ save /\ i = m + 1
  BY <1>8
<1>10. p[k] \in {"log_prob", "update_actor"}
  BY <1>4, <1>5, <1>8
<1>11. p[m] \in Resting
  BY <1>6, <1>8, <1>10 DEF Resting
<1>12. Before("none", p, Len(p) + 1) \in Resting
  <2>1. Len(p) + 1 # 1 /\ Len(p) + 1 - 1 = Len(p)
    BY <1>8
  <2>2. p[Len(p)] \in Resting
    BY <1>7, <1>8, <1>11 DEF Resting
  <2>. QED
    BY <2>1, <2>2 DEF Before
<1>13. ASSUME NEW i \in 1 .. Len(p) PROVE Follows(Before("none", p, i), p[i])
  <2>1. CASE i \in 1 .. 4
    <3>1. i = 1 \/ i = 2 \/ i = 3 \/ i = 4
      BY <2>1
    <3>. QED
      BY <1>4, <3>1 DEF Before, Follows, Resting
  <2>2. CASE update /\ i = 5
    <3>1. i # 1 /\ i - 1 = 4
      BY <2>2
    <3>. QED
      BY <1>4, <1>5, <2>2, <3>1 DEF Before, Follows, Resting
  <2>3. CASE validate /\ i \in k + 1 .. k + 3
    <3>1. i = k + 1 \/ i = k + 2 \/ i = k + 3
      BY <1>8, <2>3
    <3>2. i # 1 /\ (i = k + 1 => i - 1 = k) /\ (i = k + 2 => i - 1 = k + 1)
          /\ (i = k + 3 => i - 1 = k + 2)
      BY <1>8, <3>1
    <3>. QED
      BY <1>6, <1>10, <2>3, <3>1, <3>2 DEF Before, Follows, Resting
  <2>4. CASE save /\ i = m + 1
    <3>1. i # 1 /\ i - 1 = m
      BY <1>8, <2>4
    <3>. QED
      BY <1>7, <1>11, <2>4, <3>1 DEF Before, Follows, Resting
  <2>. QED
    BY <1>9, <2>1, <2>2, <2>3, <2>4
<1>14. Samples("none", p)
  <2>1. ASSUME NEW i \in 1 .. Len(p), p[i] \in {"log_prob", "update_actor"}
        PROVE  (i = 4 /\ p[i] = "log_prob") \/ (update /\ i = 5 /\ p[i] = "update_actor")
    <3>1. CASE i \in 1 .. 4
      BY <1>4, <2>1, <3>1
    <3>2. CASE update /\ i = 5
      BY <1>5, <3>2
    <3>3. CASE validate /\ i \in k + 1 .. k + 3
      <4>1. i = k + 1 \/ i = k + 2 \/ i = k + 3
        BY <1>8, <3>3
      <4>. QED
        BY <1>6, <2>1, <3>3, <4>1
    <3>4. CASE save /\ i = m + 1
      BY <1>7, <2>1, <3>4
    <3>. QED
      BY <1>9, <3>1, <3>2, <3>3, <3>4
  <2>. QED
    BY <1>4, <2>1 DEF Samples, Before
<1>. QED
  BY <1>2, <1>4, <1>12, <1>13, <1>14 DEF Orderly

(* The calls before the first step. *)
LEMMA InitOrderly ==
  ASSUME config.free, NEW load \in BOOLEAN, NEW validate \in BOOLEAN,
         NEW p, p = FirstCalls(load, validate)
  PROVE  /\ p \in Seq(Calls) /\ Orderly("none", p) /\ Samples("none", p)
         /\ p[1] # "log_prob"
<1>. DEFINE k == 2 + (IF load THEN 1 ELSE 0)
<1>1. Generation = <<"wake_up", "generate", "sleep">>
  BY DEF Generation
<1>2. p \in Seq(Calls)
  <2>1. \A x \in BOOLEAN : \A s \in Seq(Calls) : When(x, s) \in Seq(Calls)
    BY DEF When
  <2>2. /\ <<"wake_up", "generate", "sleep">> \in Seq(Calls)
        /\ <<"launch">> \in Seq(Calls) /\ <<"sleep">> \in Seq(Calls)
        /\ <<"load">> \in Seq(Calls)
    BY DEF Calls
  <2>3. \A s, t \in Seq(Calls) : s \o t \in Seq(Calls)
    OBVIOUS
  <2>4. When(config.free, <<"sleep">>) \in Seq(Calls)
    BY <2>2 DEF When
  <2>. QED
    BY <1>1, <2>1, <2>2, <2>3, <2>4 DEF FirstCalls
<1>3. Len(p) = k + (IF validate THEN 3 ELSE 0)
  BY <1>1 DEF FirstCalls, When
<1>4. p[1] = "launch" /\ p[2] = "sleep"
  BY <1>1 DEF FirstCalls, When
<1>5. load => p[3] = "load"
  BY <1>1 DEF FirstCalls, When
<1>6. validate => p[k + 1] = "wake_up" /\ p[k + 2] = "generate" /\ p[k + 3] = "sleep"
  BY <1>1 DEF FirstCalls, When
<1>7. /\ k \in {2, 3} /\ (load => k = 3) /\ (~load => k = 2)
      /\ Len(p) \in {k, k + 3} /\ (validate => Len(p) = k + 3) /\ (~validate => Len(p) = k)
  BY <1>3
<1>. HIDE DEF k
<1>8. ASSUME NEW i \in 1 .. Len(p)
      PROVE  \/ i = 1 \/ i = 2
             \/ load /\ i = 3
             \/ validate /\ (i = k + 1 \/ i = k + 2 \/ i = k + 3)
  BY <1>7
<1>9. p[k] \in {"sleep", "load"}
  BY <1>4, <1>5, <1>7
<1>10. Before("none", p, Len(p) + 1) \in Resting
  <2>1. Len(p) + 1 # 1 /\ Len(p) + 1 - 1 = Len(p)
    BY <1>7
  <2>2. p[Len(p)] \in Resting
    BY <1>6, <1>7, <1>9 DEF Resting
  <2>. QED
    BY <2>1, <2>2 DEF Before
<1>11. ASSUME NEW i \in 1 .. Len(p)
       PROVE  /\ Follows(Before("none", p, i), p[i])
              /\ p[i] \notin {"log_prob", "update_actor"}
  <2>1. CASE i = 1
    BY <1>4, <2>1 DEF Before, Follows, Resting
  <2>2. CASE i = 2
    BY <1>4, <2>2 DEF Before, Follows, Resting
  <2>3. CASE load /\ i = 3
    <3>1. i # 1 /\ i - 1 = 2
      BY <2>3
    <3>. QED
      BY <1>4, <1>5, <2>3, <3>1 DEF Before, Follows, Resting
  <2>4. CASE validate /\ (i = k + 1 \/ i = k + 2 \/ i = k + 3)
    <3>1. i # 1 /\ (i = k + 1 => i - 1 = k) /\ (i = k + 2 => i - 1 = k + 1)
          /\ (i = k + 3 => i - 1 = k + 2)
      BY <1>7, <2>4
    <3>. QED
      BY <1>6, <1>9, <2>4, <3>1 DEF Before, Follows, Resting
  <2>. QED
    BY <1>8, <2>1, <2>2, <2>3, <2>4
<1>. QED
  BY <1>2, <1>4, <1>10, <1>11 DEF Orderly, Samples

(* The next call comes in order, and the rest of the plan after it. *)
LEMMA CallOrderly ==
  ASSUME NEW b, NEW p \in Seq(Calls), p # <<>>, Orderly(b, p), Samples(b, p)
  PROVE  /\ Head(p) \in Calls /\ Tail(p) \in Seq(Calls) /\ Head(p) = p[1]
         /\ Follows(b, Head(p))
         /\ Head(p) = "log_prob" => b = "sleep"
         /\ Head(p) = "update_actor" => b = "log_prob"
         /\ Orderly(Head(p), Tail(p)) /\ Samples(Head(p), Tail(p))
         /\ Tail(p) # <<>> /\ Tail(p)[1] = "log_prob" => Head(p) = "sleep" /\ b = "generate"
<1>. DEFINE h == Head(p)
            q == Tail(p)
<1>1. /\ h \in Calls /\ q \in Seq(Calls) /\ h = p[1]
      /\ Len(p) \in Nat /\ Len(p) > 0 /\ Len(q) = Len(p) - 1
      /\ \A i \in 1 .. Len(q) : q[i] = p[i + 1]
  OBVIOUS
<1>. HIDE DEF h, q
<1>2. ASSUME NEW i \in 1 .. Len(q) + 1 PROVE Before(h, q, i) = Before(b, p, i + 1)
  <2>1. i + 1 # 1 /\ i + 1 - 1 = i
    OBVIOUS
  <2>2. CASE i = 1
    BY <1>1, <2>2 DEF Before
  <2>3. CASE i # 1
    <3>1. i - 1 \in 1 .. Len(q) /\ i - 1 + 1 = i
      BY <1>1, <2>3
    <3>. QED
      BY <1>1, <2>1, <2>3, <3>1 DEF Before
  <2>. QED
    BY <2>2, <2>3
<1>3. ASSUME NEW i \in 1 .. Len(q) PROVE i + 1 \in 1 .. Len(p) /\ i \in 1 .. Len(q) + 1
  BY <1>1
<1>4. Orderly(h, q)
  <2>1. \A i \in 1 .. Len(q) : Follows(Before(h, q, i), q[i])
    BY <1>1, <1>2, <1>3 DEF Orderly
  <2>2. Len(q) + 1 \in 1 .. Len(q) + 1 /\ Len(q) + 1 = Len(p)
    BY <1>1
  <2>3. Before(h, q, Len(q) + 1) = Before(b, p, Len(p) + 1)
    BY <1>2, <2>2
  <2>. QED
    BY <2>1, <2>3 DEF Orderly
<1>5. Samples(h, q)
  <2>. SUFFICES ASSUME NEW i \in 1 .. Len(q)
                PROVE  /\ q[i] = "log_prob" =>
                            /\ Before(h, q, i) = "sleep"
                            /\ i > 1 => Before(h, q, i - 1) = "generate"
                       /\ q[i] = "update_actor" => Before(h, q, i) = "log_prob"
    BY DEF Samples
  <2>1. q[i] = p[i + 1] /\ Before(h, q, i) = Before(b, p, i + 1) /\ i + 1 \in 1 .. Len(p)
    BY <1>1, <1>2, <1>3
  <2>2. i + 1 > 1 /\ i + 1 - 1 = i
    OBVIOUS
  <2>3. i > 1 => Before(h, q, i - 1) = Before(b, p, i)
    <3>1. i > 1 => i - 1 \in 1 .. Len(q) + 1 /\ i - 1 + 1 = i
      BY <1>1
    <3>. QED
      BY <1>2, <3>1
  <2>. QED
    BY <2>1, <2>2, <2>3 DEF Samples
<1>6. 1 \in 1 .. Len(p) /\ Before(b, p, 1) = b
  BY <1>1 DEF Before
<1>7. /\ Follows(b, h) /\ (h = "log_prob" => b = "sleep")
      /\ h = "update_actor" => b = "log_prob"
  BY <1>1, <1>6 DEF Orderly, Samples
<1>8. q # <<>> /\ q[1] = "log_prob" => h = "sleep" /\ b = "generate"
  <2>. SUFFICES ASSUME q # <<>>, q[1] = "log_prob" PROVE h = "sleep" /\ b = "generate"
    OBVIOUS
  <2>1. 1 \in 1 .. Len(q)
    BY <1>1
  <2>2. p[2] = "log_prob" /\ 2 \in 1 .. Len(p) /\ 2 > 1
    BY <1>1, <1>3, <2>1
  <2>3. Before(b, p, 2) = p[1] /\ Before(b, p, 2 - 1) = b
    BY DEF Before
  <2>. QED
    BY <1>1, <2>2, <2>3 DEF Samples
<1>. QED
  BY <1>1, <1>4, <1>5, <1>7, <1>8 DEF h, q

-----------------------------------------------------------------------------
LEMMA ConfigType ==
  ASSUME Frees, config \in Configs
  PROVE  config.free /\ config.start \in Nat
BY HybridEngineAssumption DEF Frees, Config

LEMMA InitInv ==
  ASSUME Frees, Init
  PROVE  IInv
<1>1. config \in Configs /\ config.free /\ config.start \in Nat
  BY ConfigType DEF Init
<1>2. /\ plan \in Seq(Calls) /\ Orderly("none", plan) /\ Samples("none", plan)
      /\ plan[1] # "log_prob"
  <2>1. PICK validate \in BOOLEAN : plan = FirstCalls(config.start > 0, validate)
    BY DEF Init
  <2>2. (config.start > 0) \in BOOLEAN
    BY <1>1
  <2>. QED
    BY <1>1, <2>1, <2>2, InitOrderly
<1>3. /\ call = "none" /\ todo = {}
      /\ mode = [w \in Workers |-> "trainer"]
      /\ gpu = [w \in Workers |-> {"params", "optimizer"} \ Offloadable]
      /\ actor = [w \in Workers |-> 0] /\ engine = [w \in Workers |-> Garbage]
  BY DEF Init
<1>4. Types
  BY <1>1, <1>2, <1>3 DEF Types, Mode, Version
<1>5. Order
  BY <1>2, <1>3 DEF Order
<1>6. Modes
  BY <1>3 DEF Modes, Computing
<1>7. Memory
  BY <1>3 DEF Memory
<1>8. Weights
  BY <1>3 DEF Weights
<1>. QED
  BY <1>4, <1>5, <1>6, <1>7, <1>8 DEF IInv

(* While only workers move, the order of the calls is what it was. *)
LEMMA OrderKept ==
  ASSUME Order, call' = call, plan' = plan,
         plan # <<>> /\ plan[1] = "log_prob" => batch' = batch /\ actor' = actor
  PROVE  Order'
BY DEF Order, Running, Orderly, Samples, Sampled, Before, Follows

(* When all workers have answered, they are all in the same mode, with the *)
(* same weights.                                                           *)
LEMMA AllAnswered ==
  ASSUME IInv, todo = {}
  PROVE  /\ \A v, w \in Workers : actor[v] = actor[w]
         /\ call \in Resting \cup {"done"} => \A w \in Workers : mode[w] = "trainer"
         /\ call \in {"launch", "wake_up", "generate"} => \A w \in Workers : mode[w] = "rollout"
BY DEF IInv, Modes, Weights

LEMMA CallInv ==
  ASSUME Frees, IInv, Call
  PROVE  IInv'
<1>1. /\ plan \in Seq(Calls) /\ plan # <<>> /\ Orderly(call, plan) /\ Samples(call, plan)
      /\ plan[1] = "log_prob" => Sampled
  BY DEF IInv, Call, Types, Order
<1>2. /\ call' = Head(plan) /\ plan' = Tail(plan) /\ todo = {} /\ todo' = Workers
      /\ batch' = IF call' = "generate" THEN {} ELSE batch
      /\ UNCHANGED <<config, mode, gpu, actor, engine>>
  BY DEF Call, Called, Answered, worker
<1>3. /\ call' \in Calls /\ plan' \in Seq(Calls) /\ call' = plan[1]
      /\ Follows(call, call')
      /\ call' = "log_prob" => call = "sleep"
      /\ call' = "update_actor" => call = "log_prob"
      /\ Orderly(call', plan') /\ Samples(call', plan')
      /\ plan' # <<>> /\ plan'[1] = "log_prob" => call' = "sleep" /\ call = "generate"
  BY <1>1, <1>2, CallOrderly
<1>4. Types'
  BY <1>2, <1>3 DEF IInv, Types
<1>5. Order'
  <2>1. plan' # <<>> /\ plan'[1] = "log_prob" => Sampled'
    BY <1>2, <1>3 DEF IInv, Weights, Sampled
  <2>2. Orderly(call, plan)' /\ Samples(call, plan)'
    BY <1>3 DEF Orderly, Samples, Before, Follows
  <2>. QED
    BY <2>1, <2>2 DEF Order
<1>6. Modes'
  <2>1. call' \in {"sleep"} => \A w \in Workers : mode[w] = "rollout"
    BY <1>2, <1>3, AllAnswered DEF Follows
  <2>2. call' = "generate" => \A w \in Workers : mode[w] = "rollout"
    BY <1>2, <1>3, AllAnswered DEF Follows
  <2>3. call' \notin {"sleep", "generate"} => \A w \in Workers : mode[w] = "trainer"
    BY <1>2, <1>3, AllAnswered DEF Follows
  <2>. QED
    BY <1>2, <1>3, <2>1, <2>2, <2>3 DEF Modes, Computing, Calls
<1>7. Memory'
  <2>1. \A w \in Workers : mode[w] # "computing"
    <3>1. call \in Resting \/ call \in {"launch", "wake_up", "generate"}
      BY <1>2, <1>3 DEF Follows
    <3>. QED
      BY <1>2, <3>1, AllAnswered
  <2>2. Offloadable' = Offloadable
    BY <1>2 DEF Offloadable
  <2>. QED
    BY <1>2, <2>1, <2>2 DEF IInv, Memory
<1>8. Weights'
  <2>1. \A v, w \in Workers : actor[v] = actor[w]
    BY <1>2, AllAnswered
  <2>2. call' = "wake_up" => \A w \in Workers : mode[w] = "trainer"
    BY <1>2, <1>3, AllAnswered DEF Follows
  <2>3. call' = "generate" => batch' = {} /\ \A w \in Workers : engine[w] = actor[w]
    <3>. SUFFICES ASSUME call' = "generate" PROVE \A w \in Workers : engine[w] = actor[w]
      BY <1>2
    <3>1. call = "wake_up"
      BY <1>3 DEF Follows
    <3>2. \A w \in Workers : mode[w] = "rollout"
      BY <1>2, <3>1, AllAnswered
    <3>. QED
      BY <3>1, <3>2 DEF IInv, Weights
  <2>4. call' = "log_prob" => \A w \in Workers : batch' = {actor[w]}
    BY <1>1, <1>2, <1>3 DEF Sampled
  <2>5. call' = "update_actor" => \A w \in Workers : batch' = {actor[w]}
    BY <1>2, <1>3 DEF IInv, Weights
  <2>. QED
    BY <1>2, <2>1, <2>2, <2>3, <2>4, <2>5 DEF Weights
<1>. QED
  BY <1>4, <1>5, <1>6, <1>7, <1>8 DEF IInv

LEMMA NextStepInv ==
  ASSUME Frees, IInv, NextStep
  PROVE  IInv'
<1>1. /\ plan = <<>> /\ todo = {} /\ todo' = {} /\ Running
      /\ UNCHANGED <<config, batch, mode, gpu, actor, engine>>
  BY DEF NextStep, Answered, worker
<1>2. call \in Resting
  <2>1. Orderly(call, plan)
    BY <1>1 DEF IInv, Order
  <2>2. Len(plan) = 0
    BY <1>1
  <2>3. Before(call, plan, 0 + 1) \in Resting
    BY <2>1, <2>2 DEF Orderly
  <2>. QED
    BY <2>3 DEF Before
<1>3. \/ /\ call' = "none" /\ plan' \in Seq(Calls)
         /\ Orderly("none", plan') /\ Samples("none", plan') /\ plan'[1] # "log_prob"
      \/ call' = "done" /\ plan' = plan
  <2>1. config.free
    BY ConfigType DEF IInv, Types
  <2>2. CASE call' = "none" /\ \E update, validate, save \in BOOLEAN :
                                  plan' = Iteration(update, validate, save)
    BY <2>1, <2>2, IterationOrderly
  <2>3. CASE call' = "done" /\ plan' = plan
    BY <2>3
  <2>. QED
    BY <2>2, <2>3 DEF NextStep
<1>4. \A w \in Workers : mode[w] = "trainer"
  BY <1>1, <1>2, AllAnswered
<1>5. \A v, w \in Workers : actor[v] = actor[w]
  BY <1>1, AllAnswered
<1>6. Types'
  BY <1>1, <1>3 DEF IInv, Types
<1>7. Order'
  <2>1. CASE call' = "done"
    BY <2>1 DEF Order, Running
  <2>2. CASE call' = "none" /\ Orderly("none", plan') /\ Samples("none", plan')
             /\ plan'[1] # "log_prob"
    <3>1. Orderly(call, plan)' /\ Samples(call, plan)'
      BY <2>2 DEF Orderly, Samples, Before, Follows
    <3>. QED
      BY <2>2, <3>1 DEF Order
  <2>. QED
    BY <1>3, <2>1, <2>2
<1>8. Modes'
  BY <1>1, <1>3, <1>4 DEF Modes, Computing
<1>9. Memory'
  <2>1. Offloadable' = Offloadable
    BY <1>1 DEF Offloadable
  <2>. QED
    BY <1>1, <1>4, <2>1 DEF IInv, Memory
<1>10. Weights'
  BY <1>1, <1>3, <1>4, <1>5 DEF Weights
<1>. QED
  BY <1>6, <1>7, <1>8, <1>9, <1>10 DEF IInv

LEMMA SampleInv ==
  ASSUME Frees, IInv, NEW r \in Replicas, Sample(r)
  PROVE  IInv'
<1>1. /\ call = "generate" /\ r \subseteq todo /\ todo' = todo \ r
      /\ batch' = batch \cup {engine[w] : w \in r}
      /\ UNCHANGED <<config, plan, call, mode, gpu, actor, engine>>
  BY DEF Sample
<1>2. PICK u : u \in r
  BY HybridEngineAssumption
<1>3. Types'
  BY <1>1 DEF IInv, Types
<1>4. Order'
  <2>1. ~(plan # <<>> /\ plan[1] = "log_prob")
    <3>. SUFFICES ASSUME plan # <<>>, plan[1] = "log_prob" PROVE FALSE
      OBVIOUS
    <3>1. plan \in Seq(Calls) /\ Orderly(call, plan) /\ Samples(call, plan)
      BY <1>1 DEF IInv, Types, Order, Running
    <3>2. Head(plan) = "log_prob" => call = "sleep"
      BY <3>1, CallOrderly
    <3>3. Head(plan) = plan[1]
      BY <3>1, CallOrderly
    <3>. QED
      BY <1>1, <3>2, <3>3
  <2>. QED
    BY <1>1, <2>1, OrderKept DEF IInv
<1>5. Modes'
  BY <1>1 DEF IInv, Modes, Computing, Resting
<1>6. Memory'
  <2>1. Offloadable' = Offloadable
    BY <1>1 DEF Offloadable
  <2>. QED
    BY <1>1, <2>1 DEF IInv, Memory
<1>7. Weights'
  <2>1. \A v, w \in Workers : actor[v] = actor[w]
    BY <1>1 DEF IInv, Weights
  <2>2. u \in Workers /\ \A v \in r : v \in Workers
    BY <1>1, <1>2 DEF IInv, Types
  <2>3. \A w \in Workers : engine[w] = actor[w] /\ batch \subseteq {actor[w]}
                             /\ (w \notin todo => batch = {actor[w]})
    BY <1>1 DEF IInv, Weights
  <2>4. \A w \in Workers : {engine[v] : v \in r} = {actor[w]}
    BY <1>2, <2>1, <2>2, <2>3
  <2>5. \A w \in Workers : batch' = {actor[w]}
    BY <1>1, <2>3, <2>4
  <2>. QED
    BY <1>1, <2>1, <2>3, <2>5 DEF Weights
<1>. QED
  BY <1>3, <1>4, <1>5, <1>6, <1>7 DEF IInv

LEMMA AgentLoopFailsInv ==
  ASSUME Frees, IInv, AgentLoopFails
  PROVE  IInv'
<1>1. /\ call = "generate" /\ call' = "raised"
      /\ UNCHANGED <<config, plan, todo, batch, mode, gpu, actor, engine>>
  BY DEF AgentLoopFails, worker
<1>2. \A w \in Workers : mode[w] = "rollout"
  BY <1>1 DEF IInv, Modes
<1>3. Types' /\ Order'
  BY <1>1 DEF IInv, Types, Order, Running
<1>4. Modes'
  BY <1>1, <1>2 DEF Modes, Computing, Resting
<1>5. Memory'
  <2>1. Offloadable' = Offloadable
    BY <1>1 DEF Offloadable
  <2>. QED
    BY <1>1, <1>2, <2>1 DEF IInv, Memory
<1>6. Weights'
  BY <1>1 DEF IInv, Weights
<1>. QED
  BY <1>3, <1>4, <1>5, <1>6 DEF IInv

-----------------------------------------------------------------------------
(* A worker is between its two modes only in the call that takes it there. *)
LEMMA ModeOfCall ==
  ASSUME IInv, NEW w \in Workers
  PROVE  /\ mode[w] \in {"collected", "weights", "updated"} => call = "wake_up" /\ w \in todo
         /\ mode[w] = "computing" => Computing /\ w \in todo
BY DEF IInv, Types, Modes, Computing, Resting, Calls

LEMMA LaunchInv ==
  ASSUME Frees, IInv, NEW w \in Workers, Launch(w)
  PROVE  IInv'
<1>1. /\ call = "launch" /\ w \in todo /\ todo' = todo \ {w}
      /\ gpu' = [gpu EXCEPT ![w] = @ \cup {"weights", "kv_cache"}]
      /\ engine' = [engine EXCEPT ![w] = IF config.dummy THEN Garbage ELSE 0]
      /\ mode' = [mode EXCEPT ![w] = "rollout"]
      /\ UNCHANGED <<config, plan, call, batch, actor>>
  BY DEF Launch, Answer
<1>2. mode[w] = "trainer"
  BY <1>1 DEF IInv, Modes
<1>3. Types'
  BY <1>1 DEF IInv, Types, Version, Mode
<1>4. Order'
  BY <1>1, OrderKept DEF IInv
<1>5. Modes'
  BY <1>1 DEF IInv, Types, Modes, Computing, Resting
<1>6. Memory'
  <2>1. Offloadable' = Offloadable /\ Offloadable \cap {"weights", "kv_cache"} = {}
    BY <1>1 DEF Offloadable
  <2>2. /\ gpu'[w] = gpu[w] \cup {"weights", "kv_cache"} /\ mode'[w] = "rollout"
        /\ \A v \in Workers \ {w} : gpu'[v] = gpu[v] /\ mode'[v] = mode[v]
    BY <1>1 DEF IInv, Types
  <2>3. gpu[w] \cap Offloadable = {}
    BY <1>2 DEF IInv, Memory
  <2>. QED
    BY <1>1, <2>1, <2>2, <2>3 DEF IInv, Memory
<1>7. Weights'
  BY <1>1 DEF IInv, Weights
<1>. QED
  BY <1>3, <1>4, <1>5, <1>6, <1>7 DEF IInv

LEMMA CollectInv ==
  ASSUME Frees, IInv, NEW w \in Workers, Collect(w)
  PROVE  IInv'
<1>1. /\ call = "wake_up" /\ w \in todo /\ mode[w] = "trainer"
      /\ mode' = [mode EXCEPT ![w] = "collected"]
      /\ gpu' = [gpu EXCEPT ![w] = (@ \cup {"params"}) \ (Offloadable \cap {"params"})]
      /\ UNCHANGED <<config, plan, call, todo, batch, actor, engine>>
  BY DEF Collect, Busy
<1>2. Types'
  BY <1>1 DEF IInv, Types, Mode
<1>3. Order'
  BY <1>1, OrderKept DEF IInv
<1>4. Modes'
  BY <1>1 DEF IInv, Types, Modes, Computing, Resting
<1>5. Memory'
  <2>1. Offloadable' = Offloadable
    BY <1>1 DEF Offloadable
  <2>2. /\ gpu'[w] = (gpu[w] \cup {"params"}) \ (Offloadable \cap {"params"})
        /\ mode'[w] = "collected"
        /\ \A v \in Workers \ {w} : gpu'[v] = gpu[v] /\ mode'[v] = mode[v]
    BY <1>1 DEF IInv, Types
  <2>3. gpu[w] \cap Offloadable = {} /\ "kv_cache" \notin gpu[w]
    BY <1>1 DEF IInv, Memory
  <2>4. gpu'[w] \cap Offloadable = {} /\ "kv_cache" \notin gpu'[w]
    BY <2>2, <2>3
  <2>. QED
    BY <1>1, <2>1, <2>2, <2>4 DEF IInv, Memory
<1>6. Weights'
  BY <1>1 DEF IInv, Types, Weights
<1>. QED
  BY <1>2, <1>3, <1>4, <1>5, <1>6 DEF IInv

LEMMA ResumeWeightsInv ==
  ASSUME Frees, IInv, NEW w \in Workers, ResumeWeights(w)
  PROVE  IInv'
<1>1. /\ mode[w] = "collected" /\ mode' = [mode EXCEPT ![w] = "weights"]
      /\ gpu' = [gpu EXCEPT ![w] = @ \cup {"weights"}]
      /\ UNCHANGED <<config, plan, call, todo, batch, actor, engine>>
  BY DEF ResumeWeights, Busy
<1>2. call = "wake_up" /\ w \in todo
  BY <1>1, ModeOfCall
<1>3. Types'
  BY <1>1 DEF IInv, Types, Mode
<1>4. Order'
  BY <1>1, OrderKept DEF IInv
<1>5. Modes'
  BY <1>1, <1>2 DEF IInv, Types, Modes, Computing, Resting
<1>6. Memory'
  <2>1. Offloadable' = Offloadable /\ "weights" \notin Offloadable
    BY <1>1 DEF Offloadable
  <2>2. /\ gpu'[w] = gpu[w] \cup {"weights"} /\ mode'[w] = "weights"
        /\ \A v \in Workers \ {w} : gpu'[v] = gpu[v] /\ mode'[v] = mode[v]
    BY <1>1 DEF IInv, Types
  <2>3. gpu[w] \cap Offloadable = {} /\ "kv_cache" \notin gpu[w]
    BY <1>1 DEF IInv, Memory
  <2>4. gpu'[w] \cap Offloadable = {} /\ "kv_cache" \notin gpu'[w]
    BY <2>1, <2>2, <2>3
  <2>. QED
    BY <1>1, <2>1, <2>2, <2>4 DEF IInv, Memory
<1>7. Weights'
  BY <1>1, <1>2 DEF IInv, Types, Weights
<1>. QED
  BY <1>3, <1>4, <1>5, <1>6, <1>7 DEF IInv

LEMMA UpdateWeightsInv ==
  ASSUME Frees, IInv, NEW w \in Workers, UpdateWeights(w)
  PROVE  IInv'
<1>1. /\ mode[w] = "weights" /\ mode' = [mode EXCEPT ![w] = "updated"]
      /\ engine' = [engine EXCEPT ![w] = actor[w]]
      /\ UNCHANGED <<config, plan, call, todo, batch, gpu, actor>>
  BY DEF UpdateWeights, Busy
<1>2. call = "wake_up" /\ w \in todo
  BY <1>1, ModeOfCall
<1>3. Types'
  BY <1>1 DEF IInv, Types, Mode, Version
<1>4. Order'
  BY <1>1, OrderKept DEF IInv
<1>5. Modes'
  BY <1>1, <1>2 DEF IInv, Types, Modes, Computing, Resting
<1>6. Memory'
  <2>1. Offloadable' = Offloadable
    BY <1>1 DEF Offloadable
  <2>2. mode'[w] = "updated" /\ \A v \in Workers \ {w} : mode'[v] = mode[v]
    BY <1>1 DEF IInv, Types
  <2>. QED
    BY <1>1, <2>1, <2>2 DEF IInv, Memory
<1>7. Weights'
  <2>1. /\ mode'[w] = "updated" /\ engine'[w] = actor[w]
        /\ \A v \in Workers \ {w} : mode'[v] = mode[v] /\ engine'[v] = engine[v]
    BY <1>1 DEF IInv, Types
  <2>. QED
    BY <1>1, <1>2, <2>1 DEF IInv, Weights
<1>. QED
  BY <1>3, <1>4, <1>5, <1>6, <1>7 DEF IInv

LEMMA ResumeCacheInv ==
  ASSUME Frees, IInv, NEW w \in Workers, ResumeCache(w)
  PROVE  IInv'
<1>1. /\ mode[w] = "updated" /\ todo' = todo \ {w}
      /\ mode' = [mode EXCEPT ![w] = "rollout"]
      /\ gpu' = [gpu EXCEPT ![w] = @ \cup {"kv_cache"}]
      /\ UNCHANGED <<config, plan, call, batch, actor, engine>>
  BY DEF ResumeCache, Answer
<1>2. call = "wake_up" /\ w \in todo
  BY <1>1, ModeOfCall
<1>3. Types'
  BY <1>1 DEF IInv, Types, Mode
<1>4. Order'
  BY <1>1, OrderKept DEF IInv
<1>5. Modes'
  BY <1>1, <1>2 DEF IInv, Types, Modes, Computing, Resting
<1>6. Memory'
  <2>1. Offloadable' = Offloadable /\ "kv_cache" \notin Offloadable
    BY <1>1 DEF Offloadable
  <2>2. /\ gpu'[w] = gpu[w] \cup {"kv_cache"} /\ mode'[w] = "rollout"
        /\ \A v \in Workers \ {w} : gpu'[v] = gpu[v] /\ mode'[v] = mode[v]
    BY <1>1 DEF IInv, Types
  <2>3. gpu[w] \cap Offloadable = {} /\ "weights" \in gpu[w]
    BY <1>1 DEF IInv, Memory
  <2>4. gpu'[w] \cap Offloadable = {} /\ {"weights", "kv_cache"} \subseteq gpu'[w]
    BY <2>1, <2>2, <2>3
  <2>. QED
    BY <1>1, <2>1, <2>2, <2>4 DEF IInv, Memory
<1>7. Weights'
  <2>1. mode'[w] = "rollout" /\ \A v \in Workers \ {w} : mode'[v] = mode[v]
    BY <1>1 DEF IInv, Types
  <2>. QED
    BY <1>1, <1>2, <2>1 DEF IInv, Weights
<1>. QED
  BY <1>3, <1>4, <1>5, <1>6, <1>7 DEF IInv

LEMMA SleepInv ==
  ASSUME Frees, IInv, NEW w \in Workers, Sleep(w)
  PROVE  IInv'
<1>1. /\ call = "sleep" /\ w \in todo /\ todo' = todo \ {w}
      /\ mode' = [mode EXCEPT ![w] = "trainer"]
      /\ gpu' = [gpu EXCEPT ![w] = @ \ {"weights", "kv_cache"}]
      /\ engine' = [engine EXCEPT ![w] = IF config.sleep_level = 2 THEN Garbage ELSE @]
      /\ UNCHANGED <<config, plan, call, batch, actor>>
  BY DEF Sleep, Answer
<1>2. mode[w] = "rollout"
  BY <1>1 DEF IInv, Modes
<1>3. Types'
  <2>1. engine' \in [Workers -> Version]
    BY <1>1 DEF IInv, Types, Version
  <2>. QED
    BY <1>1, <2>1 DEF IInv, Types, Mode
<1>4. Order'
  BY <1>1, OrderKept DEF IInv
<1>5. Modes'
  BY <1>1 DEF IInv, Types, Modes, Computing, Resting
<1>6. Memory'
  <2>1. Offloadable' = Offloadable
    BY <1>1 DEF Offloadable
  <2>2. /\ gpu'[w] = gpu[w] \ {"weights", "kv_cache"} /\ mode'[w] = "trainer"
        /\ \A v \in Workers \ {w} : gpu'[v] = gpu[v] /\ mode'[v] = mode[v]
    BY <1>1 DEF IInv, Types
  <2>3. gpu[w] \cap Offloadable = {}
    BY <1>2 DEF IInv, Memory
  <2>4. gpu'[w] \cap Offloadable = {} /\ "kv_cache" \notin gpu'[w]
    BY <2>2, <2>3
  <2>. QED
    BY <1>1, <2>1, <2>2, <2>4 DEF IInv, Memory
<1>7. Weights'
  BY <1>1 DEF IInv, Weights
<1>. QED
  BY <1>3, <1>4, <1>5, <1>6, <1>7 DEF IInv

LEMMA BeginInv ==
  ASSUME Frees, IInv, NEW w \in Workers, Begin(w)
  PROVE  IInv'
<1>1. /\ Computing /\ w \in todo /\ mode[w] # "computing"
      /\ mode' = [mode EXCEPT ![w] = "computing"]
      /\ gpu' = [gpu EXCEPT ![w] = @ \cup Loaded(call)]
      /\ UNCHANGED <<config, plan, call, todo, batch, actor, engine>>
  BY DEF Begin, Busy
<1>2. mode[w] = "trainer"
  BY <1>1 DEF IInv, Modes
<1>3. Loaded(call) \subseteq {"params", "optimizer"} /\ Loaded(call)' = Loaded(call)
  BY <1>1 DEF Loaded
<1>4. Types'
  BY <1>1, <1>3 DEF IInv, Types, Mode
<1>5. Order'
  BY <1>1, OrderKept DEF IInv
<1>6. Modes'
  BY <1>1 DEF IInv, Types, Modes, Computing, Resting
<1>7. Memory'
  <2>1. Offloadable' = Offloadable
    BY <1>1 DEF Offloadable
  <2>2. /\ gpu'[w] = gpu[w] \cup Loaded(call) /\ mode'[w] = "computing"
        /\ \A v \in Workers \ {w} : gpu'[v] = gpu[v] /\ mode'[v] = mode[v]
    BY <1>1 DEF IInv, Types
  <2>3. gpu[w] \cap Offloadable = {} /\ "kv_cache" \notin gpu[w]
    BY <1>2 DEF IInv, Memory
  <2>4. gpu'[w] \cap Offloadable \subseteq Loaded(call) /\ "kv_cache" \notin gpu'[w]
    BY <1>3, <2>2, <2>3
  <2>. QED
    BY <1>1, <1>3, <2>1, <2>2, <2>4 DEF IInv, Memory
<1>8. Weights'
  BY <1>1 DEF IInv, Types, Weights, Computing
<1>. QED
  BY <1>4, <1>5, <1>6, <1>7, <1>8 DEF IInv

LEMMA EndInv ==
  ASSUME Frees, IInv, NEW w \in Workers, End(w)
  PROVE  IInv'
<1>1. /\ Computing /\ mode[w] = "computing" /\ todo' = todo \ {w}
      /\ gpu' = [gpu EXCEPT ![w] = @ \ Unloaded(call)]
      /\ actor' = [actor EXCEPT ![w] = CASE call = "load" -> config.start
                                         [] call = "update_actor" -> @ + 1
                                         [] OTHER -> @]
      /\ UNCHANGED <<config, plan, call, batch, engine>>
  BY DEF End, Answer
<1>2. config.start \in Nat /\ mode' = [mode EXCEPT ![w] = "trainer"]
  BY ConfigType DEF IInv, Types, End
<1>3. w \in todo
  BY <1>1, ModeOfCall
<1>4. /\ actor'[w] = CASE call = "load" -> config.start
                         [] call = "update_actor" -> actor[w] + 1
                         [] OTHER -> actor[w]
      /\ \A v \in Workers \ {w} : actor'[v] = actor[v]
  BY <1>1 DEF IInv, Types
<1>5. Types'
  <2>1. actor' \in [Workers -> Nat]
    BY <1>1, <1>2, <1>4 DEF IInv, Types
  <2>. QED
    BY <1>1, <1>2, <2>1 DEF IInv, Types, Mode
<1>6. Order'
  <2>1. CASE call \in {"load", "update_actor"}
    <3>1. plan \in Seq(Calls) /\ (plan # <<>> => Orderly(call, plan) /\ Samples(call, plan))
      BY <2>1 DEF IInv, Types, Order, Running
    <3>2. ~(plan # <<>> /\ plan[1] = "log_prob")
      BY <2>1, <3>1, CallOrderly
    <3>. QED
      BY <1>1, <3>2, OrderKept DEF IInv
  <2>2. CASE call \notin {"load", "update_actor"}
    <3>1. actor' = actor
      BY <1>1, <2>2 DEF IInv, Types
    <3>. QED
      BY <1>1, <3>1, OrderKept DEF IInv
  <2>. QED
    BY <2>1, <2>2
<1>7. Modes'
  BY <1>1, <1>2 DEF IInv, Types, Modes, Computing, Resting
<1>8. Memory'
  <2>1. Offloadable' = Offloadable
    BY <1>1 DEF Offloadable
  <2>2. /\ gpu'[w] = gpu[w] \ Unloaded(call) /\ mode'[w] = "trainer"
        /\ \A v \in Workers \ {w} : gpu'[v] = gpu[v] /\ mode'[v] = mode[v]
    BY <1>1, <1>2 DEF IInv, Types
  <2>3. gpu[w] \cap Offloadable \subseteq Loaded(call) /\ "kv_cache" \notin gpu[w]
    BY <1>1 DEF IInv, Memory
  <2>4. Offloadable \cap Loaded(call) \subseteq Unloaded(call)
    BY DEF Offloadable, Loaded, Unloaded
  <2>5. gpu'[w] \cap Offloadable = {} /\ "kv_cache" \notin gpu'[w]
    BY <2>2, <2>3, <2>4
  <2>6. Loaded(call)' = Loaded(call)
    BY <1>1 DEF Loaded
  <2>. QED
    BY <1>1, <2>1, <2>2, <2>5, <2>6 DEF IInv, Memory
<1>9. Weights'
  <2>1. CASE call = "load"
    <3>1. \A v \in Workers \ todo' : actor'[v] = config.start
      BY <1>1, <1>4, <2>1 DEF IInv, Weights
    <3>2. \A v, u \in Workers : (v \in todo' <=> u \in todo') => actor'[v] = actor'[u]
      BY <1>1, <1>3, <1>4, <2>1, <3>1 DEF IInv, Weights
    <3>. QED
      BY <1>1, <2>1, <3>1, <3>2 DEF Weights
  <2>2. CASE call = "update_actor"
    <3>1. \A v \in Workers : actor[v] \in Nat
      BY DEF IInv, Types
    <3>2. todo \subseteq Workers
      BY DEF IInv, Types
    <3>3. \A v, u \in Workers : (v \in todo <=> u \in todo) => actor[v] = actor[u]
      BY <2>2 DEF IInv, Weights
    <3>4. \A v \in todo, u \in Workers \ todo : actor[u] = actor[v] + 1
      BY <2>2 DEF IInv, Weights
    <3>5. actor'[w] = actor[w] + 1
      BY <1>4, <2>2
    <3>6. \A v \in todo', u \in Workers \ todo' : actor'[u] = actor'[v] + 1
      BY <1>1, <1>3, <1>4, <3>2, <3>3, <3>4, <3>5
    <3>7. \A v, u \in Workers : (v \in todo' <=> u \in todo') => actor'[v] = actor'[u]
      BY <1>1, <1>3, <1>4, <3>3, <3>4, <3>5
    <3>8. \A v \in todo' : batch' = {actor'[v]}
      BY <1>1, <1>4, <2>2, <3>2 DEF IInv, Weights
    <3>. QED
      BY <1>1, <2>2, <3>6, <3>7, <3>8 DEF Weights
  <2>3. CASE call \in {"log_prob", "save"}
    <3>1. actor' = actor
      BY <1>1, <2>3 DEF IInv, Types
    <3>. QED
      BY <1>1, <2>3, <3>1 DEF IInv, Weights
  <2>. QED
    BY <1>1, <2>1, <2>2, <2>3 DEF Computing
<1>. QED
  BY <1>5, <1>6, <1>7, <1>8, <1>9 DEF IInv

-----------------------------------------------------------------------------
(* The order of the calls, the modes, the memory and the weights that go   *)
(* with it hold in every state of a run that frees the engine's memory.    *)
THEOREM InductiveInvariant ==
  ASSUME Frees
  PROVE  Spec => []IInv
<1>1. Init => IInv
  BY InitInv
<1>2. IInv /\ [Next]_vars => IInv'
  <2>. SUFFICES ASSUME IInv, [Next]_vars PROVE IInv'
    OBVIOUS
  <2>1. CASE Driver
    BY <2>1, CallInv, NextStepInv DEF Driver
  <2>2. CASE AgentLoopFails
    BY <2>2, AgentLoopFailsInv
  <2>3. ASSUME NEW w \in Workers, Work(w) PROVE IInv'
    BY <2>3, LaunchInv, CollectInv, ResumeWeightsInv, UpdateWeightsInv, ResumeCacheInv,
       SleepInv, BeginInv, EndInv DEF Work
  <2>4. ASSUME NEW r \in Replicas, Sample(r) PROVE IInv'
    BY <2>4, SampleInv
  <2>5. CASE UNCHANGED vars
    <3>1. UNCHANGED <<config, plan, call, todo, mode, gpu, actor, engine, batch>>
      BY <2>5 DEF vars, worker
    <3>2. Types' /\ Order'
      BY <3>1, OrderKept DEF IInv, Types
    <3>3. Modes'
      BY <3>1 DEF IInv, Modes, Computing
    <3>4. Memory'
      BY <3>1 DEF IInv, Memory, Offloadable, Loaded
    <3>5. Weights'
      BY <3>1 DEF IInv, Weights
    <3>. QED
      BY <3>2, <3>3, <3>4, <3>5 DEF IInv
  <2>. QED
    BY <2>1, <2>2, <2>3, <2>4, <2>5 DEF Next
<1>. QED
  BY <1>1, <1>2, PTL DEF Spec

(* Every worker computes log probabilities and updates with exactly the    *)
(* weights that all of the batch was sampled from.                         *)
THEOREM TrainsOnPolicy ==
  ASSUME Frees
  PROVE  Spec => []OnPolicy
<1>1. IInv => OnPolicy
  BY DEF IInv, Types, Weights, OnPolicy
<1>. QED
  BY <1>1, InductiveInvariant, PTL

(* Whatever is generated, every worker of every replica is awake with its  *)
(* weights and its KV cache in memory.                                     *)
THEOREM EngineIsReady ==
  ASSUME Frees
  PROVE  Spec => []EngineReady
<1>1. IInv => EngineReady
  <2>. SUFFICES ASSUME IInv, call = "generate", NEW w \in Workers
                PROVE  mode[w] = "rollout" /\ {"weights", "kv_cache"} \subseteq gpu[w]
    BY DEF EngineReady
  <2>1. mode[w] = "rollout"
    BY DEF IInv, Modes
  <2>2. "weights" \in gpu[w] /\ "kv_cache" \in gpu[w]
    BY <2>1 DEF IInv, Memory
  <2>. QED
    BY <2>1, <2>2
<1>. QED
  BY <1>1, InductiveInvariant, PTL

(* What is offloaded is never in memory together with the KV cache.        *)
THEOREM MemoryFits ==
  ASSUME Frees
  PROVE  Spec => []GpuFits
<1>1. IInv => GpuFits
  <2>. SUFFICES ASSUME IInv, NEW w \in Workers, "kv_cache" \in gpu[w]
                PROVE  gpu[w] \cap Offloadable = {}
    BY DEF GpuFits
  <2>1. mode[w] = "rollout"
    BY DEF IInv, Memory
  <2>. QED
    BY <2>1 DEF IInv, Memory
<1>. QED
  BY <1>1, InductiveInvariant, PTL

(* A worker that has answered a computation has offloaded all it should.   *)
THEOREM RestsOffloaded ==
  ASSUME Frees
  PROVE  Spec => []OffloadedAtRest
<1>1. IInv => OffloadedAtRest
  <2>. SUFFICES ASSUME IInv, call \in {"load", "log_prob", "update_actor", "save"},
                       NEW w \in Workers \ todo
                PROVE  gpu[w] \cap Offloadable = {}
    BY DEF OffloadedAtRest
  <2>1. mode[w] = "trainer"
    BY DEF IInv, Modes, Resting
  <2>. QED
    BY <2>1 DEF IInv, Memory
<1>. QED
  BY <1>1, InductiveInvariant, PTL
-----------------------------------------------------------------------------
(* Random numbers, for any number of workers, replicas and steps: training *)
(* and rollout each have a stream of their own and never draw a number     *)
(* twice.                                                                  *)
(*                                                                         *)
(* Where a stream is depends on the mode: in the device while its side is  *)
(* at work, in torch_random_states or gen_random_states otherwise. The     *)
(* invariant follows the two streams, Train and Roll, and bounds what was  *)
(* drawn by them. Only launch_servers and load_checkpoint set a stream     *)
(* back; they come before anything is drawn from it (Starts).              *)

Train(w) == IF mode[w] = "rollout" THEN torch_random_states[w] ELSE rng[w]
Roll(w) == IF mode[w] = "rollout" THEN rng[w] ELSE gen_random_states[w]

Draws == [number : Number, use : {"trainer", "rollout"}]

RandomTypes ==
  /\ step \in 0 .. TotalSteps
  /\ rng \in [Workers -> Number]
  /\ torch_random_states \in [Workers -> Number]
  /\ gen_random_states \in [Workers -> Number]
  /\ batch \subseteq Version
  /\ draws \in [Workers -> Seq(Draws)]

(* What a worker has drawn is behind the two streams, and all different.   *)
Behind(d, t, r) ==
  d.number.of = d.use /\ d.number.n < IF d.use = "trainer" THEN t ELSE r
Streams(w) ==
  /\ Train(w).of = "trainer" /\ Roll(w).of = "rollout"
  /\ \A i \in 1 .. Len(draws[w]) : Behind(draws[w][i], Train(w).n, Roll(w).n)
  /\ \A i, j \in 1 .. Len(draws[w]) : draws[w][i] = draws[w][j] => i = j

Planned(c) == \E i \in 1 .. Len(plan) : plan[i] = c
Undrawn == \A w \in Workers : draws[w] = <<>>

Starts ==
  /\ \A w \in Workers : torch_random_states[w].of = "trainer"
  /\ call = "launch" => Undrawn
  /\ \A i \in 1 .. Len(plan) : plan[i] = "launch" => i = 1 /\ call = "none" /\ Undrawn
  /\ call = "load" \/ Planned("load") => step = 0
  /\ step = 0 =>
       /\ call # "update_actor" /\ ~Planned("update_actor")
       /\ \A w \in Workers : \A i \in 1 .. Len(draws[w]) : draws[w][i].use = "rollout"

RInv == RandomTypes /\ Starts /\ \A w \in Workers : Streams(w)

-----------------------------------------------------------------------------
(* What a step can do to the streams of one worker: nothing, ...           *)
LEMMA StreamsKept ==
  ASSUME NEW w \in Workers, Streams(w),
         Train(w)' = Train(w), Roll(w)' = Roll(w), draws'[w] = draws[w]
  PROVE  Streams(w)'
BY DEF Streams

(* ... draw from one of the two, ...                                       *)
LEMMA StreamsDrawn ==
  ASSUME RandomTypes, NEW w \in Workers, Streams(w), NEW use \in {"trainer", "rollout"},
         NEW t \in Number, t = Train(w), NEW r \in Number, r = Roll(w),
         NEW d, d = [number |-> IF use = "trainer" THEN t ELSE r, use |-> use],
         Train(w)' = IF use = "trainer" THEN [t EXCEPT !.n = @ + 1] ELSE t,
         Roll(w)' = IF use = "rollout" THEN [r EXCEPT !.n = @ + 1] ELSE r,
         draws'[w] = Append(draws[w], d)
  PROVE  Streams(w)'
<1>1. PICK s \in Seq(Draws) : s = draws[w]
  BY DEF RandomTypes
<1>2. d \in Draws
  BY DEF Draws
<1>3. /\ Len(draws'[w]) = Len(s) + 1 /\ draws'[w][Len(s) + 1] = d
      /\ \A i \in 1 .. Len(s) : draws'[w][i] = s[i]
      /\ Len(s) \in Nat /\ \A i \in 1 .. Len(s) : s[i] \in Draws
  BY <1>1, <1>2
<1>4. PICK tn \in Nat, rn \in Nat : tn = Train(w)'.n /\ rn = Roll(w)'.n
  BY DEF Number
<1>5. /\ t.n \in Nat /\ r.n \in Nat /\ t.n <= tn /\ r.n <= rn
      /\ d.number.n < IF use = "trainer" THEN tn ELSE rn
      /\ d.number.n = IF use = "trainer" THEN t.n ELSE r.n
  BY <1>4 DEF Number
<1>6. Train(w)'.of = "trainer" /\ Roll(w)'.of = "rollout" /\ d.number.of = use /\ d.use = use
  BY DEF Number, Streams
<1>7. \A i \in 1 .. Len(s) : Behind(s[i], t.n, r.n)
  BY <1>1 DEF Streams
<1>8. \A i \in 1 .. Len(s) : Behind(s[i], tn, rn)
  <2>. TAKE i \in 1 .. Len(s)
  <2>1. s[i].number.n \in Nat
    BY <1>3 DEF Draws, Number
  <2>. QED
    BY <1>5, <1>7, <2>1 DEF Behind
<1>9. \A i \in 1 .. Len(s) : s[i] # d
  <2>. SUFFICES ASSUME NEW i \in 1 .. Len(s), s[i] = d PROVE FALSE
    OBVIOUS
  <2>1. Behind(d, t.n, r.n)
    BY <1>7
  <2>. QED
    BY <1>5, <1>6, <2>1 DEF Behind
<1>10. Behind(d, tn, rn)
  BY <1>5, <1>6 DEF Behind
<1>11. \A i \in 1 .. Len(draws'[w]) : Behind(draws'[w][i], tn, rn)
  <2>. TAKE i \in 1 .. Len(draws'[w])
  <2>1. i \in 1 .. Len(s) \/ i = Len(s) + 1
    BY <1>3
  <2>. QED
    BY <1>3, <1>8, <1>10, <2>1
<1>12. \A i, j \in 1 .. Len(draws'[w]) : draws'[w][i] = draws'[w][j] => i = j
  <2>. TAKE i, j \in 1 .. Len(draws'[w])
  <2>1. (i \in 1 .. Len(s) \/ i = Len(s) + 1) /\ (j \in 1 .. Len(s) \/ j = Len(s) + 1)
    BY <1>3
  <2>2. \A k, l \in 1 .. Len(s) : s[k] = s[l] => k = l
    BY <1>1 DEF Streams
  <2>. QED
    BY <1>3, <1>9, <2>1, <2>2
<1>. QED
  BY <1>4, <1>6, <1>11, <1>12 DEF Streams

(* ... or, before training has drawn anything, set its stream back.        *)
LEMMA StreamsReset ==
  ASSUME NEW w \in Workers, Streams(w), NEW n \in Nat,
         Train(w)' = Stream("trainer", n), Roll(w)' = Roll(w), draws'[w] = draws[w],
         \A i \in 1 .. Len(draws[w]) : draws[w][i].use = "rollout"
  PROVE  Streams(w)'
<1>1. Train(w)'.of = "trainer"
  BY DEF Stream
<1>2. \A i \in 1 .. Len(draws[w]) : Behind(draws[w][i], Train(w)'.n, Roll(w)'.n)
  BY DEF Streams, Behind
<1>. QED
  BY <1>1, <1>2 DEF Streams
-----------------------------------------------------------------------------
(* Servers are launched once, and first; a checkpoint is loaded only then. *)
LEMMA InitialPlan ==
  ASSUME NEW load \in BOOLEAN, NEW validate \in BOOLEAN, NEW p, p = FirstCalls(load, validate)
  PROVE  \A i \in 1 .. Len(p) : p[i] # "update_actor" /\ (p[i] = "launch" => i = 1)
<1>. DEFINE S == {"sleep", "load", "wake_up", "generate"}
            q == When(config.free, <<"sleep">>)
                   \o When(load, <<"load">>) \o When(validate, Generation)
<1>1. q \in Seq(S)
  <2>1. \A x : \A s \in Seq(S) : When(x, s) \in Seq(S)
    BY DEF When
  <2>2. /\ <<"sleep">> \in Seq(S) /\ <<"load">> \in Seq(S)
        /\ <<"wake_up", "generate", "sleep">> \in Seq(S) /\ <<"generate">> \in Seq(S)
    OBVIOUS
  <2>3. Generation \in Seq(S)
    BY <2>2 DEF Generation
  <2>4. \A s, t \in Seq(S) : s \o t \in Seq(S)
    OBVIOUS
  <2>. QED
    BY <2>1, <2>2, <2>3, <2>4
<1>2. p = <<"launch">> \o q
  <2>1. \A x : \A s \in Seq(S) : When(x, s) \in Seq(S)
    BY DEF When
  <2>2. /\ <<"sleep">> \in Seq(S) /\ <<"load">> \in Seq(S)
        /\ <<"wake_up", "generate", "sleep">> \in Seq(S) /\ <<"generate">> \in Seq(S)
    OBVIOUS
  <2>3. /\ When(config.free, <<"sleep">>) \in Seq(S) /\ When(load, <<"load">>) \in Seq(S)
        /\ When(validate, Generation) \in Seq(S)
    BY <2>1, <2>2 DEF Generation
  <2>4. \A a, b, c \in Seq(S) : ((<<"launch">> \o a) \o b) \o c = <<"launch">> \o ((a \o b) \o c)
    OBVIOUS
  <2>. QED
    BY <2>3, <2>4 DEF FirstCalls
<1>. HIDE DEF q
<1>3. /\ Len(q) \in Nat /\ Len(p) = Len(q) + 1 /\ p[1] = "launch"
      /\ \A i \in 1 .. Len(q) : p[i + 1] = q[i] /\ q[i] \in S
  BY <1>1, <1>2
<1>4. ASSUME NEW i \in 1 .. Len(p), i # 1 PROVE p[i] \in S
  <2>1. i - 1 \in 1 .. Len(q) /\ i - 1 + 1 = i
    BY <1>3, <1>4
  <2>. QED
    BY <1>3, <2>1
<1>. QED
  BY <1>3, <1>4

LEMMA IterationPlan ==
  ASSUME NEW update \in BOOLEAN, NEW validate \in BOOLEAN, NEW save \in BOOLEAN,
         NEW p, p = Iteration(update, validate, save)
  PROVE  \A i \in 1 .. Len(p) : p[i] \notin {"launch", "load"}
<1>. DEFINE S == {"sleep", "wake_up", "generate", "log_prob", "update_actor", "save"}
<1>1. \A x : \A s \in Seq(S) : When(x, s) \in Seq(S)
  BY DEF When
<1>2. /\ <<"log_prob">> \in Seq(S) /\ <<"update_actor">> \in Seq(S) /\ <<"save">> \in Seq(S)
      /\ <<"wake_up", "generate", "sleep">> \in Seq(S) /\ <<"generate">> \in Seq(S)
  OBVIOUS
<1>3. Generation \in Seq(S)
  BY <1>2 DEF Generation
<1>4. \A s, t \in Seq(S) : s \o t \in Seq(S)
  OBVIOUS
<1>5. p \in Seq(S)
  <2>1. /\ When(update, <<"update_actor">>) \in Seq(S) /\ When(save, <<"save">>) \in Seq(S)
        /\ When(validate, Generation) \in Seq(S)
    BY <1>1, <1>2, <1>3
  <2>. QED
    BY <1>2, <1>3, <1>4, <2>1 DEF Iteration
<1>. QED
  BY <1>5

-----------------------------------------------------------------------------
LEMMA RandomInit ==
  ASSUME Init
  PROVE  RInv
<1>1. /\ call = "none" /\ step = 0 /\ batch = {} /\ draws = [w \in Workers |-> <<>>]
      /\ mode = [w \in Workers |-> "trainer"]
      /\ rng = [w \in Workers |-> Stream("trainer", 0)]
      /\ torch_random_states = rng
      /\ gen_random_states = [w \in Workers |-> Stream("rollout", 0)]
  BY DEF Init
<1>2. /\ Stream("trainer", 0) \in Number /\ Stream("rollout", 0) \in Number
      /\ Stream("trainer", 0).of = "trainer" /\ Stream("rollout", 0).of = "rollout"
  BY DEF Stream, Number
<1>3. \A i \in 1 .. Len(plan) : plan[i] # "update_actor" /\ (plan[i] = "launch" => i = 1)
  <2>1. PICK validate \in BOOLEAN : plan = FirstCalls(config.start > 0, validate)
    BY DEF Init
  <2>2. (config.start > 0) \in BOOLEAN
    BY HybridEngineAssumption DEF Init, Config
  <2>. QED
    BY <2>1, <2>2, InitialPlan
<1>4. RandomTypes
  <2>1. draws \in [Workers -> Seq(Draws)]
    BY <1>1
  <2>2. step \in 0 .. TotalSteps /\ batch \subseteq Version
    BY <1>1, HybridEngineAssumption
  <2>. QED
    BY <1>1, <1>2, <2>1, <2>2 DEF RandomTypes
<1>5. Starts
  BY <1>1, <1>2, <1>3 DEF Starts, Undrawn, Planned
<1>6. \A w \in Workers : Streams(w)
  BY <1>1, <1>2 DEF Streams, Train, Roll
<1>. QED
  BY <1>4, <1>5, <1>6 DEF RInv

LEMMA DrawnType ==
  ASSUME RandomTypes, NEW w \in Workers
  PROVE  /\ rng[w] \in Number /\ Drawn(w) \in Number
         /\ Drawn(w) = [rng[w] EXCEPT !.n = @ + 1]
<1>1. rng[w] \in Number
  BY DEF RandomTypes
<1>2. rng[w].n + 1 \in Nat
  BY <1>1 DEF Number
<1>3. [rng[w] EXCEPT !.n = rng[w].n + 1] \in Number
  BY <1>1, <1>2 DEF Number
<1>. QED
  BY <1>1, <1>3 DEF Drawn

(* While workers switch between their modes, nothing else changes. *)
LEMMA StartsKept ==
  ASSUME Starts, call' = call, plan' = plan, step' = step, draws' = draws,
         \A w \in Workers : torch_random_states'[w].of = "trainer"
  PROVE  Starts'
BY DEF Starts, Undrawn, Planned

LEMMA CallRandom ==
  ASSUME IInv, RInv, Call
  PROVE  RInv'
<1>1. /\ plan \in Seq(Calls) /\ plan # <<>> /\ call' = Head(plan) /\ plan' = Tail(plan)
      /\ batch' \in {{}, batch}
      /\ UNCHANGED <<step, mode, rng, torch_random_states, gen_random_states, draws>>
  BY DEF Call, worker, random, IInv, Types
<1>2. /\ call' = plan[1] /\ 1 \in 1 .. Len(plan)
      /\ \A i \in 1 .. Len(plan') : i \in Nat /\ i + 1 \in 1 .. Len(plan) /\ i + 1 # 1
                                   /\ plan'[i] = plan[i + 1]
  BY <1>1
<1>3. RandomTypes'
  BY <1>1 DEF RInv, RandomTypes
<1>4. Starts'
  <2>1. /\ call' = "launch" => Undrawn
        /\ \A i \in 1 .. Len(plan') : plan'[i] # "launch"
    BY <1>2 DEF RInv, Starts
  <2>2. \A c : call' = c \/ Planned(c)' => Planned(c)
    BY <1>2 DEF Planned
  <2>3. Undrawn' = Undrawn
    BY <1>1 DEF Undrawn
  <2>4. call' = "load" \/ Planned("load")' => step = 0
    BY <2>2 DEF RInv, Starts
  <2>5. step = 0 => call' # "update_actor" /\ ~Planned("update_actor")'
    BY <2>2 DEF RInv, Starts
  <2>. QED
    BY <1>1, <2>1, <2>3, <2>4, <2>5 DEF RInv, Starts
<1>5. \A w \in Workers : Streams(w)'
  BY <1>1, StreamsKept DEF RInv, Train, Roll
<1>. QED
  BY <1>3, <1>4, <1>5 DEF RInv

LEMMA NextStepRandom ==
  ASSUME IInv, RInv, NextStep
  PROVE  RInv'
<1>1. /\ plan = <<>> /\ Running
      /\ UNCHANGED <<mode, rng, torch_random_states, gen_random_states, batch, draws>>
  BY DEF NextStep, worker, random
<1>2. \/ /\ step < TotalSteps /\ step' = step + 1 /\ call' = "none"
         /\ \A i \in 1 .. Len(plan') : plan'[i] \notin {"launch", "load"}
      \/ call' = "done" /\ step' = step /\ plan' = plan
  BY IterationPlan DEF NextStep, MoreSteps
<1>3. step \in Nat /\ TotalSteps \in Nat
  BY HybridEngineAssumption DEF RInv, RandomTypes
<1>4. RandomTypes'
  BY <1>1, <1>2, <1>3 DEF RInv, RandomTypes
<1>5. Starts'
  <2>1. CASE step' = step + 1 /\ call' = "none"
             /\ \A i \in 1 .. Len(plan') : plan'[i] \notin {"launch", "load"}
    <3>1. step' # 0 /\ ~Planned("load")'
      BY <1>3, <2>1 DEF Planned
    <3>. QED
      BY <1>1, <2>1, <3>1 DEF RInv, Starts
  <2>2. CASE call' = "done" /\ step' = step /\ plan' = plan
    BY <1>1, <2>2 DEF RInv, Starts, Planned, Undrawn
  <2>. QED
    BY <1>2, <2>1, <2>2
<1>6. \A w \in Workers : Streams(w)'
  BY <1>1, StreamsKept DEF RInv, Train, Roll
<1>. QED
  BY <1>4, <1>5, <1>6 DEF RInv

LEMMA SampleRandom ==
  ASSUME IInv, RInv, NEW r \in Replicas, Sample(r)
  PROVE  RInv'
<1>1. /\ call = "generate" /\ r \subseteq todo /\ r \subseteq Workers
      /\ batch' = batch \cup {engine[w] : w \in r}
      /\ rng' = [w \in Workers |-> IF w \in r THEN Drawn(w) ELSE rng[w]]
      /\ draws' = [w \in Workers |-> IF w \in r THEN Draw(w, "rollout") ELSE draws[w]]
      /\ UNCHANGED <<plan, call, step, mode, torch_random_states, gen_random_states>>
  BY DEF Sample, IInv, Types
<1>2. \A w \in Workers : rng[w] \in Number /\ Drawn(w) \in Number
                         /\ Drawn(w) = [rng[w] EXCEPT !.n = @ + 1]
  BY DrawnType DEF RInv
<1>3. ASSUME NEW w \in Workers
      PROVE  /\ Draw(w, "rollout") \in Seq(Draws)
             /\ draws[w] \in Seq(Draws)
             /\ Draw(w, "rollout") = Append(draws[w], [number |-> rng[w], use |-> "rollout"])
  <2>1. [number |-> rng[w], use |-> "rollout"] \in Draws
    BY <1>2 DEF Draws
  <2>. QED
    BY <2>1 DEF RInv, RandomTypes, Draw
<1>4. RandomTypes'
  <2>1. batch' \subseteq Version
    BY <1>1 DEF RInv, RandomTypes, IInv, Types
  <2>2. rng' \in [Workers -> Number]
    BY <1>1, <1>2
  <2>3. draws' \in [Workers -> Seq(Draws)]
    BY <1>1, <1>3
  <2>. QED
    BY <1>1, <2>1, <2>2, <2>3 DEF RInv, RandomTypes
<1>5. Starts'
  <2>1. \A i \in 1 .. Len(plan) : plan[i] # "launch"
    BY <1>1 DEF RInv, Starts
  <2>2. ASSUME step = 0, NEW w \in Workers, NEW i \in 1 .. Len(draws'[w])
        PROVE  draws'[w][i].use = "rollout"
    <3>1. \A j \in 1 .. Len(draws[w]) : draws[w][j].use = "rollout"
      BY <2>2 DEF RInv, Starts
    <3>2. CASE w \notin r
      BY <1>1, <3>1, <3>2
    <3>3. CASE w \in r
      <4>. DEFINE d == [number |-> rng[w], use |-> "rollout"]
      <4>1. draws'[w] = Append(draws[w], d)
        BY <1>1, <1>3, <3>3
      <4>2. d.use = "rollout"
        OBVIOUS
      <4>. HIDE DEF d
      <4>3. PICK s \in Seq(Draws) : s = draws[w]
        BY <1>3
      <4>4. i \in 1 .. Len(s) \/ i = Len(s) + 1
        BY <4>1, <4>3
      <4>5. \A j \in 1 .. Len(s) : Append(s, d)[j] = s[j]
        BY <4>3
      <4>6. Append(s, d)[Len(s) + 1] = d
        BY <4>3
      <4>. QED
        BY <3>1, <4>1, <4>2, <4>3, <4>4, <4>5, <4>6
    <3>. QED
      BY <3>2, <3>3
  <2>3. /\ call' # "launch" /\ call' # "load" /\ call' # "update_actor"
        /\ \A i \in 1 .. Len(plan') : plan'[i] # "launch"
    BY <1>1, <2>1
  <2>4. Planned("load")' => step' = 0
    BY <1>1 DEF RInv, Starts, Planned
  <2>5. step' = 0 => ~Planned("update_actor")'
    BY <1>1 DEF RInv, Starts, Planned
  <2>6. \A w \in Workers : torch_random_states'[w].of = "trainer"
    BY <1>1 DEF RInv, Starts
  <2>. QED
    BY <1>1, <2>2, <2>3, <2>4, <2>5, <2>6 DEF Starts
<1>6. ASSUME NEW w \in Workers PROVE Streams(w)'
  <2>1. CASE w \notin r
    BY <1>1, <2>1, StreamsKept DEF RInv, Train, Roll
  <2>2. CASE w \in r
    <3>1. mode[w] = "rollout" /\ mode'[w] = "rollout"
      BY <1>1, <2>2 DEF IInv, Modes
    <3>2. /\ Train(w) = torch_random_states[w] /\ Train(w)' = Train(w) /\ Train(w) \in Number
          /\ Roll(w) = rng[w] /\ Roll(w) \in Number
          /\ Roll(w)' = [Roll(w) EXCEPT !.n = @ + 1]
      BY <1>1, <1>2, <2>2, <3>1 DEF Train, Roll, RInv, RandomTypes
    <3>3. draws'[w] = Append(draws[w], [number |-> Roll(w), use |-> "rollout"])
      BY <1>1, <1>3, <2>2, <3>2
    <3>4. Streams(w) /\ RandomTypes
      BY DEF RInv
    <3>. QED
      BY <3>2, <3>3, <3>4, StreamsDrawn
  <2>. QED
    BY <2>1, <2>2
<1>. QED
  BY <1>4, <1>5, <1>6 DEF RInv
(* A worker's step that draws nothing: it is enough to look at the worker. *)
LEMMA QuietStep ==
  ASSUME RInv, NEW w \in Workers,
         UNCHANGED <<call, plan, step, batch, draws>>,
         rng' \in [Workers -> Number],
         torch_random_states' \in [Workers -> Number],
         gen_random_states' \in [Workers -> Number],
         torch_random_states'[w].of = "trainer",
         Streams(w)',
         \A v \in Workers \ {w} :
            /\ mode'[v] = mode[v] /\ rng'[v] = rng[v]
            /\ torch_random_states'[v] = torch_random_states[v]
            /\ gen_random_states'[v] = gen_random_states[v]
  PROVE  RInv'
<1>1. RandomTypes'
  BY DEF RInv, RandomTypes
<1>2. \A v \in Workers : torch_random_states'[v].of = "trainer"
  BY DEF RInv, Starts
<1>3. Starts'
  BY <1>2, StartsKept DEF RInv
<1>4. ASSUME NEW v \in Workers \ {w} PROVE Streams(v)'
  BY <1>4, StreamsKept DEF RInv, Train, Roll
<1>. QED
  BY <1>1, <1>3, <1>4 DEF RInv

LEMMA LaunchRandom ==
  ASSUME IInv, RInv, NEW w \in Workers, Launch(w)
  PROVE  RInv'
<1>1. /\ call = "launch"
      /\ rng' = [rng EXCEPT ![w] = Stream("rollout", 0)]
      /\ mode' = [mode EXCEPT ![w] = "rollout"]
      /\ UNCHANGED <<call, plan, step, batch, draws, torch_random_states, gen_random_states>>
  BY DEF Launch, Answer
<1>2. /\ Stream("rollout", 0) \in Number /\ Stream("rollout", 0).of = "rollout"
      /\ rng \in [Workers -> Number] /\ mode \in [Workers -> Mode]
  BY DEF Stream, Number, RInv, RandomTypes, IInv, Types
<1>3. torch_random_states[w].of = "trainer" /\ draws[w] = <<>>
  BY <1>1 DEF RInv, Starts, Undrawn
<1>4. Streams(w)'
  <2>1. Train(w)' = torch_random_states[w] /\ Roll(w)' = Stream("rollout", 0)
    BY <1>1, <1>2 DEF Train, Roll
  <2>. QED
    BY <1>1, <1>2, <1>3, <2>1 DEF Streams
<1>5. rng' \in [Workers -> Number]
  BY <1>1, <1>2
<1>6. \A v \in Workers \ {w} : mode'[v] = mode[v] /\ rng'[v] = rng[v]
  BY <1>1, <1>2
<1>. QED
  BY <1>1, <1>3, <1>4, <1>5, <1>6, QuietStep DEF RInv, RandomTypes

(* Between trainer mode and rollout mode the device's stream is training's. *)
LEMMA SwitchRandom ==
  ASSUME IInv, RInv, NEW w \in Workers,
         Collect(w) \/ ResumeWeights(w) \/ UpdateWeights(w) \/ Begin(w)
  PROVE  RInv'
<1>1. /\ UNCHANGED <<call, plan, step, batch, draws>>
      /\ UNCHANGED <<rng, torch_random_states, gen_random_states>>
  BY DEF Collect, ResumeWeights, UpdateWeights, Begin, Busy, random
<1>2. \E m \in Mode \ {"rollout"} : mode' = [mode EXCEPT ![w] = m]
  BY DEF Collect, ResumeWeights, UpdateWeights, Begin, Mode
<1>3. mode[w] # "rollout"
  <2>1. CASE Begin(w)
    BY <2>1 DEF Begin, IInv, Modes
  <2>. QED
    BY <2>1 DEF Collect, ResumeWeights, UpdateWeights
<1>4. mode \in [Workers -> Mode]
  BY DEF IInv, Types
<1>5. mode'[w] # "rollout" /\ \A v \in Workers \ {w} : mode'[v] = mode[v]
  BY <1>2, <1>4
<1>6. Streams(w)'
  BY <1>1, <1>3, <1>5, StreamsKept DEF RInv, Train, Roll
<1>7. torch_random_states'[w].of = "trainer"
  BY <1>1 DEF RInv, Starts
<1>. QED
  BY <1>1, <1>5, <1>6, <1>7, QuietStep DEF RInv, RandomTypes

LEMMA ResumeCacheRandom ==
  ASSUME IInv, RInv, NEW w \in Workers, ResumeCache(w)
  PROVE  RInv'
<1>1. /\ mode[w] = "updated" /\ mode' = [mode EXCEPT ![w] = "rollout"]
      /\ torch_random_states' = [torch_random_states EXCEPT ![w] = rng[w]]
      /\ rng' = [rng EXCEPT ![w] = gen_random_states[w]]
      /\ UNCHANGED <<call, plan, step, batch, draws, gen_random_states>>
  BY DEF ResumeCache, Answer
<1>2. /\ mode \in [Workers -> Mode] /\ rng \in [Workers -> Number]
      /\ torch_random_states \in [Workers -> Number]
      /\ gen_random_states \in [Workers -> Number]
  BY DEF RInv, RandomTypes, IInv, Types
<1>3. Streams(w)
  BY DEF RInv
<1>4. Train(w)' = Train(w) /\ Roll(w)' = Roll(w) /\ torch_random_states'[w] = Train(w)
  BY <1>1, <1>2 DEF Train, Roll
<1>5. Streams(w)' /\ torch_random_states'[w].of = "trainer"
  BY <1>1, <1>3, <1>4, StreamsKept DEF Streams
<1>6. /\ rng' \in [Workers -> Number] /\ torch_random_states' \in [Workers -> Number]
      /\ \A v \in Workers \ {w} : mode'[v] = mode[v] /\ rng'[v] = rng[v]
                                 /\ torch_random_states'[v] = torch_random_states[v]
  BY <1>1, <1>2
<1>. QED
  BY <1>1, <1>2, <1>5, <1>6, QuietStep

LEMMA SleepRandom ==
  ASSUME IInv, RInv, NEW w \in Workers, Sleep(w)
  PROVE  RInv'
<1>1. /\ call = "sleep" /\ w \in todo /\ mode' = [mode EXCEPT ![w] = "trainer"]
      /\ gen_random_states' = [gen_random_states EXCEPT ![w] = rng[w]]
      /\ rng' = [rng EXCEPT ![w] = torch_random_states[w]]
      /\ UNCHANGED <<call, plan, step, batch, draws, torch_random_states>>
  BY DEF Sleep, Answer, Swapped
<1>2. /\ mode \in [Workers -> Mode] /\ rng \in [Workers -> Number]
      /\ torch_random_states \in [Workers -> Number]
      /\ gen_random_states \in [Workers -> Number]
  BY DEF RInv, RandomTypes, IInv, Types
<1>3. mode[w] = "rollout" /\ Streams(w) /\ torch_random_states[w].of = "trainer"
  BY <1>1 DEF IInv, Modes, RInv, Starts
<1>4. Train(w)' = Train(w) /\ Roll(w)' = Roll(w)
  BY <1>1, <1>2, <1>3 DEF Train, Roll
<1>5. Streams(w)'
  BY <1>1, <1>3, <1>4, StreamsKept
<1>6. /\ rng' \in [Workers -> Number] /\ gen_random_states' \in [Workers -> Number]
      /\ \A v \in Workers \ {w} : mode'[v] = mode[v] /\ rng'[v] = rng[v]
                                 /\ gen_random_states'[v] = gen_random_states[v]
  BY <1>1, <1>2
<1>. QED
  BY <1>1, <1>2, <1>3, <1>5, <1>6, QuietStep
(* load_checkpoint sets training's stream to where it was saved.           *)
LEMMA LoadRandom ==
  ASSUME Frees, IInv, RInv, NEW w \in Workers, End(w), call = "load"
  PROVE  RInv'
<1>1. config.free /\ config.start \in Nat
  BY ConfigType DEF IInv, Types
<1>2. /\ mode[w] = "computing" /\ mode' = [mode EXCEPT ![w] = "trainer"]
      /\ rng' = [rng EXCEPT ![w] = Stream("trainer", config.start)]
      /\ UNCHANGED <<call, plan, step, batch, draws, torch_random_states, gen_random_states>>
  BY <1>1 DEF End, Answer
<1>3. /\ mode \in [Workers -> Mode] /\ rng \in [Workers -> Number]
      /\ Stream("trainer", config.start) \in Number
  BY <1>1 DEF RInv, RandomTypes, IInv, Types, Stream, Number
<1>4. \A i \in 1 .. Len(draws[w]) : draws[w][i].use = "rollout"
  BY DEF RInv, Starts
<1>5. Train(w)' = Stream("trainer", config.start) /\ Roll(w)' = Roll(w)
  BY <1>2, <1>3 DEF Train, Roll
<1>6. Streams(w)'
  BY <1>1, <1>2, <1>4, <1>5, StreamsReset DEF RInv
<1>7. /\ rng' \in [Workers -> Number] /\ torch_random_states'[w].of = "trainer"
      /\ \A v \in Workers \ {w} : mode'[v] = mode[v] /\ rng'[v] = rng[v]
  BY <1>2, <1>3 DEF RInv, Starts
<1>. QED
  BY <1>2, <1>6, <1>7, QuietStep DEF RInv, RandomTypes

(* update_actor draws from it, ...                                         *)
LEMMA UpdateRandom ==
  ASSUME Frees, IInv, RInv, NEW w \in Workers, End(w), call = "update_actor"
  PROVE  RInv'
<1>. DEFINE d == [number |-> rng[w], use |-> "trainer"]
<1>1. config.free
  BY ConfigType DEF IInv, Types
<1>2. /\ mode[w] = "computing" /\ mode' = [mode EXCEPT ![w] = "trainer"]
      /\ rng' = [rng EXCEPT ![w] = Drawn(w)]
      /\ draws' = [draws EXCEPT ![w] = Append(draws[w], d)]
      /\ UNCHANGED <<call, plan, step, batch, torch_random_states, gen_random_states>>
  BY <1>1 DEF End, Answer, Draw
<1>3. /\ mode \in [Workers -> Mode] /\ rng \in [Workers -> Number]
      /\ draws \in [Workers -> Seq(Draws)]
      /\ rng[w] \in Number /\ Drawn(w) \in Number /\ Drawn(w) = [rng[w] EXCEPT !.n = @ + 1]
  BY DrawnType DEF RInv, RandomTypes, IInv, Types
<1>4. d \in Draws
  BY <1>3 DEF Draws
<1>. HIDE DEF d
<1>5. /\ rng' \in [Workers -> Number]
      /\ mode'[w] = "trainer" /\ rng'[w] = Drawn(w) /\ draws'[w] = Append(draws[w], d)
      /\ \A v \in Workers \ {w} : mode'[v] = mode[v] /\ rng'[v] = rng[v] /\ draws'[v] = draws[v]
  BY <1>2, <1>3
<1>6. draws' \in [Workers -> Seq(Draws)]
  <2>1. draws[w] \in Seq(Draws)
    BY <1>3
  <2>2. Append(draws[w], d) \in Seq(Draws)
    BY <1>4, <2>1
  <2>. QED
    BY <1>2, <1>3, <2>2
<1>7. RandomTypes'
  BY <1>2, <1>5, <1>6 DEF RInv, RandomTypes
<1>8. Starts'
  <2>1. step # 0
    BY DEF RInv, Starts
  <2>2. \A i \in 1 .. Len(plan) : plan[i] # "launch"
    BY DEF RInv, Starts
  <2>3. /\ call' # "launch" /\ call' # "load" /\ ~Planned("load")' /\ step' # 0
        /\ \A i \in 1 .. Len(plan') : plan'[i] # "launch"
    BY <1>2, <2>1, <2>2 DEF RInv, Starts, Planned
  <2>4. \A v \in Workers : torch_random_states'[v].of = "trainer"
    BY <1>2 DEF RInv, Starts
  <2>. QED
    BY <2>3, <2>4 DEF Starts
<1>9. ASSUME NEW v \in Workers PROVE Streams(v)'
  <2>1. CASE v # w
    BY <1>2, <1>5, <2>1, StreamsKept DEF RInv, Train, Roll
  <2>2. CASE v = w
    <3>1. /\ Train(w) = rng[w] /\ Roll(w) = gen_random_states[w] /\ Roll(w)' = Roll(w)
          /\ Train(w)' = [Train(w) EXCEPT !.n = @ + 1]
      BY <1>2, <1>3, <1>5 DEF Train, Roll
    <3>2. /\ Train(w) \in Number /\ Roll(w) \in Number
          /\ d = [number |-> Train(w), use |-> "trainer"]
      BY <1>3, <3>1 DEF RInv, RandomTypes, d
    <3>3. Streams(w) /\ RandomTypes
      BY DEF RInv
    <3>. QED
      BY <1>5, <2>2, <3>1, <3>2, <3>3, StreamsDrawn
  <2>. QED
    BY <2>1, <2>2
<1>. QED
  BY <1>7, <1>8, <1>9 DEF RInv

(* ... and the other computations leave it alone.                          *)
LEMMA EndRandom ==
  ASSUME Frees, IInv, RInv, NEW w \in Workers, End(w)
  PROVE  RInv'
<1>1. CASE call \notin {"load", "update_actor"}
  <2>1. config.free
    BY ConfigType DEF IInv, Types
  <2>2. mode[w] = "computing" /\ mode' = [mode EXCEPT ![w] = "trainer"]
    BY <2>1 DEF End
  <2>3. /\ rng' = [rng EXCEPT ![w] = rng[w]]
        /\ UNCHANGED <<call, plan, step, batch, draws, torch_random_states, gen_random_states>>
    BY <1>1 DEF End, Answer
  <2>4. /\ mode \in [Workers -> Mode] /\ rng \in [Workers -> Number]
    BY DEF RInv, RandomTypes, IInv, Types
  <2>5. /\ rng' = rng /\ mode'[w] = "trainer"
        /\ \A v \in Workers \ {w} : mode'[v] = mode[v]
    BY <2>2, <2>3, <2>4
  <2>6. Train(w)' = Train(w) /\ Roll(w)' = Roll(w)
    BY <2>2, <2>3, <2>5 DEF Train, Roll
  <2>7. Streams(w)' /\ torch_random_states'[w].of = "trainer"
    BY <2>3, <2>6, StreamsKept DEF RInv, Starts
  <2>. QED
    BY <2>3, <2>5, <2>7, QuietStep DEF RInv, RandomTypes
<1>. QED
  BY <1>1, LoadRandom, UpdateRandom

-----------------------------------------------------------------------------
LEMMA RandomStep ==
  ASSUME Frees, IInv, RInv, [Next]_vars
  PROVE  RInv'
<1>1. CASE UNCHANGED vars
  <2>1. UNCHANGED <<call, plan, step, batch, draws, mode, rng, torch_random_states,
                    gen_random_states>>
    BY <1>1 DEF vars, worker, random
  <2>2. RandomTypes' /\ Starts'
    BY <2>1, StartsKept DEF RInv, RandomTypes, Starts
  <2>3. \A w \in Workers : Streams(w)'
    BY <2>1, StreamsKept DEF RInv, Train, Roll
  <2>. QED
    BY <2>2, <2>3 DEF RInv
<1>2. CASE AgentLoopFails
  <2>1. /\ call = "generate" /\ call' = "raised"
        /\ UNCHANGED <<plan, step, batch, draws, mode, rng, torch_random_states,
                       gen_random_states>>
    BY <1>2 DEF AgentLoopFails, worker, random
  <2>2. RandomTypes' /\ Starts'
    BY <2>1 DEF RInv, RandomTypes, Starts, Undrawn, Planned
  <2>3. \A w \in Workers : Streams(w)'
    BY <2>1, StreamsKept DEF RInv, Train, Roll
  <2>. QED
    BY <2>2, <2>3 DEF RInv
<1>3. CASE Driver
  BY <1>3, CallRandom, NextStepRandom DEF Driver
<1>4. CASE \E r \in Replicas : Sample(r)
  BY <1>4, SampleRandom
<1>5. ASSUME NEW w \in Workers, Work(w) PROVE RInv'
  BY <1>5, LaunchRandom, SwitchRandom, ResumeCacheRandom, SleepRandom, EndRandom DEF Work
<1>. QED
  BY <1>1, <1>2, <1>3, <1>4, <1>5 DEF Next

LEMMA RandomInvariant ==
  ASSUME Frees
  PROVE  Spec => [](IInv /\ RInv)
<1>1. Init => RInv
  BY RandomInit
<1>2. IInv /\ RInv /\ [Next]_vars => RInv'
  BY RandomStep
<1>3. Spec => []IInv
  BY InductiveInvariant
<1>. QED
  BY <1>1, <1>2, <1>3, PTL DEF Spec

(* Every number a worker has drawn is of the stream of its use, and it has *)
(* drawn none twice.                                                       *)
THEOREM DrawsAreOwn ==
  ASSUME Frees
  PROVE  Spec => []OwnRandom
<1>1. RInv => OwnRandom
  <2>. SUFFICES ASSUME RInv, NEW w \in Workers
                PROVE  \A i \in DOMAIN draws[w] :
                         /\ draws[w][i].number.of = draws[w][i].use
                         /\ \A j \in DOMAIN draws[w] : draws[w][i] = draws[w][j] => i = j
    BY DEF OwnRandom
  <2>1. DOMAIN draws[w] = 1 .. Len(draws[w])
    BY DEF RInv, RandomTypes
  <2>. QED
    BY <2>1 DEF RInv, Streams, Behind
<1>. QED
  BY <1>1, RandomInvariant, PTL

(* The types, and where there is memory for what.                          *)
THEOREM MemoryStaysSound ==
  ASSUME Frees
  PROVE  Spec => []MemoryIsSound
<1>1. IInv /\ RInv => TypeOK
  BY DEF IInv, RInv, Types, RandomTypes, Draws, Mode, TypeOK
<1>2. Spec => []TypeOK
  BY <1>1, RandomInvariant, PTL
<1>3. Spec => []GpuFits
  BY MemoryFits
<1>4. Spec => []OffloadedAtRest
  BY RestsOffloaded
<1>5. TypeOK /\ GpuFits /\ OffloadedAtRest => MemoryIsSound
  BY DEF MemoryIsSound
<1>. QED
  BY <1>2, <1>3, <1>4, <1>5, PTL
=============================================================================
