---------------------------- MODULE AgentWorkers ----------------------------
(***************************************************************************)
(* What the agent loops of a batch share.  Every agent loop worker runs    *)
(* its trajectories as coroutines of one event loop, chooses their servers *)
(* with an AsyncLLMServerManager of its own, and sends code to a pool of   *)
(* its own (verl/tools/code_image_tool.py), waiting for it in a blocking   *)
(* ray.get that holds up the event loop.  All pools take tokens from one   *)
(* named rate limiter.  ToolAgentLoop has the other half of a turn.        *)
(***************************************************************************)
EXTENDS Integers, Sequences, FiniteSets

CONSTANTS
  Trajectories,
  Workers,       \* agent loop workers
  Home,          \* the worker a trajectory runs on
  Servers,       \* server_handles
  CacheSize,     \* max_cache_size of a server manager
  RateLimit,     \* rate_limit of the tool
  NumWorkers,    \* num_workers: threads of a pool
  Endless,       \* trajectories whose code does not end
  MaxTurns,      \* bound: tool calls of a trajectory
  NoOne          \* stands for no trajectory, no server, the real stdout

ASSUME AgentWorkersAssumption ==
  /\ IsFiniteSet(Trajectories)
  /\ Home \in [Trajectories -> Workers]
  /\ Endless \subseteq Trajectories
  /\ {CacheSize, RateLimit, NumWorkers} \subseteq Nat \ {0}
  /\ MaxTurns \in Nat
  /\ NoOne \notin Trajectories \cup Servers

VARIABLES
  phase,    \* where each trajectory is
  turns,    \* tool calls it has made
  loop,     \* loop[w]: the trajectory whose ray.get blocks the event loop
  count,    \* count[w][s]: weighted_serveres
  sticky,   \* sticky[t]: its entry in request_id_to_server
  recent,   \* recent[w]: the cached requests, least recently used first
  mailbox,  \* acquire calls waiting at the limiter
  tokens,   \* its semaphore
  releases, \* release calls on their way to it
  stdout,   \* stdout[w]: sys.stdout of w's pool, the buffer of a call
  previous, \* previous[t]: what redirect_stdout will put back
  buffer,   \* buffer[t]: whose output the buffer of t's call has
  server,   \* auxiliary: the last server of each trajectory
  since     \* auxiliary: who has asked for a server since

manager == <<count, sticky, recent>>
limiter == <<mailbox, tokens, releases>>
streams == <<stdout, previous, buffer>>
aux == <<server, since>>
vars == <<phase, turns, loop, manager, limiter, streams, aux>>

-----------------------------------------------------------------------------
Phase == {"ready", "generating", "generated", "submitted", "acquiring",
          "granted", "running", "done"}
InPool == {"acquiring", "granted", "running"}    \* in a thread of the pool
Calling == {"submitted"} \cup InPool
At(p) == {t \in Trajectories : phase[t] \in p}
On(w) == {t \in Trajectories : Home[t] = w}

Init ==
  /\ phase = [t \in Trajectories |-> "ready"]
  /\ turns = [t \in Trajectories |-> 0]
  /\ loop = [w \in Workers |-> NoOne]
  /\ count = [w \in Workers |-> [s \in Servers |-> 0]]
  /\ sticky = [t \in Trajectories |-> NoOne]
  /\ recent = [w \in Workers |-> <<>>]
  /\ mailbox = <<>> /\ tokens = RateLimit /\ releases = 0
  /\ stdout = [w \in Workers |-> NoOne]
  /\ previous = [t \in Trajectories |-> NoOne]
  /\ buffer = [t \in Trajectories |-> {}]
  /\ server = [t \in Trajectories |-> NoOne]
  /\ since = [t \in Trajectories |-> {}]

-----------------------------------------------------------------------------
(* AsyncLLMServerManager: the server of the heap's root, which has the     *)
(* fewest assignments (among equals the hash decides, so any); an LRU      *)
(* cache remembers it.                                                     *)
Bug_Fewest(w) == Servers     \* the root is not moved after its count changed
Fewest(w) == {s \in Servers : \A r \in Servers : count[w][s] <= count[w][r]}

Others(queue, t) ==
  IF \E i \in DOMAIN queue : queue[i] = t
  THEN LET i == CHOOSE i \in DOMAIN queue : queue[i] = t
       IN SubSeq(queue, 1, i - 1) \o SubSeq(queue, i + 1, Len(queue))
  ELSE queue
Bug_Touched(queue, t) == Append(queue, t)     \* its older entry stays
Touched(queue, t) == Append(Others(queue, t), t)

Bug_Evicted(queue) == IF Len(queue) >= CacheSize THEN {Head(queue)} ELSE {}
Evicted(queue) == IF Len(queue) > CacheSize THEN {Head(queue)} ELSE {}

ChooseServer(t, s) ==
  LET w == Home[t]
      queue == Touched(recent[w], t)
      out == Evicted(queue)
  IN /\ IF sticky[t] # NoOne
        THEN s = sticky[t] /\ UNCHANGED count
        ELSE s \in Fewest(w) /\ count' = [count EXCEPT ![w][s] = @ + 1]
     /\ sticky' = [u \in Trajectories |->
                     IF u \in out THEN NoOne ELSE IF u = t THEN s ELSE sticky[u]]
     /\ recent' = [recent EXCEPT ![w] = IF out = {} THEN queue ELSE Tail(queue)]

Free(t) == loop[Home[t]] = NoOne

Generate(t) ==
  /\ phase[t] = "ready" /\ Free(t)
  /\ \E s \in Servers :
       /\ ChooseServer(t, s)
       /\ server' = [server EXCEPT ![t] = s]
  /\ since' = [u \in Trajectories |-> IF u = t THEN {} ELSE since[u] \cup {t}]
  /\ phase' = [phase EXCEPT ![t] = "generating"]
  /\ UNCHANGED <<turns, loop, limiter, streams>>

(* The server's answer; the coroutine goes on when the event loop is free. *)
ServerAnswers(t) ==
  /\ phase[t] = "generating"
  /\ phase' = [phase EXCEPT ![t] = "generated"]
  /\ UNCHANGED <<turns, loop, manager, limiter, streams, aux>>

Finish(t) ==
  /\ phase[t] = "generated" /\ Free(t)
  /\ phase' = [phase EXCEPT ![t] = "done"]
  /\ UNCHANGED <<turns, loop, manager, limiter, streams, aux>>

-----------------------------------------------------------------------------
(* CodeImageTool.execute: a refused call returns at once, any other blocks *)
(* the event loop until the pool has answered.                             *)
RefuseCall(t) ==
  /\ phase[t] = "generated" /\ Free(t) /\ turns[t] < MaxTurns
  /\ turns' = [turns EXCEPT ![t] = @ + 1]
  /\ phase' = [phase EXCEPT ![t] = "ready"]
  /\ UNCHANGED <<loop, manager, limiter, streams, aux>>

Bug_Awaited(t) == loop     \* await in place of ray.get
Blocked(t) == [loop EXCEPT ![Home[t]] = t]

CallTool(t) ==
  /\ phase[t] = "generated" /\ Free(t) /\ turns[t] < MaxTurns
  /\ turns' = [turns EXCEPT ![t] = @ + 1]
  /\ phase' = [phase EXCEPT ![t] = "submitted"]
  /\ loop' = Blocked(t)
  /\ UNCHANGED <<manager, limiter, streams, aux>>

(* CodeExecutionWorker.execute, in one of the pool's threads. *)
EnterPool(t) ==
  /\ phase[t] = "submitted"
  /\ Cardinality(At(InPool) \cap On(Home[t])) < NumWorkers
  /\ phase' = [phase EXCEPT ![t] = "acquiring"]
  /\ mailbox' = Append(mailbox, t)
  /\ UNCHANGED <<turns, loop, manager, tokens, releases, streams, aux>>

(* TokenBucketWorker: acquire calls are served one at a time, each waits   *)
(* for the semaphore; release calls have threads of their own.             *)
Bug_Available == TRUE     \* counts without waiting
Available == tokens > 0

Acquire ==
  /\ mailbox # <<>> /\ Available
  /\ phase' = [phase EXCEPT ![Head(mailbox)] = "granted"]
  /\ mailbox' = Tail(mailbox) /\ tokens' = tokens - 1
  /\ UNCHANGED <<turns, loop, manager, releases, streams, aux>>

Release ==
  /\ releases > 0
  /\ tokens' = tokens + 1 /\ releases' = releases - 1
  /\ UNCHANGED <<phase, turns, loop, manager, mailbox, streams, aux>>

(* _execute_code replaces the stdout of its whole process while it runs.   *)
RunCode(t) ==
  /\ phase[t] = "granted"
  /\ phase' = [phase EXCEPT ![t] = "running"]
  /\ previous' = [previous EXCEPT ![t] = stdout[Home[t]]]
  /\ stdout' = [stdout EXCEPT ![Home[t]] = t]
  /\ buffer' = [buffer EXCEPT ![t] = {}]
  /\ UNCHANGED <<turns, loop, manager, limiter, aux>>

PrintText(t) ==
  LET to == stdout[Home[t]]
  IN /\ phase[t] = "running" /\ to # NoOne /\ t \notin buffer[to]
     /\ buffer' = [buffer EXCEPT ![to] = @ \cup {t}]
     /\ UNCHANGED <<phase, turns, loop, manager, limiter, stdout, previous, aux>>

(* The code returns or raises: either way a result comes back.             *)
Bug_Spent == releases     \* the callback is forgotten
Returned == releases + 1

CodeEnds(t) ==
  /\ phase[t] = "running" /\ t \notin Endless
  /\ phase' = [phase EXCEPT ![t] = "ready"]
  /\ stdout' = [stdout EXCEPT ![Home[t]] = previous[t]]
  /\ releases' = Returned
  /\ loop' = [loop EXCEPT ![Home[t]] = NoOne]
  /\ UNCHANGED <<turns, manager, mailbox, tokens, previous, buffer, aux>>

Step(t) ==
  \/ Generate(t) \/ ServerAnswers(t) \/ Finish(t)
  \/ RefuseCall(t) \/ CallTool(t)
  \/ EnterPool(t) \/ RunCode(t) \/ PrintText(t) \/ CodeEnds(t)

Next == Acquire \/ Release \/ \E t \in Trajectories : Step(t)

Spec == Init /\ [][Next]_vars

(* Coroutines, threads and the limiter's mailbox are served in turn.  Code *)
(* that ends at all ends after finitely many steps.                        *)
Fairness ==
  /\ WF_vars(Acquire) /\ WF_vars(Release)
  /\ \A t \in Trajectories :
       /\ WF_vars(Step(t)) /\ WF_vars(CodeEnds(t))

FairSpec == Spec /\ Fairness

-----------------------------------------------------------------------------
TypeOK ==
  /\ phase \in [Trajectories -> Phase]
  /\ turns \in [Trajectories -> 0 .. MaxTurns]
  /\ loop \in [Workers -> Trajectories \cup {NoOne}]
  /\ count \in [Workers -> [Servers -> Nat]]
  /\ {sticky, server} \subseteq [Trajectories -> Servers \cup {NoOne}]
  /\ recent \in [Workers -> Seq(Trajectories)]
  /\ mailbox \in Seq(Trajectories) /\ tokens \in Nat /\ releases \in Nat
  /\ stdout \in [Workers -> Trajectories \cup {NoOne}]
  /\ previous \in [Trajectories -> Trajectories \cup {NoOne}]
  /\ {buffer, since} \subseteq [Trajectories -> SUBSET Trajectories]

(* The output a call reports is its own: stdout is the whole process's, so *)
(* this needs that no two codes of a pool ever run at the same time, which *)
(* only the blocking wait of the event loop ensures, not num_workers.      *)
OwnOutput == \A t \in Trajectories : buffer[t] \subseteq {t}
StdoutRestored ==
  \A w \in Workers : At({"running"}) \cap On(w) = {} => stdout[w] = NoOne
StdoutIsOwn == OwnOutput /\ StdoutRestored

(* Tokens are neither lost nor made, and code runs only with one. *)
TokensConserved ==
  tokens + releases + Cardinality(At({"granted", "running"})) = RateLimit

(* A trajectory stays on its server unless CacheSize others of its worker  *)
(* have asked since: the prefix cache is worth something.                  *)
StickySession ==
  [][\A t \in Trajectories :
       server[t] # NoOne /\ server'[t] # server[t] =>
         Cardinality(since[t] \cap On(Home[t])) >= CacheSize]_vars

(* A worker spreads its trajectories evenly over the servers.  The workers *)
(* do not know of each other and nothing is counted back when a trajectory *)
(* ends, so all together may be uneven by as much as there are workers.    *)
Balanced ==
  \A w \in Workers : \A r, s \in Servers : count[w][r] <= count[w][s] + 1

(* A worker's LRU remembers each of its sessions once and never more than  *)
(* it has places, and knows a server for exactly those it remembers.       *)
Remembered ==
  \A w \in Workers :
    /\ Len(recent[w]) <= CacheSize
    /\ \A i, j \in DOMAIN recent[w] : recent[w][i] = recent[w][j] => i = j
    /\ \A t \in Trajectories :
         (\E i \in DOMAIN recent[w] : recent[w][i] = t) <=> t \in On(w) /\ sticky[t] # NoOne

(* The sessions of a worker and its counts are in order.                   *)
SessionsAreSound == TypeOK /\ Balanced /\ Remembered

(* Code that does not end costs the trajectories of its worker, and one    *)
(* token: as long as tokens are left, the other workers finish.            *)
OthersFinish ==
  Cardinality(Endless) < RateLimit =>
    \A t \in Trajectories :
      On(Home[t]) \cap Endless = {} => <>(phase[t] = "done")
=============================================================================
