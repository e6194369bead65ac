------------------------- MODULE AgentWorkersProofs -------------------------
(***************************************************************************)
(* Theorems about what agent loops share: output of a pool's process, the  *)
(* tokens of the limiter, the servers of a manager.                        *)
(*                                                                         *)
(* OwnOutput holds although nothing in the pool keeps two codes apart.     *)
(* The argument goes through the event loop: a trajectory with a call in   *)
(* the pool is the one whose ray.get blocks its worker (BlockedByCaller),  *)
(* so a worker has one call at a time, and stdout is the real one whenever *)
(* code starts (Redirected).                                               *)
(*                                                                         *)
(* A trajectory keeps its server because the queue of cached requests is   *)
(* in the order of asking (Ordered): who is pushed out of it has a whole   *)
(* cache of others behind him, all of which have asked since (Remembering).*)
(***************************************************************************)
EXTENDS AgentWorkers, FiniteSetTheorems, SequenceTheorems, TLAPS

(* The variables these theorems are about. *)
Types ==
  /\ phase \in [Trajectories -> Phase]
  /\ loop \in [Workers -> Trajectories \cup {NoOne}]
  /\ count \in [Workers -> [Servers -> Nat]]
  /\ mailbox \in Seq(Trajectories) /\ tokens \in Nat /\ releases \in Nat
  /\ stdout \in [Workers -> Trajectories \cup {NoOne}]
  /\ previous \in [Trajectories -> Trajectories \cup {NoOne}]
  /\ buffer \in [Trajectories -> SUBSET Trajectories]

BlockedByCaller ==
  \A t \in Trajectories : phase[t] \in Calling => loop[Home[t]] = t

(* Who waits at the limiter, each once. *)
Waiting ==
  /\ \A i \in DOMAIN mailbox : phase[mailbox[i]] = "acquiring"
  /\ \A i, j \in DOMAIN mailbox : mailbox[i] = mailbox[j] => i = j

Redirected ==
  /\ \A t \in Trajectories :
       phase[t] = "running" => stdout[Home[t]] = t /\ previous[t] = NoOne
  /\ \A w \in Workers :
       stdout[w] # NoOne => phase[stdout[w]] = "running" /\ Home[stdout[w]] = w

PoolInv == Types /\ BlockedByCaller /\ Waiting /\ Redirected /\ OwnOutput

-----------------------------------------------------------------------------
LEMMA InitPool == Init => PoolInv /\ Balanced /\ TokensConserved
<1>. SUFFICES ASSUME Init PROVE PoolInv /\ Balanced /\ TokensConserved
  OBVIOUS
<1>. USE AgentWorkersAssumption
<1>1. Types
  <2>1. RateLimit \in Nat
    OBVIOUS
  <2>2. count \in [Workers -> [Servers -> Nat]]
    BY DEF Init
  <2>3. phase \in [Trajectories -> Phase] /\ loop \in [Workers -> Trajectories \cup {NoOne}]
    BY DEF Init, Phase
  <2>4. mailbox \in Seq(Trajectories) /\ tokens \in Nat /\ releases \in Nat
    BY <2>1 DEF Init
  <2>5. /\ stdout \in [Workers -> Trajectories \cup {NoOne}]
        /\ previous \in [Trajectories -> Trajectories \cup {NoOne}]
        /\ buffer \in [Trajectories -> SUBSET Trajectories]
    BY DEF Init
  <2>. QED
    BY <2>2, <2>3, <2>4, <2>5 DEF Types
<1>2. BlockedByCaller /\ Waiting /\ Redirected /\ OwnOutput
  BY DEF Init, BlockedByCaller, Calling, InPool, Waiting, Redirected, OwnOutput
<1>3. Balanced
  BY DEF Init, Balanced
<1>4. TokensConserved
  <2>1. At({"granted", "running"}) = {}
    BY DEF Init, At
  <2>2. tokens = RateLimit /\ releases = 0 /\ RateLimit \in Nat
    BY DEF Init
  <2>. QED
    BY <2>1, <2>2, FS_EmptySet DEF TokensConserved
<1>. QED
  BY <1>1, <1>2, <1>3, <1>4 DEF PoolInv

(* Steps of a trajectory that leave the pool alone. *)
LEMMA LoopStep ==
  ASSUME PoolInv, NEW t \in Trajectories,
         Generate(t) \/ ServerAnswers(t) \/ Finish(t) \/ RefuseCall(t)
  PROVE  PoolInv'
<1>. USE AgentWorkersAssumption DEF PoolInv
<1>1. /\ phase[t] \notin Calling
      /\ \E p \in Phase \ Calling : phase' = [phase EXCEPT ![t] = p]
      /\ UNCHANGED <<loop, mailbox, tokens, releases, stdout, previous, buffer>>
  BY DEF Generate, ServerAnswers, Finish, RefuseCall, Phase, Calling, InPool, limiter, streams
<1>2. count' \in [Workers -> [Servers -> Nat]]
  <2>1. CASE Generate(t)
    <3>1. PICK s \in Servers : ChooseServer(t, s)
      BY <2>1 DEF Generate
    <3>2. \/ sticky[t] # NoOne /\ UNCHANGED count
          \/ count' = [count EXCEPT ![Home[t]][s] = @ + 1]
      BY <3>1 DEF ChooseServer
    <3>3. Home[t] \in Workers /\ count[Home[t]] \in [Servers -> Nat]
      BY DEF Types
    <3>4. [count[Home[t]] EXCEPT ![s] = @ + 1] \in [Servers -> Nat]
      BY <3>3
    <3>. QED
      BY <3>2, <3>3, <3>4 DEF Types
  <2>2. CASE ~Generate(t)
    BY <2>2 DEF ServerAnswers, Finish, RefuseCall, manager, Types
  <2>. QED
    BY <2>1, <2>2
<1>3. Types'
  BY <1>1, <1>2 DEF Types
<1>4. BlockedByCaller' /\ Waiting' /\ Redirected' /\ OwnOutput'
  <2>1. "running" \in Calling /\ "acquiring" \in Calling
    BY DEF Calling, InPool
  <2>2. \A u \in Trajectories : phase'[u] = phase[u] \/ (u = t /\ phase'[u] \notin Calling)
    BY <1>1 DEF Types
  <2>3. \A u \in Trajectories : phase[u] \in Calling => phase'[u] = phase[u]
    BY <1>1 DEF Types
  <2>4. BlockedByCaller' /\ OwnOutput'
    BY <1>1, <2>2 DEF BlockedByCaller, OwnOutput
  <2>5. Waiting'
    BY <1>1, <2>1, <2>3 DEF Waiting, Types
  <2>6. Redirected'
    BY <1>1, <2>1, <2>2, <2>3 DEF Redirected, Types
  <2>. QED
    BY <2>4, <2>5, <2>6
<1>. QED
  BY <1>3, <1>4

(* One call of a worker is in the pool at most. *)
LEMMA OneCall ==
  ASSUME PoolInv, NEW t \in Trajectories, NEW u \in Trajectories, Home[t] = Home[u],
         phase[t] \in Calling, phase[u] \in Calling
  PROVE  t = u
BY DEF PoolInv, BlockedByCaller

LEMMA CallToolStep == ASSUME PoolInv, NEW t \in Trajectories, CallTool(t) PROVE PoolInv'
<1>. USE AgentWorkersAssumption DEF PoolInv
<1>1. /\ phase[t] = "generated" /\ loop[Home[t]] = NoOne
      /\ phase' = [phase EXCEPT ![t] = "submitted"] /\ loop' = [loop EXCEPT ![Home[t]] = t]
      /\ UNCHANGED <<count, mailbox, tokens, releases, stdout, previous, buffer>>
  BY DEF CallTool, Free, Blocked, manager, limiter, streams
<1>2. \A u \in Trajectories : phase[u] \in Calling => Home[u] # Home[t]
  BY <1>1 DEF BlockedByCaller
<1>3. Types'
  BY <1>1 DEF Types, Phase
<1>4. BlockedByCaller'
  BY <1>1, <1>2 DEF BlockedByCaller, Types
<1>5. Waiting' /\ Redirected' /\ OwnOutput'
  BY <1>1 DEF Waiting, Redirected, OwnOutput, Types
<1>. QED
  BY <1>3, <1>4, <1>5

LEMMA EnterPoolStep == ASSUME PoolInv, NEW t \in Trajectories, EnterPool(t) PROVE PoolInv'
<1>. USE AgentWorkersAssumption DEF PoolInv
<1>1. /\ phase[t] = "submitted"
      /\ phase' = [phase EXCEPT ![t] = "acquiring"] /\ mailbox' = Append(mailbox, t)
      /\ UNCHANGED <<loop, count, tokens, releases, stdout, previous, buffer>>
  BY DEF EnterPool, manager, streams
<1>2. Types'
  BY <1>1 DEF Types, Phase
<1>3. BlockedByCaller' /\ Redirected' /\ OwnOutput'
  BY <1>1 DEF BlockedByCaller, Calling, InPool, Redirected, OwnOutput, Types
<1>4. Waiting'
  <2>1. /\ Len(mailbox) \in Nat /\ DOMAIN mailbox = 1 .. Len(mailbox)
        /\ DOMAIN mailbox' = 1 .. Len(mailbox) + 1 /\ mailbox'[Len(mailbox) + 1] = t
        /\ \A i \in DOMAIN mailbox : mailbox'[i] = mailbox[i] /\ mailbox[i] \in Trajectories
    BY <1>1 DEF Types
  <2>2. \A i \in DOMAIN mailbox : mailbox[i] # t
    BY <1>1 DEF Waiting
  <2>3. \A i \in DOMAIN mailbox' : i \in DOMAIN mailbox \/ i = Len(mailbox) + 1
    BY <2>1
  <2>4. \A i \in DOMAIN mailbox' : phase'[mailbox'[i]] = "acquiring"
    BY <1>1, <2>1, <2>2, <2>3 DEF Waiting, Types
  <2>5. \A i, j \in DOMAIN mailbox' : mailbox'[i] = mailbox'[j] => i = j
    BY <2>1, <2>2, <2>3 DEF Waiting
  <2>. QED
    BY <2>4, <2>5 DEF Waiting
<1>. QED
  BY <1>2, <1>3, <1>4

LEMMA AcquireStep == ASSUME PoolInv, Acquire PROVE PoolInv'
<1>. USE AgentWorkersAssumption DEF PoolInv
<1>1. /\ mailbox # <<>> /\ tokens > 0
      /\ phase' = [phase EXCEPT ![Head(mailbox)] = "granted"]
      /\ mailbox' = Tail(mailbox) /\ tokens' = tokens - 1
      /\ UNCHANGED <<loop, count, releases, stdout, previous, buffer>>
  BY DEF Acquire, Available, manager, streams
<1>2. /\ Len(mailbox) \in Nat /\ DOMAIN mailbox = 1 .. Len(mailbox) /\ 1 \in DOMAIN mailbox
      /\ Head(mailbox) = mailbox[1] /\ Head(mailbox) \in Trajectories
      /\ mailbox' \in Seq(Trajectories)
      /\ \A i \in DOMAIN mailbox' : /\ i + 1 \in DOMAIN mailbox
                                    /\ mailbox'[i] = mailbox[i + 1] /\ i \in Nat /\ i # 0
  BY <1>1 DEF Types
<1>3. phase[Head(mailbox)] = "acquiring"
  BY <1>2 DEF Waiting
<1>4. Types'
  <2>1. tokens' \in Nat
    BY <1>1 DEF Types
  <2>. QED
    BY <1>1, <1>2, <2>1 DEF Types, Phase
<1>5. BlockedByCaller' /\ Redirected' /\ OwnOutput'
  BY <1>1, <1>2, <1>3 DEF BlockedByCaller, Calling, InPool, Redirected, OwnOutput, Types
<1>6. Waiting'
  <2>1. \A i \in DOMAIN mailbox' : mailbox'[i] # Head(mailbox)
    BY <1>2 DEF Waiting
  <2>2. \A i \in DOMAIN mailbox' : phase'[mailbox'[i]] = "acquiring"
    BY <1>1, <1>2, <2>1 DEF Waiting, Types
  <2>3. ASSUME NEW i \in DOMAIN mailbox', NEW j \in DOMAIN mailbox', mailbox'[i] = mailbox'[j]
        PROVE  i = j
    <3>1. i + 1 = j + 1
      BY <1>2, <2>3 DEF Waiting
    <3>. QED
      BY <1>2, <3>1
  <2>. QED
    BY <2>2, <2>3 DEF Waiting
<1>. QED
  BY <1>4, <1>5, <1>6

LEMMA ReleaseStep == ASSUME PoolInv, Release PROVE PoolInv'
<1>1. /\ tokens' = tokens + 1 /\ releases' = releases - 1 /\ releases > 0
      /\ UNCHANGED <<phase, loop, count, mailbox, stdout, previous, buffer>>
  BY DEF Release, manager, streams
<1>2. tokens' \in Nat /\ releases' \in Nat
  BY <1>1 DEF PoolInv, Types
<1>. QED
  BY <1>1, <1>2 DEF PoolInv, Types, BlockedByCaller, Waiting, Redirected, OwnOutput

(* Code starts while stdout is the real one: whoever had replaced it would *)
(* have a call in the pool too.                                            *)
LEMMA RunCodeStep == ASSUME PoolInv, NEW t \in Trajectories, RunCode(t) PROVE PoolInv'
<1>. USE AgentWorkersAssumption DEF PoolInv
<1>1. /\ phase[t] = "granted" /\ phase' = [phase EXCEPT ![t] = "running"]
      /\ previous' = [previous EXCEPT ![t] = stdout[Home[t]]]
      /\ stdout' = [stdout EXCEPT ![Home[t]] = t]
      /\ buffer' = [buffer EXCEPT ![t] = {}]
      /\ UNCHANGED <<loop, count, mailbox, tokens, releases>>
  BY DEF RunCode, manager, limiter
<1>2. Home[t] \in Workers /\ stdout[Home[t]] \in Trajectories \cup {NoOne}
  BY DEF Types
<1>3. stdout[Home[t]] = NoOne
  <2>. SUFFICES ASSUME stdout[Home[t]] # NoOne PROVE FALSE
    OBVIOUS
  <2>. DEFINE u == stdout[Home[t]]
  <2>1. u \in Trajectories /\ phase[u] = "running" /\ Home[u] = Home[t]
    BY <1>2 DEF Redirected
  <2>2. u = t
    BY <1>1, <2>1, OneCall DEF Calling, InPool
  <2>. QED
    BY <1>1, <2>1, <2>2
<1>4. \A u \in Trajectories : phase[u] = "running" => Home[u] # Home[t]
  BY <1>1, OneCall DEF Calling, InPool
<1>5. Types'
  BY <1>1, <1>2 DEF Types, Phase
<1>6. BlockedByCaller' /\ Waiting' /\ OwnOutput'
  BY <1>1 DEF BlockedByCaller, Calling, InPool, Waiting, OwnOutput, Types
<1>7. Redirected'
  <2>1. ASSUME NEW u \in Trajectories, phase'[u] = "running"
        PROVE  stdout'[Home[u]] = u /\ previous'[u] = NoOne
    BY <1>1, <1>2, <1>3, <1>4, <2>1 DEF Redirected, Types
  <2>2. ASSUME NEW w \in Workers, stdout'[w] # NoOne
        PROVE  phase'[stdout'[w]] = "running" /\ Home[stdout'[w]] = w
    BY <1>1, <1>2, <2>2 DEF Redirected, Types
  <2>. QED
    BY <2>1, <2>2 DEF Redirected
<1>. QED
  BY <1>5, <1>6, <1>7

LEMMA PrintTextStep == ASSUME PoolInv, NEW t \in Trajectories, PrintText(t) PROVE PoolInv'
<1>. USE AgentWorkersAssumption DEF PoolInv
<1>1. /\ phase[t] = "running"
      /\ buffer' = [buffer EXCEPT ![stdout[Home[t]]] = @ \cup {t}]
      /\ UNCHANGED <<phase, loop, count, mailbox, tokens, releases, stdout, previous>>
  BY DEF PrintText, manager, limiter
<1>2. stdout[Home[t]] = t
  BY <1>1 DEF Redirected
<1>3. Types' /\ OwnOutput'
  BY <1>1, <1>2 DEF Types, OwnOutput
<1>. QED
  BY <1>1, <1>3 DEF BlockedByCaller, Waiting, Redirected

LEMMA CodeEndsStep == ASSUME PoolInv, NEW t \in Trajectories, CodeEnds(t) PROVE PoolInv'
<1>. USE AgentWorkersAssumption DEF PoolInv
<1>1. /\ phase[t] = "running" /\ phase' = [phase EXCEPT ![t] = "ready"]
      /\ stdout' = [stdout EXCEPT ![Home[t]] = previous[t]]
      /\ releases' = releases + 1
      /\ loop' = [loop EXCEPT ![Home[t]] = NoOne]
      /\ UNCHANGED <<count, mailbox, tokens, previous, buffer>>
  BY DEF CodeEnds, Returned, manager
<1>2. Home[t] \in Workers /\ previous[t] = NoOne
  BY <1>1 DEF Redirected
<1>3. \A u \in Trajectories : phase[u] \in Calling /\ u # t => Home[u] # Home[t]
  BY <1>1, OneCall DEF Calling, InPool
<1>4. Types'
  <2>1. releases' \in Nat
    BY <1>1 DEF Types
  <2>. QED
    BY <1>1, <1>2, <2>1 DEF Types, Phase
<1>5. BlockedByCaller' /\ Waiting' /\ OwnOutput'
  BY <1>1, <1>2, <1>3 DEF BlockedByCaller, Calling, InPool, Waiting, OwnOutput, Types
<1>6. Redirected'
  <2>1. ASSUME NEW u \in Trajectories, phase'[u] = "running"
        PROVE  stdout'[Home[u]] = u /\ previous'[u] = NoOne
    <3>1. u # t /\ phase[u] = "running"
      BY <1>1, <2>1 DEF Types
    <3>2. Home[u] # Home[t]
      BY <1>3, <3>1 DEF Calling, InPool
    <3>. QED
      BY <1>1, <3>1, <3>2 DEF Redirected, Types
  <2>2. ASSUME NEW w \in Workers, stdout'[w] # NoOne
        PROVE  phase'[stdout'[w]] = "running" /\ Home[stdout'[w]] = w
    <3>1. w # Home[t] /\ stdout'[w] = stdout[w]
      BY <1>1, <1>2, <2>2 DEF Types
    <3>2. phase[stdout[w]] = "running" /\ Home[stdout[w]] = w /\ stdout[w] \in Trajectories
      BY <2>2, <3>1 DEF Redirected, Types
    <3>. QED
      BY <1>1, <3>1, <3>2 DEF Types
  <2>. QED
    BY <2>1, <2>2 DEF Redirected
<1>. QED
  BY <1>4, <1>5, <1>6

LEMMA NextPool == PoolInv /\ [Next]_vars => PoolInv'
<1>. SUFFICES ASSUME PoolInv, [Next]_vars PROVE PoolInv'
  OBVIOUS
<1>1. ASSUME NEW t \in Trajectories, Step(t) PROVE PoolInv'
  BY <1>1, LoopStep, CallToolStep, EnterPoolStep, RunCodeStep, PrintTextStep, CodeEndsStep
     DEF Step
<1>2. CASE UNCHANGED vars
  BY <1>2 DEF vars, manager, limiter, streams, aux, PoolInv, Types, BlockedByCaller, Waiting,
     Redirected, OwnOutput
<1>. QED
  BY <1>1, <1>2, AcquireStep, ReleaseStep DEF Next

-----------------------------------------------------------------------------
(* A new assignment goes to a server with the fewest. *)
LEMMA NextBalanced == PoolInv /\ Balanced /\ [Next]_vars => Balanced'
<1>. SUFFICES ASSUME PoolInv, Balanced, [Next]_vars PROVE Balanced'
  OBVIOUS
<1>. USE AgentWorkersAssumption DEF PoolInv
<1>1. ASSUME NEW t \in Trajectories, NEW s \in Servers, ChooseServer(t, s) PROVE Balanced'
  <2>1. CASE UNCHANGED count
    BY <2>1 DEF Balanced
  <2>2. CASE s \in Fewest(Home[t]) /\ count' = [count EXCEPT ![Home[t]][s] = @ + 1]
    <3>. SUFFICES ASSUME NEW w \in Workers, NEW q \in Servers, NEW r \in Servers
                  PROVE  count'[w][q] <= count'[w][r] + 1
      BY DEF Balanced
    <3>1. {count[w][q], count[w][r], count[w][s]} \subseteq Nat
      BY DEF Types
    <3>2. count[w][q] <= count[w][r] + 1
      BY DEF Balanced
    <3>3. \A x \in Servers : count'[w][x] =
            IF w = Home[t] /\ x = s THEN count[w][x] + 1 ELSE count[w][x]
      BY <2>2 DEF Types
    <3>4. w = Home[t] => count[w][s] <= count[w][r]
      BY <2>2 DEF Fewest
    <3>. QED
      BY <3>1, <3>2, <3>3, <3>4
  <2>. QED
    BY <1>1, <2>1, <2>2 DEF ChooseServer
<1>2. ASSUME NEW t \in Trajectories, Step(t), ~Generate(t) PROVE UNCHANGED count
  BY <1>2 DEF Step, ServerAnswers, Finish, RefuseCall, CallTool, EnterPool, RunCode, PrintText,
     CodeEnds, manager
<1>3. CASE UNCHANGED count
  BY <1>3 DEF Balanced
<1>. QED
  BY <1>1, <1>2, <1>3 DEF Next, Step, Generate, Acquire, Release, vars, manager

Holders == At({"granted", "running"})

(* A token is taken, held, and given back: always one of the three. *)
LEMMA NextTokens == PoolInv /\ TokensConserved /\ [Next]_vars => TokensConserved'
<1>. SUFFICES ASSUME PoolInv, TokensConserved, [Next]_vars PROVE TokensConserved'
  OBVIOUS
<1>. USE AgentWorkersAssumption DEF PoolInv
<1>1. IsFiniteSet(Holders) /\ Cardinality(Holders) \in Nat
  BY FS_Subset, FS_CardinalityType DEF Holders, At
<1>2. /\ tokens \in Nat /\ releases \in Nat
      /\ tokens + releases + Cardinality(Holders) = RateLimit
  BY DEF Types, TokensConserved, Holders
<1>3. CASE Acquire
  <2>. DEFINE t == Head(mailbox)
  <2>1. t \in Trajectories /\ phase[t] = "acquiring"
    BY <1>3 DEF Acquire, Waiting, Types
  <2>2. phase' = [phase EXCEPT ![t] = "granted"] /\ tokens' = tokens - 1 /\ releases' = releases
    BY <1>3 DEF Acquire
  <2>. HIDE DEF t
  <2>3. Holders' = Holders \cup {t} /\ t \notin Holders
    BY <2>1, <2>2 DEF Holders, At, Types
  <2>4. Cardinality(Holders') = Cardinality(Holders) + 1
    BY <1>1, <2>3, FS_AddElement
  <2>. QED
    BY <1>1, <1>2, <2>2, <2>4 DEF TokensConserved, Holders
<1>4. CASE Release
  <2>1. Holders' = Holders /\ tokens' = tokens + 1 /\ releases' = releases - 1
    BY <1>4 DEF Release, Holders, At
  <2>. QED
    BY <1>1, <1>2, <2>1 DEF TokensConserved, Holders
<1>5. ASSUME NEW t \in Trajectories, CodeEnds(t) PROVE TokensConserved'
  <2>1. /\ phase[t] = "running" /\ phase' = [phase EXCEPT ![t] = "ready"]
        /\ releases' = releases + 1 /\ tokens' = tokens
    BY <1>5 DEF CodeEnds, Returned
  <2>2. Holders' = Holders \ {t} /\ t \in Holders
    BY <2>1 DEF Holders, At, Types
  <2>3. Cardinality(Holders') = Cardinality(Holders) - 1
    BY <1>1, <2>2, FS_RemoveElement
  <2>. QED
    BY <1>1, <1>2, <2>1, <2>3 DEF TokensConserved, Holders
<1>6. ASSUME NEW t \in Trajectories, Step(t), ~CodeEnds(t)
      PROVE  Holders' = Holders /\ UNCHANGED <<tokens, releases>>
  <2>1. UNCHANGED <<tokens, releases>>
    BY <1>6 DEF Step, Generate, ServerAnswers, Finish, RefuseCall, CallTool, EnterPool, RunCode,
       PrintText, limiter
  <2>2. \/ phase' = phase
        \/ \E p \in Phase :
             /\ phase' = [phase EXCEPT ![t] = p]
             /\ phase[t] \in {"granted", "running"} <=> p \in {"granted", "running"}
    BY <1>6 DEF Step, Generate, ServerAnswers, Finish, RefuseCall, CallTool, EnterPool, RunCode,
       PrintText, Phase
  <2>3. Holders' = Holders
    BY <2>2 DEF Holders, At, Types
  <2>. QED
    BY <2>1, <2>3
<1>7. CASE UNCHANGED vars
  BY <1>7 DEF vars, limiter, TokensConserved, At
<1>. QED
  BY <1>3, <1>4, <1>5, <1>6, <1>7 DEF Next, TokensConserved, Holders

-----------------------------------------------------------------------------
(* In every state of a run the pool is as PoolInv says: whatever waits,    *)
(* holds tokens or runs code is where its trajectory's call is.            *)
THEOREM PoolInvariant == Spec => []PoolInv
BY InitPool, NextPool, PTL DEF Spec

(* Whatever the number of threads of a pool: the output of a call is that  *)
(* of its own code (_execute_code's redirect_stdout), since execute blocks *)
(* its worker.                                                             *)
THEOREM OutputIsOwn == Spec => []OwnOutput
<1>1. PoolInv => OwnOutput
  BY DEF PoolInv
<1>. QED
  BY PoolInvariant, <1>1, PTL

(* Between two calls the standard output of a pool's process is the real one. *)
THEOREM StdoutIsRestored == Spec => []StdoutRestored
<1>1. PoolInv => StdoutRestored
  <2>. SUFFICES ASSUME PoolInv, NEW w \in Workers, stdout[w] # NoOne
                PROVE  stdout[w] \in At({"running"}) \cap On(w)
    BY DEF StdoutRestored
  <2>1. stdout[w] \in Trajectories
    BY DEF PoolInv, Types
  <2>. QED
    BY <2>1 DEF PoolInv, Redirected, At, On
<1>. QED
  BY PoolInvariant, <1>1, PTL

(* For any number of workers, pools and threads, no token of the limiter   *)
(* (TokenBucketWorker) is lost or made, and code runs only with one.       *)
THEOREM TokensAreConserved == Spec => []TokensConserved
<1>1. Init => PoolInv /\ TokensConserved
  BY InitPool
<1>2. PoolInv /\ TokensConserved /\ [Next]_vars => (PoolInv /\ TokensConserved)'
  BY NextPool, NextTokens
<1>. QED
  BY <1>1, <1>2, PTL DEF Spec

(* A server manager spreads its trajectories evenly (_choose_server),      *)
(* whatever its cache has forgotten.                                       *)
THEOREM StaysBalanced == Spec => []Balanced
<1>1. Init => PoolInv /\ Balanced
  BY InitPool
<1>2. PoolInv /\ Balanced /\ [Next]_vars => (PoolInv /\ Balanced)'
  BY NextPool, NextBalanced
<1>. QED
  BY <1>1, <1>2, PTL DEF Spec

(* Both facts about standard output.                                       *)
THEOREM StdoutStaysOwn == Spec => []StdoutIsOwn
<1>1. OwnOutput /\ StdoutRestored => StdoutIsOwn
  BY DEF StdoutIsOwn
<1>. QED
  BY OutputIsOwn, StdoutIsRestored, <1>1, PTL

-----------------------------------------------------------------------------
(* Sessions. *)

(* A queue has a request, each once, one before another. *)
Holds(queue, u) == \E i \in DOMAIN queue : queue[i] = u
Distinct(queue) == \A i, j \in DOMAIN queue : queue[i] = queue[j] => i = j
Before(queue, u, v) == \E i, j \in DOMAIN queue : i < j /\ queue[i] = u /\ queue[j] = v

(* What a manager remembers: its own trajectories, each once, and no more   *)
(* than the cache holds.                                                   *)
Cached ==
  \A w \in Workers :
    /\ Len(recent[w]) <= CacheSize /\ Distinct(recent[w])
    /\ \A u \in Trajectories : Holds(recent[w], u) => Home[u] = w

(* Who is behind another in the cache has asked since. *)
Ordered ==
  \A w \in Workers, u, v \in Trajectories : Before(recent[w], u, v) => v \in since[u]

(* An entry is that of the last server; who has lost his was pushed out. *)
Remembering ==
  \A t \in Trajectories :
    /\ sticky[t] # NoOne <=> Holds(recent[Home[t]], t)
    /\ sticky[t] # NoOne => sticky[t] = server[t]
    /\ sticky[t] = NoOne /\ server[t] # NoOne =>
         Cardinality(since[t] \cap On(Home[t])) >= CacheSize

SessionInv == TypeOK /\ Cached /\ Ordered /\ Remembering

(* Moving a request to the end takes it out of its place. *)
LEMMA OthersOfQueue ==
  ASSUME NEW queue \in Seq(Trajectories), NEW t \in Trajectories, Distinct(queue)
  PROVE  /\ Others(queue, t) \in Seq(Trajectories)
         /\ Len(Others(queue, t)) <= Len(queue)
         /\ Distinct(Others(queue, t))
         /\ \A u : Holds(Others(queue, t), u) <=> u # t /\ Holds(queue, u)
         /\ \A u, v : Before(Others(queue, t), u, v) => Before(queue, u, v)
<1>. DEFINE o == Others(queue, t)
            n == Len(queue)
<1>1. n \in Nat /\ DOMAIN queue = 1 .. n
  OBVIOUS
<1>2. CASE ~ \E i \in DOMAIN queue : queue[i] = t
  <2>1. o = queue
    BY <1>2 DEF Others
  <2>. QED
    BY <1>1, <1>2, <2>1 DEF Holds
<1>3. CASE \E i \in DOMAIN queue : queue[i] = t
  <2>. DEFINE at == CHOOSE i \in DOMAIN queue : queue[i] = t
              before == SubSeq(queue, 1, at - 1)
              after == SubSeq(queue, at + 1, n)
  <2>1. at \in 1 .. n /\ queue[at] = t
    BY <1>1, <1>3
  <2>2. o = before \o after
    BY <1>3 DEF Others
  <2>. HIDE DEF at
  <2>3. /\ before \in Seq(Trajectories) /\ Len(before) = at - 1
        /\ \A i \in 1 .. at - 1 : before[i] = queue[i]
    BY <1>1, <2>1
  <2>4. /\ after \in Seq(Trajectories) /\ Len(after) = n - at
        /\ \A i \in 1 .. n - at : after[i] = queue[i + at]
    <3>1. at + 1 \in Int /\ n \in Int /\ \A i \in at + 1 .. n : queue[i] \in Trajectories
      BY <1>1, <2>1
    <3>. HIDE DEF n
    <3>2. /\ after \in Seq(Trajectories)
          /\ Len(after) = IF at + 1 <= n THEN n - (at + 1) + 1 ELSE 0
          /\ \A i \in 1 .. n - (at + 1) + 1 : after[i] = queue[at + 1 + i - 1]
      BY <3>1, SubSeqProperties
    <3>. HIDE DEF after
    <3>3. n - (at + 1) + 1 = n - at /\ (at + 1 > n => n - at = 0)
      BY <1>1, <2>1
    <3>4. Len(after) = n - at
      BY <1>1, <2>1, <3>2, <3>3
    <3>5. ASSUME NEW i \in 1 .. n - at PROVE after[i] = queue[i + at]
      <4>1. i \in 1 .. n - (at + 1) + 1
        BY <3>3
      <4>2. at + 1 + i - 1 = i + at
        BY <2>1
      <4>3. after[i] = queue[at + 1 + i - 1]
        BY <3>2, <4>1
      <4>. QED
        BY <4>2, <4>3
    <3>. QED
      BY <3>2, <3>4, <3>5
  <2>. HIDE DEF before, after, o
  <2>5. /\ o \in Seq(Trajectories) /\ Len(o) = n - 1 /\ DOMAIN o = 1 .. n - 1
        /\ \A i \in 1 .. n - 1 : o[i] = IF i <= at - 1 THEN before[i] ELSE after[i - (at - 1)]
    <3>1. /\ o \in Seq(Trajectories) /\ Len(o) = (at - 1) + (n - at)
          /\ \A i \in 1 .. (at - 1) + (n - at) :
               o[i] = IF i <= at - 1 THEN before[i] ELSE after[i - (at - 1)]
      <4>1. /\ before \o after \in Seq(Trajectories)
            /\ Len(before \o after) = Len(before) + Len(after)
            /\ \A i \in 1 .. Len(before) + Len(after) : (before \o after)[i] =
                  IF i <= Len(before) THEN before[i] ELSE after[i - Len(before)]
        BY <2>3, <2>4, ConcatProperties
      <4>2. Len(before) = at - 1 /\ Len(after) = n - at
        BY <2>3, <2>4
      <4>. QED
        BY <2>2, <4>1, <4>2, Zenon
    <3>2. (at - 1) + (n - at) = n - 1
      BY <1>1, <2>1
    <3>. QED
      BY <3>1, <3>2
  <2>. DEFINE old(i) == IF i < at THEN i ELSE i + 1
  <2>6. \A i \in 1 .. n - 1 : old(i) \in 1 .. n /\ old(i) # at /\ o[i] = queue[old(i)]
    <3>. SUFFICES ASSUME NEW i \in 1 .. n - 1
                  PROVE  old(i) \in 1 .. n /\ old(i) # at /\ o[i] = queue[old(i)]
      OBVIOUS
    <3>1. CASE i < at
      <4>1. i \in 1 .. at - 1 /\ i <= at - 1
        BY <1>1, <2>1, <3>1
      <4>2. o[i] = queue[i]
        BY <2>3, <2>5, <4>1
      <4>. QED
        BY <1>1, <2>1, <3>1, <4>2
    <3>2. CASE ~(i < at)
      <4>1. i - (at - 1) \in 1 .. n - at /\ (i - (at - 1)) + at = i + 1 /\ ~(i <= at - 1)
        BY <1>1, <2>1, <3>2
      <4>2. o[i] = queue[i + 1]
        BY <2>4, <2>5, <4>1
      <4>. QED
        BY <1>1, <2>1, <3>2, <4>2
    <3>. QED
      BY <3>1, <3>2
  <2>7. \A i, j \in 1 .. n - 1 : i < j => old(i) < old(j)
    BY <1>1, <2>1
  <2>8. \A i, j \in 1 .. n - 1 : old(i) = old(j) => i = j
    BY <1>1, <2>1
  <2>9. \A k \in 1 .. n : k # at => \E i \in 1 .. n - 1 : old(i) = k
    <3>. SUFFICES ASSUME NEW k \in 1 .. n, k # at PROVE \E i \in 1 .. n - 1 : old(i) = k
      OBVIOUS
    <3>1. CASE k < at
      BY <1>1, <2>1, <3>1
    <3>2. CASE k > at
      <4>1. k - 1 \in 1 .. n - 1 /\ old(k - 1) = k
        BY <1>1, <2>1, <3>2
      <4>. QED
        BY <4>1
    <3>. QED
      BY <1>1, <2>1, <3>1, <3>2
  <2>. HIDE DEF old
  <2>10. Distinct(o)
    BY <1>1, <2>5, <2>6, <2>8 DEF Distinct
  <2>11. ASSUME NEW u, NEW v, Before(o, u, v) PROVE Before(queue, u, v)
    <3>1. PICK i \in 1 .. n - 1, j \in 1 .. n - 1 : i < j /\ o[i] = u /\ o[j] = v
      BY <2>5, <2>11 DEF Before
    <3>2. old(i) < old(j) /\ queue[old(i)] = u /\ queue[old(j)] = v
      BY <2>6, <2>7, <3>1
    <3>3. old(i) \in DOMAIN queue /\ old(j) \in DOMAIN queue
      BY <1>1, <2>6
    <3>. QED
      BY <3>2, <3>3 DEF Before
  <2>12. ASSUME NEW u
         PROVE  Holds(o, u) <=> u # t /\ Holds(queue, u)
    <3>1. ASSUME NEW i \in DOMAIN o, o[i] = u
          PROVE  u # t /\ \E k \in DOMAIN queue : queue[k] = u
      BY <1>1, <2>1, <2>5, <2>6, <3>1 DEF Distinct
    <3>2. ASSUME u # t, NEW k \in DOMAIN queue, queue[k] = u
          PROVE  \E i \in DOMAIN o : o[i] = u
      BY <1>1, <2>1, <2>5, <2>6, <2>9, <3>2
    <3>. QED
      BY <3>1, <3>2 DEF Holds
  <2>13. Len(o) <= n
    BY <1>1, <2>5
  <2>. QED
    BY <2>5, <2>10, <2>11, <2>12, <2>13 DEF o
<1>. QED
  BY <1>2, <1>3

(* The request itself is last. *)
LEMMA TouchedQueue ==
  ASSUME NEW queue \in Seq(Trajectories), NEW t \in Trajectories, Distinct(queue)
  PROVE  LET new == Touched(queue, t)
         IN /\ new \in Seq(Trajectories) /\ Len(new) \in 1 .. Len(queue) + 1
            /\ Distinct(new) /\ new[Len(new)] = t
            /\ \A u : Holds(new, u) <=> u = t \/ Holds(queue, u)
            /\ \A u, v : Before(new, u, v) => u # t /\ (v = t \/ Before(queue, u, v))
<1>. DEFINE o == Others(queue, t)
            m == Len(o)
            new == Touched(queue, t)
<1>1. /\ o \in Seq(Trajectories) /\ m <= Len(queue) /\ m \in Nat /\ Len(queue) \in Nat
      /\ DOMAIN o = 1 .. m /\ Distinct(o)
      /\ \A u : Holds(o, u) <=> u # t /\ Holds(queue, u)
      /\ \A u, v : Before(o, u, v) => Before(queue, u, v)
  <2>1. /\ o \in Seq(Trajectories) /\ Len(o) <= Len(queue) /\ Distinct(o)
        /\ \A u : Holds(o, u) <=> u # t /\ Holds(queue, u)
        /\ \A u, v : Before(o, u, v) => Before(queue, u, v)
    BY OthersOfQueue
  <2>. HIDE DEF o
  <2>. QED
    BY <2>1
<1>2. new = Append(o, t)
  BY DEF Touched
<1>. HIDE DEF o, new
<1>3. /\ new \in Seq(Trajectories) /\ Len(new) = m + 1 /\ DOMAIN new = 1 .. m + 1
      /\ \A i \in 1 .. m : new[i] = o[i]
      /\ new[m + 1] = t
  BY <1>1, <1>2
<1>. HIDE DEF m
<1>4. \A i \in 1 .. m + 1 : i \in 1 .. m \/ i = m + 1
  BY <1>1
<1>5. \A i \in 1 .. m : o[i] # t
  BY <1>1 DEF Holds
<1>6. Distinct(new)
  BY <1>1, <1>3, <1>4, <1>5 DEF Distinct
<1>7. ASSUME NEW u, NEW v, Before(new, u, v)
      PROVE  u # t /\ (v = t \/ Before(queue, u, v))
  <2>1. PICK i \in 1 .. m + 1, j \in 1 .. m + 1 : i < j /\ new[i] = u /\ new[j] = v
    BY <1>3, <1>7 DEF Before
  <2>2. i \in 1 .. m
    BY <1>1, <2>1
  <2>3. u = o[i] /\ u # t
    BY <1>3, <1>5, <2>1, <2>2
  <2>4. CASE j = m + 1
    BY <1>3, <2>1, <2>3, <2>4
  <2>5. CASE j \in 1 .. m
    <3>1. Before(o, u, v)
      BY <1>1, <1>3, <2>1, <2>2, <2>5 DEF Before
    <3>. QED
      BY <1>1, <2>3, <3>1
  <2>. QED
    BY <1>4, <2>4, <2>5
<1>8. ASSUME NEW u
      PROVE  Holds(new, u) <=> u = t \/ Holds(queue, u)
  <2>1. Holds(new, u) <=> u = t \/ Holds(o, u)
    <3>1. ASSUME Holds(new, u) PROVE u = t \/ Holds(o, u)
      BY <1>1, <1>3, <1>4, <3>1 DEF Holds
    <3>2. ASSUME Holds(o, u) PROVE Holds(new, u)
      <4>1. PICK i \in 1 .. m : o[i] = u
        BY <1>1, <3>2 DEF Holds
      <4>2. i \in DOMAIN new /\ new[i] = u
        BY <1>1, <1>3, <4>1
      <4>. QED
        BY <4>2 DEF Holds
    <3>3. m + 1 \in DOMAIN new
      BY <1>1, <1>3
    <3>4. Holds(new, t)
      BY <1>3, <3>3 DEF Holds
    <3>. QED
      BY <3>1, <3>2, <3>4
  <2>. QED
    BY <1>1, <2>1
<1>9. Len(new) \in 1 .. Len(queue) + 1
  BY <1>1, <1>3
<1>. QED
  BY <1>3, <1>6, <1>7, <1>8, <1>9 DEF new

(* No sessions yet. *)
LEMMA InitSession == Init => SessionInv
<1>. SUFFICES ASSUME Init PROVE SessionInv
  OBVIOUS
<1>. USE AgentWorkersAssumption
<1>1. TypeOK
  <2>1. phase \in [Trajectories -> Phase] /\ turns \in [Trajectories -> 0 .. MaxTurns]
    BY DEF Init, Phase
  <2>2. /\ loop \in [Workers -> Trajectories \cup {NoOne}] /\ recent \in [Workers -> Seq(Trajectories)]
        /\ count \in [Workers -> [Servers -> Nat]]
        /\ sticky \in [Trajectories -> Servers \cup {NoOne}]
        /\ server \in [Trajectories -> Servers \cup {NoOne}]
    BY DEF Init
  <2>3. mailbox \in Seq(Trajectories) /\ tokens \in Nat /\ releases \in Nat
    <3>1. RateLimit \in Nat
      OBVIOUS
    <3>. QED
      BY <3>1 DEF Init
  <2>4. /\ stdout \in [Workers -> Trajectories \cup {NoOne}]
        /\ previous \in [Trajectories -> Trajectories \cup {NoOne}]
        /\ buffer \in [Trajectories -> SUBSET Trajectories]
        /\ since \in [Trajectories -> SUBSET Trajectories]
    BY DEF Init
  <2>. QED
    BY <2>1, <2>2, <2>3, <2>4 DEF TypeOK
<1>2. \A w \in Workers : recent[w] = <<>>
  BY DEF Init
<1>3. Cached
  BY <1>2 DEF Cached, Distinct, Holds
<1>4. Ordered
  BY <1>2 DEF Ordered, Before
<1>5. Remembering
  BY <1>2 DEF Init, Remembering, Holds
<1>. QED
  BY <1>1, <1>3, <1>4, <1>5 DEF SessionInv

(* What a choice of server does to the worker's queue of requests: the     *)
(* request is in it, and the first is pushed out if there is one too many. *)
LEMMA QueueAfter ==
  ASSUME SessionInv, NEW t \in Trajectories, NEW s \in Servers, ChooseServer(t, s)
  PROVE  LET w == Home[t]
             out == Evicted(Touched(recent[w], t))
             new == recent'[w]
         IN /\ w \in Workers
            /\ new \in Seq(Trajectories) /\ Len(new) <= CacheSize /\ Distinct(new)
            /\ out \subseteq Trajectories /\ t \notin out /\ \A u \in out : Home[u] = w
            /\ \A u : Holds(new, u) <=> u \notin out /\ (u = t \/ Holds(recent[w], u))
            /\ \A u, v : Before(new, u, v) => u # t /\ (v = t \/ Before(recent[w], u, v))
            /\ \A u \in out :
                 /\ Len(new) = CacheSize
                 /\ \A v : Holds(new, v) => v = t \/ Before(recent[w], u, v)
<1>. DEFINE w == Home[t]
            out == Evicted(Touched(recent[w], t))
            new == recent'[w]
<1>. USE AgentWorkersAssumption
<1>. DEFINE queue == Touched(recent[w], t)
            n == Len(queue)
            d == IF n > CacheSize THEN 1 ELSE 0
<1>1. w \in Workers /\ recent[w] \in Seq(Trajectories) /\ Distinct(recent[w])
  BY DEF SessionInv, TypeOK, Cached, Distinct
<1>2. /\ queue \in Seq(Trajectories) /\ n \in 1 .. Len(recent[w]) + 1
      /\ Distinct(queue) /\ queue[n] = t
      /\ \A u : Holds(queue, u) <=> u = t \/ Holds(recent[w], u)
      /\ \A u, v : Before(queue, u, v) => u # t /\ (v = t \/ Before(recent[w], u, v))
  BY <1>1, TouchedQueue
<1>3. /\ out = IF n > CacheSize THEN {Head(queue)} ELSE {}
      /\ new = IF out = {} THEN queue ELSE Tail(queue)
  BY <1>1 DEF ChooseServer, Evicted, SessionInv, TypeOK
<1>. HIDE DEF queue, out, new
<1>4. Len(recent[w]) <= CacheSize /\ Len(recent[w]) \in Nat /\ CacheSize \in Nat \ {0}
  BY <1>1 DEF SessionInv, Cached
<1>5. /\ n \in Nat /\ n >= 1 /\ n <= CacheSize + 1 /\ d \in {0, 1} /\ DOMAIN queue = 1 .. n
      /\ n - d <= CacheSize /\ n - d >= 1 /\ (d = 1 => n - d = CacheSize)
  BY <1>2, <1>4
<1>6. /\ new \in Seq(Trajectories) /\ Len(new) = n - d /\ DOMAIN new = 1 .. n - d
      /\ \A i \in 1 .. n - d : new[i] = queue[i + d]
      /\ out = IF d = 1 THEN {queue[1]} ELSE {}
  <2>1. CASE n > CacheSize
    <3>1. queue # <<>>
      BY <1>2, <1>5
    <3>2. Head(queue) = queue[1]
      BY <1>2, <3>1
    <3>3. out = {queue[1]} /\ new = Tail(queue)
      BY <1>3, <2>1, <3>2
    <3>4. /\ new \in Seq(Trajectories) /\ Len(new) = n - 1
          /\ \A i \in 1 .. n - 1 : new[i] = queue[i + 1]
      BY <1>2, <3>1, <3>3, HeadTailProperties
    <3>5. d = 1
      BY <2>1
    <3>. HIDE DEF d, n
    <3>. QED
      BY <3>3, <3>4, <3>5
  <2>2. CASE ~(n > CacheSize)
    <3>1. new = queue /\ out = {} /\ d = 0
      BY <1>3, <2>2
    <3>2. d = 0 /\ n \in Nat
      BY <1>5, <2>2
    <3>5. n - d = n /\ \A i \in 1 .. n : i + d = i
      <4>. HIDE DEF d, n
      <4>. QED
        BY <3>2
    <3>3. Len(queue) = n
      OBVIOUS
    <3>. HIDE DEF d, n
    <3>. QED
      BY <1>2, <1>5, <3>1, <3>3, <3>5
  <2>. QED
    BY <2>1, <2>2
<1>. HIDE DEF n, d
<1>7. \A i \in 1 .. n - d : i + d \in 1 .. n /\ (d = 1 => i + d > 1)
  BY <1>5
<1>8. \A k \in 1 .. n : k - d \in 1 .. n - d \/ (d = 1 /\ k = 1)
  BY <1>5
<1>9. Distinct(new)
  <2>. SUFFICES ASSUME NEW i \in 1 .. n - d, NEW j \in 1 .. n - d, new[i] = new[j] PROVE i = j
    BY <1>6 DEF Distinct
  <2>1. queue[i + d] = queue[j + d] /\ i + d \in DOMAIN queue /\ j + d \in DOMAIN queue
    BY <1>5, <1>6, <1>7
  <2>2. i + d = j + d
    BY <1>2, <2>1 DEF Distinct
  <2>. QED
    BY <1>5, <2>2
<1>10. out \subseteq Trajectories /\ t \notin out /\ \A u \in out : Home[u] = w
  <2>. SUFFICES ASSUME d = 1 PROVE queue[1] \in Trajectories /\ queue[1] # t /\ Home[queue[1]] = w
    BY <1>6
  <2>1. 1 \in DOMAIN queue /\ n \in DOMAIN queue /\ n # 1
    BY <1>5
  <2>2. queue[1] # t /\ queue[1] \in Trajectories
    BY <1>2, <2>1 DEF Distinct
  <2>3. Holds(recent[w], queue[1])
    BY <1>2, <2>1, <2>2 DEF Holds
  <2>. QED
    BY <1>1, <2>2, <2>3 DEF SessionInv, Cached
<1>11. ASSUME NEW u PROVE Holds(new, u) <=> u \notin out /\ Holds(queue, u)
  <2>1. ASSUME NEW i \in DOMAIN new, new[i] = u
        PROVE  u \notin out /\ Holds(queue, u)
    <3>1. i + d \in DOMAIN queue /\ queue[i + d] = u /\ (d = 1 => i + d # 1)
      BY <1>5, <1>6, <1>7, <2>1
    <3>2. 1 \in DOMAIN queue
      BY <1>5
    <3>. QED
      BY <1>2, <1>6, <3>1, <3>2 DEF Distinct, Holds
  <2>2. ASSUME u \notin out, NEW k \in DOMAIN queue, queue[k] = u
        PROVE  Holds(new, u)
    <3>1. k - d \in 1 .. n - d
      BY <1>5, <1>6, <1>8, <2>2
    <3>2. (k - d) + d = k
      BY <1>5
    <3>3. new[k - d] = u
      BY <1>6, <2>2, <3>1, <3>2
    <3>. QED
      BY <1>6, <3>1, <3>3 DEF Holds
  <2>. QED
    BY <2>1, <2>2 DEF Holds
<1>12. ASSUME NEW u, NEW v, Before(new, u, v) PROVE u # t /\ (v = t \/ Before(recent[w], u, v))
  <2>1. PICK i \in 1 .. n - d, j \in 1 .. n - d : i < j /\ new[i] = u /\ new[j] = v
    BY <1>6, <1>12 DEF Before
  <2>2. i + d < j + d
    BY <1>5, <2>1
  <2>3. Before(queue, u, v)
    BY <1>5, <1>6, <1>7, <2>1, <2>2 DEF Before
  <2>. QED
    BY <1>2, <2>3
<1>13. ASSUME NEW u \in out
       PROVE  /\ Len(new) = CacheSize
              /\ \A v : Holds(new, v) => v = t \/ Before(recent[w], u, v)
  <2>1. d = 1 /\ u = queue[1] /\ Len(new) = CacheSize /\ 1 \in 1 .. n
    BY <1>5, <1>6
  <2>2. ASSUME NEW v, Holds(new, v) PROVE v = t \/ Before(recent[w], u, v)
    <3>1. PICK j \in 1 .. n - d : new[j] = v
      BY <1>6, <2>2 DEF Holds
    <3>2. j + d \in 1 .. n /\ 1 < j + d /\ v = queue[j + d]
      BY <1>6, <1>7, <2>1, <3>1
    <3>3. Before(queue, u, v)
      BY <1>5, <2>1, <3>2 DEF Before
    <3>. QED
      BY <1>2, <3>3
  <2>. QED
    BY <2>1, <2>2
<1>14. Len(new) <= CacheSize
  BY <1>5, <1>6
<1>. QED
  <2>1. \A u : Holds(new, u) <=> u \notin out /\ (u = t \/ Holds(recent[w], u))
    BY <1>2, <1>11
  <2>. QED
    BY <1>1, <1>6, <1>9, <1>10, <1>12, <1>13, <1>14, <2>1 DEF new, out

(* Asking for a server renews one's entry and makes everybody else's older. *)
LEMMA GenerateSession ==
  ASSUME SessionInv, NEW t \in Trajectories, Generate(t)
  PROVE  Cached' /\ Ordered' /\ Remembering'
<1>. USE AgentWorkersAssumption
<1>. DEFINE w == Home[t]
            out == Evicted(Touched(recent[w], t))
            new == recent'[w]
<1>1. PICK s \in Servers : ChooseServer(t, s) /\ server' = [server EXCEPT ![t] = s]
  BY DEF Generate
<1>2. /\ w \in Workers
      /\ new \in Seq(Trajectories) /\ Len(new) <= CacheSize /\ Distinct(new)
      /\ out \subseteq Trajectories /\ t \notin out /\ \A u \in out : Home[u] = w
      /\ \A u : Holds(new, u) <=> u \notin out /\ (u = t \/ Holds(recent[w], u))
      /\ \A u, v : Before(new, u, v) => u # t /\ (v = t \/ Before(recent[w], u, v))
      /\ \A u \in out :
           /\ Len(new) = CacheSize
           /\ \A v : Holds(new, v) => v = t \/ Before(recent[w], u, v)
  BY <1>1, QueueAfter
<1>3. /\ sticky[t] # NoOne => s = sticky[t]
      /\ sticky' = [u \in Trajectories |->
                      IF u \in out THEN NoOne ELSE IF u = t THEN s ELSE sticky[u]]
      /\ \A v \in Workers : v # w => recent'[v] = recent[v]
  BY <1>1 DEF ChooseServer, SessionInv, TypeOK
<1>4. since' = [u \in Trajectories |-> IF u = t THEN {} ELSE since[u] \cup {t}]
  BY DEF Generate
<1>5. /\ server \in [Trajectories -> Servers \cup {NoOne}]
      /\ since \in [Trajectories -> SUBSET Trajectories]
      /\ NoOne \notin Servers /\ Home \in [Trajectories -> Workers]
  BY DEF SessionInv, TypeOK
<1>. HIDE DEF out, new, w
<1>6. Cached'
  <2>. SUFFICES ASSUME NEW v \in Workers
                PROVE  /\ Len(recent'[v]) <= CacheSize /\ Distinct(recent'[v])
                       /\ \A u \in Trajectories : Holds(recent'[v], u) => Home[u] = v
    BY DEF Cached, Distinct, Holds
  <2>1. CASE v = w
    BY <1>2, <2>1 DEF SessionInv, Cached, new, w
  <2>2. CASE v # w
    BY <1>3, <2>2 DEF SessionInv, Cached
  <2>. QED
    BY <2>1, <2>2
<1>7. Ordered'
  <2>. SUFFICES ASSUME NEW v \in Workers, NEW x \in Trajectories, NEW y \in Trajectories,
                       Before(recent'[v], x, y)
                PROVE  y \in since'[x]
    BY DEF Ordered, Before
  <2>1. CASE v = w
    <3>1. x # t /\ (y = t \/ Before(recent[w], x, y))
      BY <1>2, <2>1 DEF new
    <3>2. Before(recent[w], x, y) => y \in since[x]
      BY <1>2 DEF SessionInv, Ordered
    <3>. QED
      BY <1>4, <3>1, <3>2
  <2>2. CASE v # w
    <3>1. Before(recent[v], x, y)
      BY <1>3, <2>2
    <3>2. Holds(recent[v], x)
      BY <3>1 DEF Before, Holds
    <3>3. x # t
      BY <2>2, <3>2 DEF SessionInv, Cached, w
    <3>4. y \in since[x]
      BY <3>1 DEF SessionInv, Ordered
    <3>. QED
      BY <1>4, <3>3, <3>4
  <2>. QED
    BY <2>1, <2>2
<1>8. Remembering'
  <2>. SUFFICES ASSUME NEW u \in Trajectories
                PROVE  /\ sticky'[u] # NoOne <=> Holds(recent'[Home[u]], u)
                       /\ sticky'[u] # NoOne => sticky'[u] = server'[u]
                       /\ sticky'[u] = NoOne /\ server'[u] # NoOne =>
                            Cardinality(since'[u] \cap On(Home[u])) >= CacheSize
    BY DEF Remembering, Holds, On
  <2>0. /\ sticky[u] # NoOne <=> Holds(recent[Home[u]], u)
        /\ sticky[u] # NoOne => sticky[u] = server[u]
        /\ sticky[u] = NoOne /\ server[u] # NoOne =>
             Cardinality(since[u] \cap On(Home[u])) >= CacheSize
    BY DEF SessionInv, Remembering
  <2>1. CASE u = t
    <3>1. sticky'[u] = s /\ s # NoOne /\ server'[u] = s
      BY <1>1, <1>2, <1>3, <1>5, <2>1
    <3>2. Holds(recent'[Home[u]], u)
      BY <1>2, <2>1 DEF new, w
    <3>. QED
      BY <3>1, <3>2
  <2>2. CASE u \in out
    <3>1. Home[u] = w /\ u # t /\ sticky'[u] = NoOne /\ ~Holds(new, u) /\ Len(new) = CacheSize
      BY <1>2, <1>3, <2>2
    <3>2. since'[u] = since[u] \cup {t} /\ t \in On(w)
      BY <1>4, <3>1 DEF On, w
    <3>3. \A j \in DOMAIN new : new[j] \in since'[u] \cap On(w)
      <4>. SUFFICES ASSUME NEW j \in DOMAIN new PROVE new[j] \in since'[u] \cap On(w)
        OBVIOUS
      <4>1. Holds(new, new[j]) /\ new[j] \in Trajectories
        BY <1>2 DEF Holds
      <4>2. CASE new[j] = t
        BY <3>2, <4>2
      <4>3. CASE Before(recent[w], u, new[j])
        <5>1. new[j] \in since[u]
          BY <1>2, <4>1, <4>3 DEF SessionInv, Ordered
        <5>2. Holds(recent[w], new[j])
          BY <4>3 DEF Before, Holds
        <5>3. Home[new[j]] = w
          BY <1>2, <4>1, <5>2 DEF SessionInv, Cached
        <5>. QED
          BY <3>2, <4>1, <5>1, <5>3 DEF On
      <4>. QED
        BY <1>2, <2>2, <4>1, <4>2, <4>3
    <3>4. CacheSize <= Cardinality(since'[u] \cap On(w))
      <4>. DEFINE T == since'[u] \cap On(w)
                  f == [j \in 1 .. CacheSize |-> new[j]]
      <4>1. DOMAIN new = 1 .. CacheSize
        BY <1>2, <3>1
      <4>2. f \in Injection(1 .. CacheSize, T)
        <5>1. f \in [1 .. CacheSize -> T]
          BY <3>3, <4>1
        <5>2. \A i, j \in 1 .. CacheSize : f[i] = f[j] => i = j
          BY <1>2, <4>1 DEF Distinct
        <5>. HIDE DEF f, T
        <5>. QED
          BY <5>1, <5>2 DEF Injection, IsInjective
      <4>3. IsFiniteSet(T)
        BY FS_Subset DEF On
      <4>4. IsFiniteSet(1 .. CacheSize) /\ Cardinality(1 .. CacheSize) = CacheSize
        BY FS_Interval
      <4>. HIDE DEF T, f
      <4>5. Cardinality(1 .. CacheSize) <= Cardinality(T)
        BY <4>2, <4>3, FS_Injection
      <4>. QED
        BY <4>4, <4>5 DEF T
    <3>5. Cardinality(since'[u] \cap On(Home[u])) >= CacheSize
      <4>1. Cardinality(since'[u] \cap On(w)) \in Nat
        BY FS_Subset, FS_CardinalityType DEF On
      <4>. QED
        BY <3>1, <3>4, <4>1
    <3>. QED
      BY <3>1, <3>5 DEF new
  <2>3. CASE u # t /\ u \notin out
    <3>1. sticky'[u] = sticky[u] /\ server'[u] = server[u] /\ since'[u] = since[u] \cup {t}
      BY <1>1, <1>3, <1>4, <1>5, <2>3
    <3>2. Holds(recent'[Home[u]], u) <=> Holds(recent[Home[u]], u)
      BY <1>2, <1>3, <1>5, <2>3 DEF new
    <3>3. Cardinality(since'[u] \cap On(Home[u])) >= Cardinality(since[u] \cap On(Home[u]))
      <4>. DEFINE S == since[u] \cap On(Home[u])
                  T == since'[u] \cap On(Home[u])
      <4>1. S \in SUBSET T /\ T \subseteq Trajectories
        BY <3>1 DEF On
      <4>. HIDE DEF S, T
      <4>2. IsFiniteSet(T) /\ IsFiniteSet(S)
        BY <4>1, FS_Subset
      <4>3. Cardinality(S) <= Cardinality(T) /\ Cardinality(S) \in Nat /\ Cardinality(T) \in Nat
        BY <4>1, <4>2, FS_Subset, FS_CardinalityType
      <4>. QED
        BY <4>3 DEF S, T
    <3>4. Cardinality(since[u] \cap On(Home[u])) \in Nat
          /\ Cardinality(since'[u] \cap On(Home[u])) \in Nat
      BY FS_Subset, FS_CardinalityType DEF On
    <3>. QED
      BY <2>0, <3>1, <3>2, <3>3, <3>4
  <2>. QED
    BY <2>1, <2>2, <2>3
<1>. QED
  BY <1>6, <1>7, <1>8

(* No other step touches a manager or what it remembers. *)
LEMMA OtherSession ==
  ASSUME SessionInv, UNCHANGED <<sticky, recent, server, since>>
  PROVE  Cached' /\ Ordered' /\ Remembering'
BY DEF SessionInv, Cached, Ordered, Remembering, Distinct, Holds, Before, On

(* Every variable keeps its type. *)
LEMMA NextTypes == ASSUME SessionInv, PoolInv, [Next]_vars PROVE TypeOK'
<1>. USE AgentWorkersAssumption
<1>1. Types'
  BY NextPool DEF PoolInv
<1>2. ASSUME /\ turns' \in [Trajectories -> 0 .. MaxTurns]
             /\ sticky' \in [Trajectories -> Servers \cup {NoOne}]
             /\ server' \in [Trajectories -> Servers \cup {NoOne}]
             /\ recent' \in [Workers -> Seq(Trajectories)]
             /\ since' \in [Trajectories -> SUBSET Trajectories]
      PROVE  TypeOK'
  BY <1>1, <1>2 DEF Types, TypeOK
<1>3. /\ turns \in [Trajectories -> 0 .. MaxTurns]
      /\ sticky \in [Trajectories -> Servers \cup {NoOne}]
      /\ server \in [Trajectories -> Servers \cup {NoOne}]
      /\ recent \in [Workers -> Seq(Trajectories)]
      /\ since \in [Trajectories -> SUBSET Trajectories]
  BY DEF SessionInv, TypeOK
<1>4. ASSUME NEW t \in Trajectories, Generate(t) PROVE TypeOK'
  <2>1. PICK s \in Servers : ChooseServer(t, s) /\ server' = [server EXCEPT ![t] = s]
    BY <1>4 DEF Generate
  <2>2. turns' = turns /\ since' = [u \in Trajectories |-> IF u = t THEN {} ELSE since[u] \cup {t}]
    BY <1>4 DEF Generate
  <2>3. recent'[Home[t]] \in Seq(Trajectories)
    BY <2>1, QueueAfter
  <2>4. recent' \in [Workers -> Seq(Trajectories)]
    BY <1>3, <2>1, <2>3 DEF ChooseServer
  <2>5. sticky' \in [Trajectories -> Servers \cup {NoOne}]
    BY <1>3, <2>1 DEF ChooseServer
  <2>. QED
    BY <1>2, <1>3, <2>1, <2>2, <2>4, <2>5
<1>5. ASSUME NEW t \in Trajectories, RefuseCall(t) \/ CallTool(t) PROVE TypeOK'
  <2>1. /\ turns[t] < MaxTurns /\ turns' = [turns EXCEPT ![t] = @ + 1]
        /\ UNCHANGED <<sticky, server, recent, since>>
    BY <1>5 DEF RefuseCall, CallTool, manager, aux
  <2>2. turns[t] + 1 \in 0 .. MaxTurns
    BY <1>3, <2>1
  <2>. QED
    BY <1>2, <1>3, <2>1, <2>2
<1>6. ASSUME UNCHANGED <<turns, sticky, server, recent, since>> PROVE TypeOK'
  BY <1>2, <1>3, <1>6
<1>7. ASSUME NEW t \in Trajectories,
             \/ ServerAnswers(t) \/ Finish(t) \/ EnterPool(t) \/ RunCode(t) \/ PrintText(t)
             \/ CodeEnds(t)
      PROVE  TypeOK'
  BY <1>6, <1>7 DEF ServerAnswers, Finish, EnterPool, RunCode, PrintText, CodeEnds, manager, aux
<1>8. CASE Acquire \/ Release \/ UNCHANGED vars
  BY <1>6, <1>8 DEF Acquire, Release, vars, manager, aux
<1>. QED
  BY <1>4, <1>5, <1>7, <1>8 DEF Next, Step

(* Only asking for a server changes a session. *)
LEMMA NextSession == SessionInv /\ PoolInv /\ [Next]_vars => SessionInv'
<1>. SUFFICES ASSUME SessionInv, PoolInv, [Next]_vars PROVE SessionInv'
  OBVIOUS
<1>1. CASE \E t \in Trajectories : Generate(t)
  BY <1>1, GenerateSession, NextTypes DEF SessionInv
<1>2. CASE ~ \E t \in Trajectories : Generate(t)
  <2>1. UNCHANGED <<sticky, recent, server, since>>
    BY <1>2 DEF Next, Step, ServerAnswers, Finish, RefuseCall, CallTool, EnterPool, RunCode,
       PrintText, CodeEnds, Acquire, Release, vars, manager, aux
  <2>. QED
    BY <2>1, OtherSession, NextTypes DEF SessionInv
<1>. QED
  BY <1>1, <1>2

(* In every state of a run a manager remembers what SessionInv says. *)
THEOREM SessionInvariant == Spec => [](SessionInv /\ PoolInv)
BY InitSession, InitPool, NextSession, NextPool, PTL DEF Spec

(* What a manager remembers is bounded by its cache, without repetition,    *)
(* and is exactly what it knows a server for.                              *)
LEMMA CacheIsRemembered == SessionInv => Remembered
<1>. SUFFICES ASSUME SessionInv, NEW w \in Workers
              PROVE  /\ Len(recent[w]) <= CacheSize
                     /\ \A i, j \in DOMAIN recent[w] : recent[w][i] = recent[w][j] => i = j
                     /\ \A t \in Trajectories :
                          Holds(recent[w], t) <=> t \in On(w) /\ sticky[t] # NoOne
  BY DEF Remembered, Holds
<1>1. /\ Len(recent[w]) <= CacheSize
      /\ \A i, j \in DOMAIN recent[w] : recent[w][i] = recent[w][j] => i = j
  BY DEF SessionInv, Cached, Distinct
<1>2. ASSUME NEW t \in Trajectories
      PROVE  Holds(recent[w], t) <=> t \in On(w) /\ sticky[t] # NoOne
  <2>1. Holds(recent[w], t) => Home[t] = w
    BY DEF SessionInv, Cached
  <2>2. sticky[t] # NoOne <=> Holds(recent[Home[t]], t)
    BY DEF SessionInv, Remembering
  <2>. QED
    BY <2>1, <2>2 DEF On
<1>. QED
  BY <1>1, <1>2

(* Every variable keeps its type, a manager's assignments stay even, and    *)
(* its LRU holds each session once and no more than it has places           *)
(* (AsyncLLMServerManager), for any number of workers, trajectories and     *)
(* servers and any size of the cache.                                      *)
THEOREM SessionsStaySound == Spec => []SessionsAreSound
<1>1. SessionInv /\ PoolInv /\ Balanced => SessionsAreSound
  BY CacheIsRemembered DEF SessionInv, SessionsAreSound
<1>. QED
  BY SessionInvariant, StaysBalanced, <1>1, PTL

(* A trajectory changes its server only when CacheSize others of its worker *)
(* have asked since it did (_choose_server, request_id_to_server): nothing  *)
(* else makes it lose its prefix cache.                                    *)
THEOREM SessionsStick == Spec => StickySession
<1>1. ASSUME SessionInv, [Next]_vars
      PROVE  [\A t \in Trajectories :
                server[t] # NoOne /\ server'[t] # server[t] =>
                  Cardinality(since[t] \cap On(Home[t])) >= CacheSize]_vars
  <2>. SUFFICES ASSUME NEW t \in Trajectories, server[t] # NoOne, server'[t] # server[t], Next
                PROVE  Cardinality(since[t] \cap On(Home[t])) >= CacheSize
    BY <1>1
  <2>1. PICK u \in Trajectories : Generate(u)
    BY DEF Next, Step, ServerAnswers, Finish, RefuseCall, CallTool, EnterPool, RunCode,
       PrintText, CodeEnds, Acquire, Release, aux
  <2>2. PICK s \in Servers : ChooseServer(u, s) /\ server' = [server EXCEPT ![u] = s]
    BY <2>1 DEF Generate
  <2>3. u = t /\ server'[t] = s
    BY <1>1, <2>2 DEF SessionInv, TypeOK
  <2>4. sticky[t] # NoOne => s = sticky[t]
    BY <2>2, <2>3 DEF ChooseServer
  <2>. QED
    BY <1>1, <2>3, <2>4 DEF SessionInv, Remembering
<1>. QED
  BY SessionInvariant, <1>1, PTL DEF Spec, StickySession
=============================================================================
