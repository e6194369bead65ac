------------------------ MODULE RewardBatchingProofs ------------------------
(***************************************************************************)
(* Theorems about the reward batching, for any workers, prompts and        *)
(* configurations: every agent loop gets its own score, the executor holds *)
(* one submission of a worker and runs whole micro batches, and a call     *)
(* that has returned leaves nothing behind.                                *)
(*                                                                         *)
(* OwnScore relates an agent loop to its future; what ties them together   *)
(* in between is the reward actor, which is blocked in the submission at   *)
(* the head of its mailbox (Held), has been answered only for that one     *)
(* (Mail), and asks only for loops that are waiting.                       *)
(***************************************************************************)
EXTENDS RewardBatching, TLAPS

\* Whose calls a reward actor has still to serve; only the one it is blocked in may
\* have been answered.
Mail ==
    \A w \in Worker : \A i \in DOMAIN mailbox[w] :
        /\ mailbox[w][i][1] = w
        /\ loop[mailbox[w][i]] = "asking"
        /\ \A j \in DOMAIN mailbox[w] : mailbox[w][j] = mailbox[w][i] => i = j
        /\ answer[mailbox[w][i]] # None => i = 1 /\ w \in blocked

\* The submission s that the executor holds is the one its reward actor waits for.
Awaited(s) == s[1] \in blocked /\ s = Head(mailbox[s[1]]) /\ answer[s] = None

Held ==
    /\ \A w \in blocked : mailbox[w] # <<>>
    /\ \A i \in DOMAIN q : Awaited(q[i])
    /\ \A i \in DOMAIN items : Awaited(items[i])

\* One submission of a worker, in the queue or in the batch.
Apart ==
    /\ \A i, j \in DOMAIN q : q[i][1] = q[j][1] => i = j
    /\ \A i, j \in DOMAIN items : items[i][1] = items[j][1] => i = j
    /\ \A i \in DOMAIN q, j \in DOMAIN items : q[i][1] # items[j][1]

\* A future holds an error or the score of its own sample; it is new while the loop
\* generates.
Answers ==
    \A s \in Sample :
        /\ answer[s] \in {None, Error, s}
        /\ loop[s] = "running" => answer[s] = None

\* The thread has a batch when it is past the first get.
Batch == (thread = "get" <=> items = <<>>) /\ BatchesAreWhole

\* Nothing runs between calls.
Idle ==
    manager = "idle" => ~awake /\ \A s \in Sample : loop[s] \in {"none", "done"}

IInv == TypeOK /\ Mail /\ Held /\ Apart /\ Answers /\ Batch /\ Idle /\ OwnScore

-----------------------------------------------------------------------------
LEMMA Futures == None # Error /\ \A s \in Sample : s # None /\ s # Error /\ s[1] \in Worker
<1>1. None # Error
  BY DEF None, Error
<1>2. ASSUME NEW s \in Sample PROVE s # None /\ s # Error /\ s[1] \in Worker
  <2>1. PICK w \in Worker, k \in 1..(MaxPrompts \div Workers) : s = <<w, k>>
    BY DEF Sample
  <2>2. Len(s) = 2 /\ Len(None) = 0 /\ Len(Error) = 1
    BY <2>1 DEF None, Error
  <2>. QED
    BY <2>1, <2>2
<1>. QED
  BY <1>1, <1>2

LEMMA InitIInv == Init => IInv
<1>. SUFFICES ASSUME Init PROVE IInv
  OBVIOUS
<1>1. TypeOK
  <2>1. mailbox \in [Worker -> Seq(Sample)]
    <3>1. <<>> \in Seq(Sample)
      OBVIOUS
    <3>. QED
      BY <3>1 DEF Init
  <2>2. answer \in [Sample -> Sample \cup {None, Error}]
    BY DEF Init
  <2>3. loop \in [Sample -> {"none", "running", "asking", "done", "failed"}]
    BY DEF Init
  <2>4. q \in Seq(Sample) /\ items \in Seq(Sample)
    BY DEF Init
  <2>5. calls \in Nat /\ awake \in BOOLEAN /\ blocked \subseteq Worker
    BY DEF Init
  <2>. QED
    BY <2>1, <2>2, <2>3, <2>4, <2>5 DEF Init, TypeOK
<1>2. Mail /\ Held /\ Apart
  BY DEF Init, Mail, Held, Apart
<1>3. Answers /\ Batch /\ Idle /\ OwnScore
  BY DEF Init, Answers, Batch, BatchesAreWhole, Idle, OwnScore
<1>. QED
  BY <1>1, <1>2, <1>3 DEF IInv

\* The manager's steps but Call leave loops, actors and executor alone.
LEMMA ManagerSteps ==
  ASSUME IInv, CallRefused \/ ChunkFails \/ Return \/ RaiseCall
  PROVE  IInv'
<1>. USE DEF CallRefused, ChunkFails, Return, RaiseCall, rewards, executor
<1>1. UNCHANGED <<config, calls, loop, rewards, executor>>
  OBVIOUS
<1>2. TypeOK'
  BY <1>1 DEF IInv, TypeOK
<1>3. Idle'
  BY <1>1 DEF IInv, Idle
<1>4. Mail' /\ Held' /\ Apart' /\ Answers' /\ OwnScore'
  BY <1>1 DEF IInv, Mail, Held, Awaited, Apart, Answers, OwnScore
<1>5. Batch'
  BY <1>1 DEF IInv, Batch, BatchesAreWhole, Whole
<1>. QED
  BY <1>2, <1>3, <1>4, <1>5 DEF IInv

\* Between calls mailboxes, queue and batch are empty.
LEMMA NothingLeft ==
  ASSUME IInv, manager = "idle"
  PROVE  /\ \A w \in Worker : mailbox[w] = <<>>
         /\ blocked = {} /\ q = <<>> /\ items = <<>> /\ thread = "get"
<1>1. ASSUME NEW w \in Worker PROVE mailbox[w] = <<>>
  <2>. SUFFICES ASSUME mailbox[w] # <<>> PROVE FALSE
    OBVIOUS
  <2>1. mailbox[w] \in Seq(Sample) /\ 1 \in DOMAIN mailbox[w]
    BY DEF IInv, TypeOK
  <2>2. loop[mailbox[w][1]] = "asking" /\ mailbox[w][1] \in Sample
    BY <2>1 DEF IInv, Mail
  <2>. QED
    BY <2>2 DEF IInv, Idle
<1>2. blocked = {}
  BY <1>1 DEF IInv, Held, TypeOK
<1>3. q = <<>>
  <2>. SUFFICES ASSUME q # <<>> PROVE FALSE
    OBVIOUS
  <2>1. 1 \in DOMAIN q
    BY DEF IInv, TypeOK
  <2>. QED
    BY <2>1, <1>2 DEF IInv, Held, Awaited
<1>4. items = <<>>
  <2>. SUFFICES ASSUME items # <<>> PROVE FALSE
    OBVIOUS
  <2>1. 1 \in DOMAIN items
    BY DEF IInv, TypeOK
  <2>. QED
    BY <2>1, <1>2 DEF IInv, Held, Awaited
<1>5. thread = "get"
  BY <1>4 DEF IInv, Batch
<1>. QED
  BY <1>1, <1>2, <1>3, <1>4, <1>5

LEMMA CallStep ==
  ASSUME IInv, Call
  PROVE  IInv'
<1>1. /\ \A w \in Worker : mailbox[w] = <<>>
      /\ blocked = {} /\ q = <<>> /\ items = <<>> /\ thread = "get"
  BY NothingLeft DEF Call
<1>2. UNCHANGED <<config, mailbox, blocked, q, thread, items>>
  BY DEF Call, rewards
<1>3. /\ answer' = [s \in Sample |-> None]
      /\ loop' \in [Sample -> {"none", "running"}]
      /\ manager' = "waiting" /\ awake' = TRUE /\ calls' = calls + 1
  BY DEF Call
<1>4. TypeOK'
  BY <1>2, <1>3 DEF IInv, TypeOK
<1>5. Mail' /\ Held' /\ Apart'
  BY <1>1, <1>2 DEF Mail, Held, Apart
<1>6. Answers' /\ Idle' /\ OwnScore'
  BY <1>3 DEF Answers, Idle, OwnScore
<1>7. Batch'
  BY <1>1, <1>2 DEF Batch, BatchesAreWhole
<1>. QED
  BY <1>4, <1>5, <1>6, <1>7 DEF IInv

\* A new call in a mailbox is not yet answered and nobody else's.
LEMMA AskScoreStep ==
  ASSUME IInv, NEW s \in Sample, AskScore(s)
  PROVE  IInv'
<1>. DEFINE w == s[1]
            m == mailbox[w]
<1>1. /\ loop[s] = "running" /\ loop' = [loop EXCEPT ![s] = "asking"]
      /\ mailbox' = [mailbox EXCEPT ![w] = Append(m, s)]
      /\ UNCHANGED <<config, manager, awake, calls, blocked, q, thread, items, answer>>
  BY DEF AskScore, managers, executor
<1>2. w \in Worker /\ m \in Seq(Sample)
  BY Futures DEF IInv, TypeOK
<1>3. answer[s] = None
  BY <1>1 DEF IInv, Answers
<1>4. \A v \in Worker : \A i \in DOMAIN mailbox[v] :
         mailbox[v][i] # s /\ mailbox[v][i] \in Sample
  BY <1>1 DEF IInv, Mail, TypeOK
<1>5. TypeOK'
  BY <1>1, <1>2 DEF IInv, TypeOK
<1>6. Mail'
  <2>. SUFFICES ASSUME NEW v \in Worker, NEW i \in DOMAIN mailbox'[v]
                PROVE  /\ mailbox'[v][i][1] = v
                       /\ loop'[mailbox'[v][i]] = "asking"
                       /\ \A j \in DOMAIN mailbox'[v] : mailbox'[v][j] = mailbox'[v][i] => i = j
                       /\ answer[mailbox'[v][i]] # None => i = 1 /\ v \in blocked
    BY <1>1 DEF Mail
  <2>0. mailbox[v] \in Seq(Sample) /\ mailbox \in [Worker -> Seq(Sample)] /\ s \in DOMAIN loop
    BY DEF IInv, TypeOK
  <2>1. CASE v # w
    <3>1. mailbox'[v] = mailbox[v]
      BY <2>1, <1>1, <2>0
    <3>. QED
      BY <3>1, <1>1, <1>4, <2>0 DEF IInv, Mail
  <2>2. CASE v = w
    <3>1. mailbox'[v] = Append(m, s)
      BY <2>2, <1>1, <1>2, <2>0
    <3>2. CASE i = Len(m) + 1
      <4>1. mailbox'[v][i] = s
        BY <3>1, <3>2, <1>2
      <4>2. \A j \in DOMAIN mailbox'[v] : j # i => j \in DOMAIN m /\ mailbox'[v][j] = m[j]
        BY <3>1, <3>2, <1>2
      <4>. QED
        BY <4>1, <4>2, <1>1, <1>2, <1>3, <1>4, <2>0, <2>2
    <3>3. CASE i # Len(m) + 1
      <4>1. i \in DOMAIN m /\ mailbox'[v][i] = m[i]
        BY <3>1, <3>3, <1>2
      <4>2. \A j \in DOMAIN mailbox'[v] :
               mailbox'[v][j] = s \/ (j \in DOMAIN m /\ mailbox'[v][j] = m[j])
        BY <3>1, <1>2
      <4>3. loop'[m[i]] = "asking"
        BY <4>1, <1>1, <1>2, <1>4, <2>0 DEF IInv, Mail
      <4>. QED
        BY <4>1, <4>2, <4>3, <1>2, <1>4, <2>2 DEF IInv, Mail
    <3>. QED
      BY <3>2, <3>3
  <2>. QED
    BY <2>1, <2>2
<1>7. Held'
  <2>1. ASSUME NEW v \in blocked
        PROVE  mailbox'[v] # <<>> /\ Head(mailbox'[v]) = Head(mailbox[v])
    <3>1. v \in Worker /\ mailbox[v] # <<>> /\ mailbox[v] \in Seq(Sample)
      BY DEF IInv, Held, TypeOK
    <3>2. CASE v = w
      <4>1. mailbox'[v] = Append(m, s)
        BY <3>2, <1>1, <1>2 DEF IInv, TypeOK
      <4>2. Len(m) > 0
        BY <3>1, <3>2
      <4>3. Append(m, s) # <<>> /\ Append(m, s)[1] = m[1]
        BY <4>2, <1>2
      <4>. QED
        BY <4>1, <4>3, <3>2
    <3>3. CASE v # w
      BY <3>1, <3>3, <1>1 DEF IInv, TypeOK
    <3>. QED
      BY <3>2, <3>3
  <2>. QED
    BY <2>1, <1>1 DEF IInv, Held, Awaited
<1>8. Apart' /\ Batch'
  BY <1>1 DEF IInv, Apart, Batch, BatchesAreWhole, Whole
<1>9. Answers' /\ Idle' /\ OwnScore'
  BY <1>1 DEF IInv, Answers, Idle, OwnScore, TypeOK
<1>. QED
  BY <1>5, <1>6, <1>7, <1>8, <1>9 DEF IInv

LEMMA LoopFailsStep ==
  ASSUME IInv, NEW s \in Sample, LoopFails(s)
  PROVE  IInv'
<1>1. /\ loop[s] = "running" /\ loop' = [loop EXCEPT ![s] = "failed"]
      /\ UNCHANGED <<config, manager, awake, calls, mailbox, blocked, q, thread, items, answer>>
  BY DEF LoopFails, managers, rewards, executor
<1>2. TypeOK'
  BY <1>1 DEF IInv, TypeOK
<1>3. Mail'
  BY <1>1 DEF IInv, Mail, TypeOK
<1>4. Held' /\ Apart' /\ Batch'
  BY <1>1 DEF IInv, Held, Awaited, Apart, Batch, BatchesAreWhole, Whole
<1>5. Answers' /\ Idle' /\ OwnScore'
  BY <1>1 DEF IInv, Answers, Idle, OwnScore, TypeOK
<1>. QED
  BY <1>2, <1>3, <1>4, <1>5 DEF IInv

\* The reward actor was free: nothing of its worker is in the executor.
LEMMA SubmitStep ==
  ASSUME IInv, NEW w \in Worker, Submit(w)
  PROVE  IInv'
<1>. DEFINE m == mailbox[w]
            s == Head(m)
<1>1. /\ m # <<>> /\ w \notin blocked
      /\ q' = Append(q, s) /\ blocked' = blocked \cup {w}
      /\ UNCHANGED <<config, manager, awake, calls, loop, mailbox, thread, items, answer>>
  BY DEF Submit, managers
<1>2. m \in Seq(Sample) /\ q \in Seq(Sample)
  BY DEF IInv, TypeOK
<1>3. 1 \in DOMAIN m /\ s = m[1] /\ s \in Sample
  BY <1>1, <1>2
<1>4. s[1] = w /\ answer[s] = None
  BY <1>1, <1>3 DEF IInv, Mail
<1>5. TypeOK'
  <2>1. q' \in Seq(Sample)
    BY <1>1, <1>2, <1>3
  <2>. QED
    BY <2>1, <1>1 DEF IInv, TypeOK
<1>6. Mail'
  BY <1>1 DEF IInv, Mail
<1>7. \A i \in DOMAIN q' : q'[i] = s \/ (i \in DOMAIN q /\ q'[i] = q[i])
  BY <1>1, <1>2
<1>8. Held'
  <2>1. Awaited(s)'
    BY <1>1, <1>4 DEF Awaited
  <2>3. (\A i \in DOMAIN q : Awaited(q[i]))'
    <3>. SUFFICES ASSUME NEW i \in DOMAIN q' PROVE Awaited(q[i])'
      OBVIOUS
    <3>1. CASE q'[i] = s
      BY <3>1, <2>1, <1>1 DEF Awaited
    <3>2. CASE i \in DOMAIN q /\ q'[i] = q[i]
      BY <3>2, <1>1 DEF IInv, Held, Awaited
    <3>. QED
      BY <3>1, <3>2, <1>7
  <2>4. (\A i \in DOMAIN items : Awaited(items[i]))'
    BY <1>1 DEF IInv, Held, Awaited
  <2>5. (\A v \in blocked : mailbox[v] # <<>>)'
    BY <1>1 DEF IInv, Held
  <2>. QED
    BY <2>3, <2>4, <2>5 DEF Held
<1>9. Apart'
  <2>1. \A i \in DOMAIN q : q[i][1] # w
    BY <1>1 DEF IInv, Held, Awaited
  <2>2. \A i \in DOMAIN items : items[i][1] # w
    BY <1>1 DEF IInv, Held, Awaited
  <2>3. \A i \in DOMAIN q' : i \notin DOMAIN q => i = Len(q) + 1 /\ q'[i] = s
    BY <1>1, <1>2
  <2>4. \A i \in DOMAIN q : q'[i] = q[i]
    BY <1>1, <1>2
  <2>5. \A i, j \in DOMAIN q' : q'[i][1] = q'[j][1] => i = j
    BY <2>1, <2>3, <2>4, <1>4 DEF IInv, Apart
  <2>6. \A i \in DOMAIN q', j \in DOMAIN items : q'[i][1] # items[j][1]
    BY <2>2, <1>7, <1>4 DEF IInv, Apart
  <2>. QED
    BY <2>5, <2>6, <1>1 DEF IInv, Apart
<1>10. Answers' /\ Batch' /\ Idle' /\ OwnScore'
  BY <1>1 DEF IInv, Answers, Batch, BatchesAreWhole, Whole, Idle, OwnScore
<1>. QED
  BY <1>5, <1>6, <1>8, <1>9, <1>10 DEF IInv

\* The next call of the mailbox has no answer yet, and what the executor still holds
\* is of other workers.
LEMMA ResumeStep ==
  ASSUME IInv, NEW w \in Worker, Resume(w)
  PROVE  IInv'
<1>. DEFINE m == mailbox[w]
            s == Head(m)
<1>1. /\ w \in blocked /\ answer[s] # None
      /\ loop' = [loop EXCEPT ![s] = IF answer[s] = Error THEN "failed" ELSE "done"]
      /\ mailbox' = [mailbox EXCEPT ![w] = Tail(m)]
      /\ blocked' = blocked \ {w}
      /\ UNCHANGED <<config, manager, awake, calls, q, thread, items, answer>>
  BY DEF Resume, managers, executor
<1>2. /\ m \in Seq(Sample) /\ mailbox \in [Worker -> Seq(Sample)]
      /\ loop \in [Sample -> {"none", "running", "asking", "done", "failed"}]
  BY DEF IInv, TypeOK
<1>3. m # <<>>
  BY <1>1 DEF IInv, Held
<1>4. 1 \in DOMAIN m /\ s = m[1] /\ s \in Sample
  BY <1>2, <1>3
<1>5. s[1] = w /\ loop[s] = "asking"
  BY <1>4 DEF IInv, Mail
<1>6. \A x \in Sample : x # s => loop'[x] = loop[x]
  BY <1>1, <1>2
<1>7. /\ mailbox'[w] = Tail(m)
      /\ \A v \in Worker : v # w => mailbox'[v] = mailbox[v]
  BY <1>1, <1>2
<1>8. Tail(m) \in Seq(Sample) /\ \A i \in DOMAIN Tail(m) : i + 1 \in DOMAIN m /\ Tail(m)[i] = m[i + 1]
  BY <1>2, <1>3
<1>9. TypeOK'
  <2>1. mailbox' \in [Worker -> Seq(Sample)]
    BY <1>1, <1>2, <1>8
  <2>2. loop' \in [Sample -> {"none", "running", "asking", "done", "failed"}]
    BY <1>1, <1>2
  <2>3. blocked' \subseteq Worker
    BY <1>1 DEF IInv, TypeOK
  <2>. QED
    BY <2>1, <2>2, <2>3, <1>1 DEF IInv, TypeOK
<1>10. Mail'
  <2>. SUFFICES ASSUME NEW v \in Worker, NEW i \in DOMAIN mailbox'[v]
                PROVE  /\ mailbox'[v][i][1] = v
                       /\ loop'[mailbox'[v][i]] = "asking"
                       /\ \A j \in DOMAIN mailbox'[v] : mailbox'[v][j] = mailbox'[v][i] => i = j
                       /\ answer[mailbox'[v][i]] # None => i = 1 /\ v \in blocked'
    BY <1>1 DEF Mail
  <2>1. CASE v # w
    <3>1. mailbox'[v] = mailbox[v] /\ mailbox[v] \in Seq(Sample)
      BY <2>1, <1>7, <1>2
    <3>2. mailbox[v][i][1] = v /\ mailbox[v][i] \in Sample /\ loop[mailbox[v][i]] = "asking"
      BY <3>1 DEF IInv, Mail
    <3>3. loop'[mailbox[v][i]] = "asking"
      BY <3>2, <2>1, <1>5, <1>6
    <3>. QED
      BY <3>1, <3>2, <3>3, <2>1, <1>1 DEF IInv, Mail
  <2>2. CASE v = w
    <3>1. i \in DOMAIN Tail(m) /\ i \in Nat /\ i # 0
      BY <2>2, <1>7, <1>8
    <3>2. i + 1 \in DOMAIN m /\ mailbox'[v][i] = m[i + 1]
      BY <3>1, <2>2, <1>7, <1>8
    <3>3. i + 1 # 1
      BY <3>1
    <3>4. m[i + 1] # s /\ m[i + 1][1] = w /\ loop[m[i + 1]] = "asking" /\ answer[m[i + 1]] = None
      BY <3>2, <3>3, <1>4 DEF IInv, Mail
    <3>5. loop'[m[i + 1]] = "asking"
      BY <3>2, <3>4, <1>2, <1>6
    <3>6. ASSUME NEW j \in DOMAIN mailbox'[v], mailbox'[v][j] = mailbox'[v][i] PROVE i = j
      <4>1. j \in Nat /\ j + 1 \in DOMAIN m /\ mailbox'[v][j] = m[j + 1]
        BY <2>2, <1>7, <1>8
      <4>2. m[j + 1] = m[i + 1]
        BY <4>1, <3>2, <3>6
      <4>3. \A k, l \in DOMAIN m : m[k] = m[l] => k = l
        BY DEF IInv, Mail
      <4>4. i + 1 = j + 1
        BY <4>1, <4>2, <4>3, <3>2
      <4>. QED
        BY <4>1, <4>4, <3>1
    <3>. QED
      BY <3>2, <3>4, <3>5, <3>6, <2>2
  <2>. QED
    BY <2>1, <2>2
<1>11. Held'
  <2>2. (\A v \in blocked : mailbox[v] # <<>>)'
    BY <1>1, <1>7 DEF IInv, Held, TypeOK
  <2>3. \A x : Awaited(x) => x[1] \in Worker
    BY DEF Awaited, IInv, TypeOK
  <2>4. (\A i \in DOMAIN q : Awaited(q[i]))'
    <3>. SUFFICES ASSUME NEW i \in DOMAIN q' PROVE Awaited(q[i])'
      OBVIOUS
    <3>1. Awaited(q[i])
      BY <1>1 DEF IInv, Held
    <3>2. q[i][1] # w /\ q[i][1] \in Worker
      BY <3>1, <2>3, <1>1 DEF Awaited
    <3>. QED
      BY <3>1, <3>2, <1>1, <1>7 DEF Awaited
  <2>5. (\A i \in DOMAIN items : Awaited(items[i]))'
    <3>. SUFFICES ASSUME NEW i \in DOMAIN items' PROVE Awaited(items[i])'
      OBVIOUS
    <3>1. Awaited(items[i])
      BY <1>1 DEF IInv, Held
    <3>2. items[i][1] # w /\ items[i][1] \in Worker
      BY <3>1, <2>3, <1>1 DEF Awaited
    <3>. QED
      BY <3>1, <3>2, <1>1, <1>7 DEF Awaited
  <2>. QED
    BY <2>2, <2>4, <2>5 DEF Held
<1>12. Apart' /\ Batch'
  BY <1>1 DEF IInv, Apart, Batch, BatchesAreWhole, Whole
<1>13. Answers' /\ Idle' /\ OwnScore'
  <2>1. loop'[s] \in {"done", "failed"} /\ (loop'[s] = "done" => answer[s] = s)
    BY <1>1, <1>2, <1>4 DEF IInv, Answers
  <2>2. manager # "idle"
    BY <1>4, <1>5 DEF IInv, Idle
  <2>. QED
    BY <2>1, <2>2, <1>1, <1>4, <1>6 DEF IInv, Answers, Idle, OwnScore
<1>. QED
  BY <1>9, <1>10, <1>11, <1>12, <1>13 DEF IInv

\* The executor's thread takes a submission; it has a whole batch when it goes on.
LEMMA TakeStep ==
  ASSUME IInv, NEW STATE next, next \in {"drain", "fill", "run"}, Take(next),
         next = "run" /\ config.max_batch_size = 0 => Whole(Append(items, Head(q)))
  PROVE  IInv'
<1>. DEFINE s == Head(q)
<1>1. /\ q # <<>> /\ items' = Append(items, s) /\ q' = Tail(q) /\ thread' = next
      /\ UNCHANGED <<config, manager, awake, calls, loop, mailbox, blocked, answer>>
  BY DEF Take, managers, rewards
<1>2. q \in Seq(Sample) /\ items \in Seq(Sample)
  BY DEF IInv, TypeOK
<1>3. 1 \in DOMAIN q /\ s = q[1] /\ s \in Sample
  BY <1>1, <1>2
<1>4. \A i \in DOMAIN q' : i \in Nat /\ i # 0 /\ i + 1 \in DOMAIN q /\ q'[i] = q[i + 1]
  BY <1>1, <1>2
<1>5. \A i \in DOMAIN items' :
         (i = Len(items) + 1 /\ items'[i] = s) \/ (i \in DOMAIN items /\ items'[i] = items[i])
  BY <1>1, <1>2
<1>6. TypeOK'
  <2>1. q' \in Seq(Sample) /\ items' \in Seq(Sample)
    BY <1>1, <1>2, <1>3
  <2>. QED
    BY <2>1, <1>1 DEF IInv, TypeOK
<1>7. Mail' /\ Answers' /\ Idle' /\ OwnScore'
  BY <1>1 DEF IInv, Mail, Answers, Idle, OwnScore
<1>8. Held'
  <2>1. (\A i \in DOMAIN q : Awaited(q[i]))'
    <3>. SUFFICES ASSUME NEW i \in DOMAIN q' PROVE Awaited(q[i])'
      OBVIOUS
    <3>1. Awaited(q[i + 1]) /\ q'[i] = q[i + 1]
      BY <1>4 DEF IInv, Held
    <3>. QED
      BY <3>1, <1>1 DEF Awaited
  <2>2. (\A i \in DOMAIN items : Awaited(items[i]))'
    <3>. SUFFICES ASSUME NEW i \in DOMAIN items' PROVE Awaited(items[i])'
      OBVIOUS
    <3>1. Awaited(items'[i])
      BY <1>3, <1>5 DEF IInv, Held
    <3>. QED
      BY <3>1, <1>1 DEF Awaited
  <2>3. (\A v \in blocked : mailbox[v] # <<>>)'
    BY <1>1 DEF IInv, Held
  <2>. QED
    BY <2>1, <2>2, <2>3 DEF Held
<1>9. Apart'
  <2>1. ASSUME NEW i \in DOMAIN q', NEW j \in DOMAIN q', q'[i][1] = q'[j][1] PROVE i = j
    <3>1. i + 1 = j + 1
      BY <2>1, <1>4 DEF IInv, Apart
    <3>. QED
      BY <3>1, <1>4
  <2>2. \A i \in DOMAIN items : items[i][1] # s[1]
    BY <1>3 DEF IInv, Apart
  <2>3. \A i, j \in DOMAIN items' : items'[i][1] = items'[j][1] => i = j
    BY <2>2, <1>5 DEF IInv, Apart
  <2>4. ASSUME NEW i \in DOMAIN q', NEW j \in DOMAIN items' PROVE q'[i][1] # items'[j][1]
    <3>1. i + 1 \in DOMAIN q /\ i + 1 # 1 /\ q'[i] = q[i + 1]
      BY <1>4
    <3>2. q[i + 1][1] # s[1]
      BY <3>1, <1>3 DEF IInv, Apart
    <3>. QED
      BY <3>1, <3>2, <1>5 DEF IInv, Apart
  <2>. QED
    BY <2>1, <2>3, <2>4 DEF Apart
<1>10. Batch'
  <2>1. items' # <<>>
    BY <1>1, <1>2, <1>3
  <2>. QED
    BY <2>1, <1>1 DEF Batch, BatchesAreWhole, Whole
<1>. QED
  BY <1>6, <1>7, <1>8, <1>9, <1>10 DEF IInv

LEMMA DrainEndsStep ==
  ASSUME IInv, DrainEnds
  PROVE  IInv'
<1>1. /\ thread = "drain" /\ thread' = IF Whole(items) THEN "run" ELSE "fill"
      /\ UNCHANGED <<config, manager, awake, calls, loop, mailbox, blocked, q, items, answer>>
  BY DEF DrainEnds, managers, rewards
<1>2. TypeOK'
  BY <1>1 DEF IInv, TypeOK
<1>3. Mail' /\ Held' /\ Apart'
  BY <1>1 DEF IInv, Mail, Held, Awaited, Apart
<1>4. Answers' /\ Idle' /\ OwnScore'
  BY <1>1 DEF IInv, Answers, Idle, OwnScore
<1>5. Batch'
  <2>1. items # <<>>
    BY <1>1 DEF IInv, Batch
  <2>2. thread' = "run" => Whole(items)
    BY <1>1
  <2>3. thread' # "get"
    BY <1>1
  <2>. QED
    BY <2>1, <2>2, <2>3, <1>1 DEF Batch, BatchesAreWhole, Whole
<1>. QED
  BY <1>2, <1>3, <1>4, <1>5 DEF IInv

\* Every future of the batch is set to its own score or to an error; the others keep
\* what they hold.
LEMMA AnsweredStep ==
  ASSUME IInv, thread = "run", NEW STATE results,
         \A i \in DOMAIN items : results[i] \in {Error, items[i]},
         answer' = Answered(results), thread' = "get", items' = <<>>,
         UNCHANGED <<managers, loop, rewards, q>>
  PROVE  IInv'
<1>. USE DEF managers, rewards
<1>1. items \in Seq(Sample) /\ q \in Seq(Sample) /\ answer \in [Sample -> Sample \cup {None, Error}]
  BY DEF IInv, TypeOK
<1>2. \A s \in Sample : (\A i \in DOMAIN items : items[i] # s) => answer'[s] = answer[s]
  BY DEF Answered
<1>3. \A i \in DOMAIN items : answer'[items[i]] \in {Error, items[i]}
  <2>. SUFFICES ASSUME NEW i \in DOMAIN items PROVE answer'[items[i]] \in {Error, items[i]}
    OBVIOUS
  <2>. DEFINE k == CHOOSE k \in DOMAIN items : items[k] = items[i]
  <2>1. k \in DOMAIN items /\ items[k] = items[i]
    OBVIOUS
  <2>2. items[i] \in Sample
    BY <1>1
  <2>3. answer'[items[i]] = results[k]
    BY <2>2 DEF Answered
  <2>4. results[k] \in {Error, items[k]}
    BY <2>1
  <2>. QED
    BY <2>1, <2>3, <2>4
<1>4. \A i \in DOMAIN items : items[i] \in Sample /\ Awaited(items[i])
  BY <1>1 DEF IInv, Held
<1>5. ASSUME NEW i \in DOMAIN items
      PROVE  loop[items[i]] = "asking"
  <2>. DEFINE w == items[i][1]
  <2>1. w \in Worker /\ w \in blocked /\ items[i] = Head(mailbox[w])
    BY <1>4 DEF Awaited, IInv, TypeOK
  <2>2. mailbox[w] \in Seq(Sample) /\ mailbox[w] # <<>>
    BY <2>1 DEF IInv, Held, TypeOK
  <2>3. 1 \in DOMAIN mailbox[w] /\ items[i] = mailbox[w][1]
    BY <2>1, <2>2
  <2>. QED
    BY <2>1, <2>3 DEF IInv, Mail
<1>6. \A s \in Sample : answer'[s] \in {None, Error, s}
  BY <1>2, <1>3 DEF IInv, Answers
<1>7. TypeOK'
  <2>1. answer' \in [Sample -> Sample \cup {None, Error}]
    <3>1. answer' = [s \in Sample |-> answer'[s]]
      BY DEF Answered
    <3>. QED
      BY <3>1, <1>6
  <2>2. items' \in Seq(Sample)
    OBVIOUS
  <2>. QED
    BY <2>1, <2>2 DEF IInv, TypeOK
<1>8. Mail'
  <2>. SUFFICES ASSUME NEW w \in Worker, NEW i \in DOMAIN mailbox[w], answer'[mailbox[w][i]] # None
                PROVE  i = 1 /\ w \in blocked
    BY DEF IInv, Mail
  <2>1. mailbox[w] \in Seq(Sample) /\ mailbox[w][i] \in Sample /\ mailbox[w][i][1] = w
    BY DEF IInv, Mail, TypeOK
  <2>2. CASE \A k \in DOMAIN items : items[k] # mailbox[w][i]
    BY <2>1, <2>2, <1>2 DEF IInv, Mail
  <2>3. CASE \E k \in DOMAIN items : items[k] = mailbox[w][i]
    <3>1. w \in blocked /\ mailbox[w][i] = Head(mailbox[w])
      BY <2>1, <2>3, <1>4 DEF Awaited
    <3>2. 1 \in DOMAIN mailbox[w] /\ mailbox[w][i] = mailbox[w][1]
      BY <3>1, <2>1 DEF IInv, Held
    <3>. QED
      BY <3>1, <3>2 DEF IInv, Mail
  <2>. QED
    BY <2>2, <2>3
<1>9. Held' /\ Apart'
  <2>1. ASSUME NEW i \in DOMAIN q PROVE answer'[q[i]] = None
    <3>1. q[i] \in Sample /\ answer[q[i]] = None
      BY <1>1 DEF IInv, Held, Awaited
    <3>2. \A k \in DOMAIN items : items[k] # q[i]
      BY DEF IInv, Apart
    <3>. QED
      BY <3>1, <3>2, <1>2
  <2>2. Held'
    BY <2>1 DEF IInv, Held, Awaited
  <2>3. Apart'
    BY DEF IInv, Apart
  <2>. QED
    BY <2>2, <2>3
<1>10. Answers' /\ OwnScore'
  <2>1. \A s \in Sample : loop[s] # "asking" => answer'[s] = answer[s]
    BY <1>2, <1>5
  <2>. QED
    BY <2>1, <1>6 DEF IInv, Answers, OwnScore
<1>11. Batch' /\ Idle'
  BY DEF IInv, Batch, BatchesAreWhole, Idle
<1>. QED
  BY <1>7, <1>8, <1>9, <1>10, <1>11 DEF IInv

LEMMA WorkerLoopStep ==
  ASSUME IInv, WorkerLoop \/ BatchFails
  PROVE  IInv'
<1>1. CASE GetFirst
  BY <1>1, TakeStep DEF GetFirst
<1>2. CASE Drain
  <2>. DEFINE next == IF Full(Append(items, Head(q))) THEN "run" ELSE "drain"
  <2>1. Take(next) /\ next \in {"drain", "fill", "run"}
    BY <1>2 DEF Drain
  <2>2. next = "run" => config.max_batch_size # 0
    BY DEF Full
  <2>. QED
    BY <2>1, <2>2, TakeStep
<1>3. CASE DrainEnds
  BY <1>3, DrainEndsStep
<1>4. CASE Fill
  <2>. DEFINE batch == Append(items, Head(q))
              next == IF Full(batch) \/ Whole(batch) THEN "run" ELSE "fill"
  <2>1. Take(next) /\ next \in {"drain", "fill", "run"}
    BY <1>4 DEF Fill
  <2>2. next = "run" /\ config.max_batch_size = 0 => Whole(batch)
    BY DEF Full
  <2>. QED
    BY <2>1, <2>2, TakeStep
<1>5. CASE RunBatch
  BY <1>5, AnsweredStep DEF RunBatch
<1>6. CASE BatchFails
  <2>. DEFINE errors == [i \in DOMAIN items |-> Error]
  <2>1. \A i \in DOMAIN items : errors[i] \in {Error, items[i]}
    OBVIOUS
  <2>. QED
    BY <2>1, <1>6, AnsweredStep DEF BatchFails
<1>. QED
  BY <1>1, <1>2, <1>3, <1>4, <1>5, <1>6 DEF WorkerLoop

LEMMA NextIInv == IInv /\ [Next]_vars => IInv'
<1>. SUFFICES ASSUME IInv, [Next]_vars PROVE IInv'
  OBVIOUS
<1>1. CASE CallRefused \/ ChunkFails \/ Return \/ RaiseCall
  BY <1>1, ManagerSteps
<1>2. CASE Call
  BY <1>2, CallStep
<1>3. ASSUME NEW s \in Sample, AskScore(s) \/ LoopFails(s) PROVE IInv'
  BY <1>3, AskScoreStep, LoopFailsStep
<1>4. ASSUME NEW w \in Worker, Submit(w) \/ Resume(w) PROVE IInv'
  BY <1>4, SubmitStep, ResumeStep
<1>5. CASE WorkerLoop \/ BatchFails
  BY <1>5, WorkerLoopStep
<1>6. CASE UNCHANGED vars
  <2>. USE <1>6 DEF vars, managers, rewards, executor
  <2>1. TypeOK' /\ Mail' /\ Apart'
    BY DEF IInv, TypeOK, Mail, Apart
  <2>2. Held' /\ Answers' /\ Idle'
    BY DEF IInv, Held, Awaited, Answers, Idle
  <2>3. Batch' /\ OwnScore'
    BY DEF IInv, Batch, BatchesAreWhole, Whole, OwnScore
  <2>. QED
    BY <2>1, <2>2, <2>3 DEF IInv
<1>. QED
  BY <1>1, <1>2, <1>3, <1>4, <1>5, <1>6 DEF Next

\* IInv is an invariant of the reward batching.
THEOREM Invariant == Spec => []IInv
BY InitIInv, NextIInv, PTL DEF Spec

\* BatchExecutor splits a batch's output among its futures and compute_score returns to
\* the agent loop that asked: no agent loop gets another one's score, whichever
\* workers' submissions share a batch, and whether or not batches fail.
THEOREM OwnScoreHolds == Spec => []OwnScore
<1>1. IInv => OwnScore
  BY DEF IInv
<1>. QED
  BY <1>1, Invariant, PTL

LEMMA OneEach == IInv => OneSubmissionPerWorker
<1>. SUFFICES ASSUME IInv, NEW i \in DOMAIN (q \o items), NEW j \in DOMAIN (q \o items),
                     (q \o items)[i][1] = (q \o items)[j][1]
              PROVE  i = j
  BY DEF OneSubmissionPerWorker
<1>1. q \in Seq(Sample) /\ items \in Seq(Sample)
  BY DEF IInv, TypeOK
<1>2. ASSUME NEW k \in DOMAIN (q \o items)
      PROVE  \/ k \in DOMAIN q /\ (q \o items)[k] = q[k]
             \/ k \in Nat /\ k - Len(q) \in DOMAIN items /\ (q \o items)[k] = items[k - Len(q)]
  BY <1>1
<1>3. CASE i \in DOMAIN q /\ j \in DOMAIN q
  BY <1>1, <1>3 DEF IInv, Apart
<1>4. CASE i \in DOMAIN q /\ j \notin DOMAIN q
  BY <1>1, <1>2, <1>4 DEF IInv, Apart
<1>5. CASE i \notin DOMAIN q /\ j \in DOMAIN q
  BY <1>1, <1>2, <1>5 DEF IInv, Apart
<1>6. CASE i \notin DOMAIN q /\ j \notin DOMAIN q
  <2>1. i - Len(q) = j - Len(q)
    BY <1>2, <1>6 DEF IInv, Apart
  <2>. QED
    BY <2>1, <1>1, <1>2, <1>6
<1>. QED
  BY <1>3, <1>4, <1>5, <1>6

\* BatchExecutor's queue and batch together hold at most one submission of a worker (its
\* reward actor is blocked in it), and without max_batch_size what it runs is a
\* whole number of micro batches.
THEOREM QueueStaysSound == Spec => []QueueIsSound
<1>1. IInv => QueueIsSound
  BY OneEach DEF QueueIsSound, IInv, Batch
<1>. QED
  BY <1>1, Invariant, PTL

\* When generate_sequences has returned (or was not called yet) the replicas sleep and no
\* actor, queue or batch holds anything: the next call starts from nothing.
THEOREM QuietBetween == Spec => []QuietBetweenCalls
<1>1. IInv => QuietBetweenCalls
  BY NothingLeft DEF QuietBetweenCalls, IInv, Idle
<1>. QED
  BY <1>1, Invariant, PTL
=============================================================================
