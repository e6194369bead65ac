------------------------ MODULE ToolAgentLoopProofs ------------------------
(***************************************************************************)
(* Theorems about one trajectory of the tool agent loop, for any lengths,  *)
(* limits, tool outcomes and numbers of concurrent calls: the response     *)
(* mask, the log probabilities and the images stay with the tokens they    *)
(* belong to, every tool instance is released, and the limits hold.        *)
(*                                                                         *)
(* MaskMarksGenerated speaks of positions counted from the end of the      *)
(* token ids.  What keeps it is that every turn adds as much to the mask   *)
(* as to the ids (Growth), and to the log probabilities, which are padded  *)
(* only if there are some: a user's turn comes after an answer (Phase).    *)
(***************************************************************************)
EXTENDS ToolAgentLoop, FiniteSetTheorems, SequenceTheorems, TLAPS

Token == {"prompt", "gen", "image", "text"}
Bit == {0, 1}
LogProb == {"real", "zero"}

\* What holds in each state of the loop besides its types.
Phase ==
    /\ state = "pending" =>
          /\ ids = <<>> /\ mask = <<>> /\ logprobs = <<>> /\ Len(images) = 1
          /\ userTurns = 0 /\ assistantTurns = 0
    /\ state = "interacting" => config.interaction
    /\ state \in {"processing_tools", "interacting"} => Len(mask) > 0
    /\ state = "generating" /\ ~config.interaction => Len(mask) < config.response_length

\* Turns alternate, and a limit that is reached ends the loop after the next answer.
Turns ==
    /\ state = "generating" =>
          /\ userTurns = assistantTurns
          /\ config.max_assistant_turns > 0 => assistantTurns < config.max_assistant_turns
          /\ config.max_user_turns > 0 => userTurns <= config.max_user_turns
    /\ state \in {"processing_tools", "interacting"} =>
          /\ assistantTurns = userTurns + 1
          /\ config.max_assistant_turns > 0 => assistantTurns < config.max_assistant_turns
          /\ config.max_user_turns > 0 => userTurns < config.max_user_turns
    /\ TurnsWithinLimits

\* An instance belongs to a call that has created it and not come to its end.
Instances ==
    /\ instances \subseteq {i \in DOMAIN calls : calls[i] \in {"executing", "hanging", "executed"}}
    /\ InstancesReleased

\* Tools and model share the images until the loop ends.
Shared == state \notin {"terminated", "raised"} => toolImages = images

\* Every image has its placeholder, none of them behind the end of the response.
ImageAt(s) == {i \in DOMAIN s : s[i] = "image"}
Pictures ==
    state # "pending" =>
        /\ IsFiniteSet(ImageAt(ids)) /\ Cardinality(ImageAt(ids)) = Len(images)
        /\ \A i \in ImageAt(ids) : i <= Cut + config.response_length

IInv ==
    /\ TypeOK /\ Phase /\ Turns /\ Instances /\ Shared /\ Pictures
    /\ MaskMarksGenerated

-----------------------------------------------------------------------------
(* Sequences. *)

LEMMA CopiesType ==
  ASSUME NEW S, NEW x \in S, NEW n \in Nat
  PROVE  Copies(x, n) \in Seq(S) /\ Len(Copies(x, n)) = n /\ \A i \in 1..n : Copies(x, n)[i] = x
BY DEF Copies

LEMMA Shift == \A a, b, i \in Int : (a - b) + i = a + (i - b)
OBVIOUS

\* The text t has a mask m for its last part, and is longer. With x and y added to
\* them, what was there stays where it was, counted from the prompt's end.
Masked(t, m, c) == c = Len(t) - Len(m) /\ c \in 1..Len(t)

Grown(t, m, x, y, c) ==
    /\ Masked(t \o x, m \o y, c)
    /\ SubSeq(t \o x, 1, c) = SubSeq(t, 1, c)
    /\ \A i \in DOMAIN (m \o y) :
          \/ /\ i \in DOMAIN m
             /\ (m \o y)[i] = m[i] /\ (t \o x)[c + i] = t[c + i]
          \/ \E j \in 1..Len(y) :
             /\ i = Len(m) + j
             /\ (m \o y)[i] = y[j] /\ (t \o x)[c + i] = x[j]

LEMMA Growth ==
  ASSUME NEW S, NEW t \in Seq(S), NEW x \in Seq(S),
         NEW R, NEW m \in Seq(R), NEW y \in Seq(R),
         Len(x) = Len(y), NEW c, Masked(t, m, c)
  PROVE  Grown(t, m, x, y, c)
<1>. USE DEF Masked
<1>1. /\ Len(t) \in Nat /\ Len(x) \in Nat /\ Len(m) \in Nat /\ Len(y) \in Nat
      /\ Len(t \o x) = Len(t) + Len(x) /\ Len(m \o y) = Len(m) + Len(y)
  BY ConcatProperties, LenProperties
<1>2. Len(t \o x) - Len(m \o y) = c /\ c \in 1..Len(t \o x) /\ c \in Nat
  BY <1>1
<1>3. SubSeq(t \o x, 1, c) = SubSeq(t, 1, c)
  <2>1. 1 \in 1..Len(t) /\ c \in 1..Len(t)
    BY <1>1
  <2>. QED
    BY <2>1, SubSeqOfConcat1
<1>4. ASSUME NEW i \in DOMAIN (m \o y)
      PROVE  \/ /\ i \in DOMAIN m
                /\ (m \o y)[i] = m[i] /\ (t \o x)[c + i] = t[c + i]
             \/ \E j \in 1..Len(y) :
                /\ i = Len(m) + j
                /\ (m \o y)[i] = y[j] /\ (t \o x)[c + i] = x[j]
  <2>1. i \in 1..(Len(m) + Len(y))
    BY <1>1
  <2>2. CASE i <= Len(m)
    <3>1. i \in DOMAIN m /\ (m \o y)[i] = m[i]
      BY <2>1, <2>2, <1>1
    <3>2. c + i \in 1..Len(t)
      BY <2>1, <2>2, <1>1
    <3>3. (t \o x)[c + i] = t[c + i]
      BY <3>2, <1>1
    <3>. QED
      BY <3>1, <3>3
  <2>3. CASE i > Len(m)
    <3>. DEFINE j == i - Len(m)
    <3>1. j \in 1..Len(y) /\ i = Len(m) + j
      BY <2>1, <2>3, <1>1
    <3>2. (m \o y)[i] = y[j]
      BY <2>1, <2>3, <1>1
    <3>3. c + i = Len(t) + j /\ c + i \in 1..(Len(t) + Len(x)) /\ ~(c + i <= Len(t))
      <4>0. i \in Int /\ Len(t) \in Int /\ Len(m) \in Int
        BY <1>1, <2>1
      <4>1. c + i = Len(t) + j
        BY <4>0, Shift
      <4>2. j \in 1..Len(x) /\ Len(t) \in Nat /\ Len(x) \in Nat
        BY <3>1, <1>1
      <4>. HIDE DEF j
      <4>. QED
        BY <4>1, <4>2
    <3>4. (t \o x)[c + i] = x[(c + i) - Len(t)]
      BY <3>3, ConcatProperties
    <3>5. (c + i) - Len(t) = j
      BY <3>3, <3>1, <1>1
    <3>. QED
      BY <3>1, <3>2, <3>4, <3>5
  <2>4. i <= Len(m) \/ i > Len(m)
    BY <2>1, <1>1
  <2>. QED
    BY <2>2, <2>3, <2>4
<1>. QED
  BY <1>2, <1>3, <1>4 DEF Grown

\* The images of a text that grows.
LEMMA ImagesOf ==
  ASSUME NEW S, NEW t \in Seq(S), NEW x \in Seq(S), NEW k \in Nat,
         IsFiniteSet(ImageAt(t)),
         k <= Len(x), \A i \in DOMAIN x : x[i] = "image" <=> i <= k
  PROVE  /\ ImageAt(t \o x) = ImageAt(t) \cup ((Len(t) + 1)..(Len(t) + k))
         /\ IsFiniteSet(ImageAt(t \o x))
         /\ Cardinality(ImageAt(t \o x)) = Cardinality(ImageAt(t)) + k
<1>. DEFINE new == (Len(t) + 1)..(Len(t) + k)
<1>1. Len(t) \in Nat /\ Len(x) \in Nat /\ DOMAIN t = 1..Len(t) /\ DOMAIN x = 1..Len(x)
  OBVIOUS
<1>2. DOMAIN (t \o x) = 1..(Len(t) + Len(x))
  BY <1>1
<1>3. \A i \in 1..(Len(t) + Len(x)) : (t \o x)[i] = IF i <= Len(t) THEN t[i] ELSE x[i - Len(t)]
  BY ConcatProperties
<1>4. ASSUME NEW i \in 1..(Len(t) + Len(x)), i > Len(t)
      PROVE  (t \o x)[i] = "image" <=> i <= Len(t) + k
  <2>1. i - Len(t) \in DOMAIN x /\ (i - Len(t) <= k <=> i <= Len(t) + k) /\ ~(i <= Len(t))
    BY <1>1, <1>4
  <2>2. (t \o x)[i] = x[i - Len(t)]
    BY <1>3, <2>1
  <2>. QED
    BY <2>1, <2>2
<1>5. ImageAt(t \o x) = ImageAt(t) \cup new
  <2>1. ASSUME NEW i \in ImageAt(t \o x) PROVE i \in ImageAt(t) \cup new
    <3>1. i \in 1..(Len(t) + Len(x)) /\ (t \o x)[i] = "image"
      BY <1>2 DEF ImageAt
    <3>. QED
      BY <3>1, <1>1, <1>3, <1>4 DEF ImageAt
  <2>2. ASSUME NEW i \in ImageAt(t) PROVE i \in ImageAt(t \o x)
    BY <1>1, <1>2, <1>3 DEF ImageAt
  <2>3. ASSUME NEW i \in new PROVE i \in ImageAt(t \o x)
    <3>1. i \in 1..(Len(t) + Len(x)) /\ i > Len(t) /\ i <= Len(t) + k
      BY <1>1
    <3>. QED
      BY <3>1, <1>2, <1>4 DEF ImageAt
  <2>. QED
    BY <2>1, <2>2, <2>3
<1>6. IsFiniteSet(new) /\ Cardinality(new) = k
  <2>1. Len(t) + 1 \in Int /\ Len(t) + k \in Int
    BY <1>1
  <2>2. IsFiniteSet(new) /\ Cardinality(new) =
           IF Len(t) + 1 > Len(t) + k THEN 0 ELSE (Len(t) + k) - (Len(t) + 1) + 1
    BY <2>1, FS_Interval
  <2>. QED
    BY <2>2, <1>1
<1>7. ImageAt(t) \cap new = {}
  BY <1>1 DEF ImageAt
<1>8. /\ IsFiniteSet(ImageAt(t) \cup new)
      /\ Cardinality(ImageAt(t) \cup new) = Cardinality(ImageAt(t)) + k - Cardinality({})
  BY <1>6, <1>7, FS_Union
<1>9. Cardinality({}) = 0 /\ Cardinality(ImageAt(t)) \in Nat
  BY FS_EmptySet, FS_CardinalityType
<1>. QED
  BY <1>5, <1>8, <1>9

-----------------------------------------------------------------------------
(* Steps. *)

LEMMA Settings ==
  ASSUME IInv
  PROVE  /\ config \in Config
         /\ config.response_length \in Nat \ {0} /\ config.schema_length \in Nat
         /\ config.max_user_turns \in Nat /\ config.max_assistant_turns \in Nat
         /\ config.max_text \in Nat \ {0} /\ config.max_calls \in Nat
         /\ PromptLength \in Nat \ {0} /\ MaxGenerated \in Nat \ {0} /\ MaxParallelCalls \in Nat \ {0}
<1>1. config \in Config
  BY AgentAssumption DEF IInv, TypeOK
<1>. QED
  BY <1>1, AgentAssumption DEF Config

LEMMA InitIInv == Init => IInv
<1>. SUFFICES ASSUME Init PROVE IInv
  OBVIOUS
<1>1. ids = <<>> /\ mask = <<>> /\ logprobs = <<>> /\ calls = <<>> /\ result = <<>> /\ state = "pending"
  BY DEF Init
<1>2. images \in Seq(Nat \X Nat) /\ toolImages \in Seq(Nat \X Nat) /\ Len(images) = 1
  BY DEF Init, RootImage
<1>3. TypeOK
  <2>1. ids \in Seq(Token) /\ mask \in Seq(Bit) /\ logprobs \in Seq(LogProb) /\ calls \in Seq(Stages)
    BY <1>1
  <2>2. result \in [DOMAIN calls -> {"none", "error", "text", "image", "invalid"}]
    BY <1>1
  <2>3. state \in States
    BY <1>1 DEF States
  <2>. QED
    BY <2>1, <2>2, <2>3, <1>2 DEF Init, TypeOK, Token, Bit, LogProb
<1>4. Phase /\ Turns /\ Instances /\ Shared
  <2>1. config \in Config
    BY AgentAssumption DEF Init
  <2>2. config.max_user_turns \in Nat /\ config.max_assistant_turns \in Nat
    BY <2>1 DEF Config
  <2>. QED
    BY <2>2, <1>1, <1>2 DEF Init, Phase, Turns, TurnsWithinLimits, Instances, InstancesReleased, Shared
<1>5. Pictures /\ MaskMarksGenerated
  BY <1>1 DEF Pictures, MaskMarksGenerated
<1>. QED
  BY <1>3, <1>4, <1>5 DEF IInv

\* A prompt: an image and some text.
LEMMA PromptShape ==
  ASSUME IInv, NEW p \in Prompts
  PROVE  /\ p \in Seq(Token) /\ Len(p) \in Nat /\ Len(p) >= 1
         /\ p[1] = "image" /\ ImageAt(p) = {1}
<1>1. PICK n \in 0..(PromptLength - 1) : p = <<"image">> \o Copies("prompt", n + config.schema_length)
  BY DEF Prompts
<1>. DEFINE k == n + config.schema_length
            rest == Copies("prompt", k)
<1>2. k \in Nat
  BY Settings
<1>3. rest \in Seq(Token) /\ Len(rest) = k /\ \A i \in 1..k : rest[i] = "prompt"
  BY <1>2, CopiesType DEF Token
<1>4. <<"image">> \in Seq(Token) /\ Len(<<"image">>) = 1 /\ <<"image">>[1] = "image"
  BY DEF Token
<1>5. /\ p \in Seq(Token) /\ Len(p) = 1 + k
      /\ \A i \in 1..(1 + k) : p[i] = IF i <= 1 THEN <<"image">>[i] ELSE rest[i - 1]
  BY <1>1, <1>3, <1>4, ConcatProperties
<1>6. p[1] = "image"
  BY <1>2, <1>4, <1>5
<1>7. ASSUME NEW i \in 2..(1 + k) PROVE p[i] = "prompt"
  <2>1. i \in 1..(1 + k) /\ ~(i <= 1) /\ i - 1 \in 1..k
    BY <1>2
  <2>. QED
    BY <2>1, <1>3, <1>5
<1>8. DOMAIN p = 1..(1 + k)
  BY <1>5
<1>9. ImageAt(p) = {1}
  BY <1>2, <1>6, <1>7, <1>8 DEF ImageAt
<1>. QED
  BY <1>2, <1>5, <1>6, <1>9

LEMMA PendingStep ==
  ASSUME IInv, Pending
  PROVE  IInv'
<1>1. /\ state = "pending" /\ ids' \in Prompts /\ state' = "generating"
      /\ UNCHANGED <<config, mask, logprobs, images, toolImages, userTurns, assistantTurns, calls, result, instances>>
  BY DEF Pending, pictures, turns, tools
<1>2. /\ mask = <<>> /\ logprobs = <<>> /\ Len(images) = 1 /\ userTurns = 0 /\ assistantTurns = 0
      /\ instances = {} /\ toolImages = images
  BY <1>1 DEF IInv, Phase, Instances, InstancesReleased, Shared
<1>3. ids' \in Seq(Token) /\ Len(ids') \in Nat /\ Len(ids') >= 1 /\ ImageAt(ids') = {1}
  BY <1>1, PromptShape
<1>4. TypeOK'
  BY <1>1, <1>3 DEF IInv, TypeOK, States, Token
<1>5. Phase' /\ Turns' /\ Instances' /\ Shared'
  <2>1. Len(mask) = 0
    BY <1>2
  <2>. QED
    BY <2>1, <1>1, <1>2, Settings DEF IInv, Phase, Turns, TurnsWithinLimits, Instances, InstancesReleased, Shared
<1>6. Cut' = Len(ids') /\ Cut' \in 1..Len(ids')
  BY <1>1, <1>2, <1>3 DEF Cut
<1>7. Pictures'
  <2>1. IsFiniteSet({1}) /\ Cardinality({1}) = 1
    BY FS_Singleton
  <2>2. (ImageAt(ids))' = {1}
    BY <1>3 DEF ImageAt
  <2>3. 1 <= Cut' + config'.response_length
    BY <1>1, <1>6, <1>3, Settings
  <2>. QED
    BY <2>1, <2>2, <2>3, <1>1, <1>2 DEF Pictures
<1>8. MaskMarksGenerated'
  <2>1. SubSeq(ids', 1, Cut') = ids'
    BY <1>3, <1>6, SubSeqFull
  <2>2. (SubSeq(ids, 1, Cut) \in Prompts)'
    BY <2>1, <1>1 DEF Prompts
  <2>3. DOMAIN mask' = {} /\ Len(logprobs') = Len(mask')
    BY <1>1, <1>2
  <2>. QED
    BY <2>2, <2>3, <1>6 DEF MaskMarksGenerated
<1>. QED
  BY <1>4, <1>5, <1>7, <1>8 DEF IInv

\* A turn adds x to the ids, y to the mask and z to the log probabilities.
LEMMA TurnAdded ==
  ASSUME IInv, state # "pending", UNCHANGED config,
         NEW STATE x, x \in Seq(Token), NEW STATE y, y \in Seq(Bit),
         NEW STATE z, z \in Seq(LogProb),
         Len(x) = Len(y), Len(z) = Len(y),
         \A j \in 1..Len(y) : y[j] = 1 <=> x[j] = "gen",
         \A j \in 1..Len(y) : z[j] = "real" <=> y[j] = 1,
         ids' = ids \o x, mask' = mask \o y,
         config.log_probs => logprobs' = logprobs \o z
  PROVE  MaskMarksGenerated' /\ Cut' = Cut
<1>. DEFINE c == Cut
<1>1. /\ ids \in Seq(Token) /\ mask \in Seq(Bit) /\ logprobs \in Seq(LogProb)
  BY DEF IInv, TypeOK, Token, Bit, LogProb
<1>2. /\ c = Len(ids) - Len(mask) /\ c \in 1..Len(ids) /\ SubSeq(ids, 1, c) \in Prompts
      /\ \A i \in DOMAIN mask : mask[i] = 1 <=> ids[c + i] = "gen"
      /\ config.log_probs =>
            /\ Len(logprobs) = Len(mask)
            /\ \A i \in DOMAIN mask : logprobs[i] = "real" <=> mask[i] = 1
  BY DEF IInv, MaskMarksGenerated, Cut
<1>. HIDE DEF c
<1>3. /\ Len(ids \o x) - Len(mask \o y) = c /\ c \in 1..Len(ids \o x)
      /\ SubSeq(ids \o x, 1, c) = SubSeq(ids, 1, c)
      /\ \A i \in DOMAIN (mask \o y) :
            \/ /\ i \in DOMAIN mask
               /\ (mask \o y)[i] = mask[i] /\ (ids \o x)[c + i] = ids[c + i]
            \/ \E j \in 1..Len(y) :
               /\ i = Len(mask) + j
               /\ (mask \o y)[i] = y[j] /\ (ids \o x)[c + i] = x[j]
  <2>1. Masked(ids, mask, c)
    BY <1>2 DEF Masked
  <2>2. Grown(ids, mask, x, y, c)
    BY <1>1, <2>1, Growth
  <2>. QED
    BY <2>2 DEF Grown, Masked
<1>4. Cut' = c /\ Cut = c
  BY <1>3 DEF Cut, c
<1>5. ASSUME NEW i \in DOMAIN (mask \o y)
      PROVE  (mask \o y)[i] = 1 <=> (ids \o x)[c + i] = "gen"
  <2>1. CASE i \in DOMAIN mask /\ (mask \o y)[i] = mask[i] /\ (ids \o x)[c + i] = ids[c + i]
    BY <2>1, <1>2
  <2>2. ASSUME NEW j \in 1..Len(y), (mask \o y)[i] = y[j], (ids \o x)[c + i] = x[j]
        PROVE  (mask \o y)[i] = 1 <=> (ids \o x)[c + i] = "gen"
    BY <2>2
  <2>. QED
    BY <2>1, <2>2, <1>3
<1>6. ASSUME config.log_probs
      PROVE  /\ Len(logprobs \o z) = Len(mask \o y)
             /\ \A i \in DOMAIN (mask \o y) : (logprobs \o z)[i] = "real" <=> (mask \o y)[i] = 1
  <2>1. /\ Len(logprobs) = Len(mask) /\ Len(mask) \in Nat /\ Len(y) \in Nat
        /\ \A i \in DOMAIN mask : logprobs[i] = "real" <=> mask[i] = 1
    BY <1>1, <1>2, <1>6
  <2>2. Len(logprobs \o z) = Len(logprobs) + Len(z) /\ Len(mask \o y) = Len(mask) + Len(y)
    BY <1>1, ConcatProperties
  <2>3. ASSUME NEW i \in 1..(Len(mask) + Len(y))
        PROVE  (logprobs \o z)[i] = "real" <=> (mask \o y)[i] = 1
    <3>1. (logprobs \o z)[i] = IF i <= Len(mask) THEN logprobs[i] ELSE z[i - Len(mask)]
      BY <1>1, <2>1, ConcatProperties
    <3>2. (mask \o y)[i] = IF i <= Len(mask) THEN mask[i] ELSE y[i - Len(mask)]
      BY <1>1, ConcatProperties
    <3>3. CASE i <= Len(mask)
      <4>1. i \in DOMAIN mask
        BY <3>3, <1>1, <2>1
      <4>. QED
        BY <4>1, <3>1, <3>2, <3>3, <2>1
    <3>4. CASE ~(i <= Len(mask))
      <4>1. i - Len(mask) \in 1..Len(y)
        BY <3>4, <2>1
      <4>. QED
        BY <4>1, <3>1, <3>2, <3>4
    <3>. QED
      BY <3>3, <3>4
  <2>4. DOMAIN (mask \o y) = 1..(Len(mask) + Len(y))
    BY <1>1
  <2>. QED
    BY <2>1, <2>2, <2>3, <2>4
<1>7. Prompts' = Prompts
  BY DEF Prompts
<1>8. /\ Cut' \in 1..Len(ids') /\ SubSeq(ids', 1, Cut') \in Prompts'
      /\ \A i \in DOMAIN mask' : mask'[i] = 1 <=> ids'[Cut' + i] = "gen"
  BY <1>2, <1>3, <1>4, <1>5, <1>7
<1>9. config'.log_probs =>
          /\ Len(logprobs') = Len(mask')
          /\ \A i \in DOMAIN mask' : logprobs'[i] = "real" <=> mask'[i] = 1
  BY <1>6
<1>. QED
  BY <1>4, <1>8, <1>9 DEF MaskMarksGenerated

\* The first k tokens a turn adds are placeholders, for as many images.
LEMMA ImagesAdded ==
  ASSUME IInv, state # "pending", UNCHANGED config,
         NEW STATE x, x \in Seq(Token), NEW STATE k, k \in Nat, k <= Len(x),
         \A i \in DOMAIN x : x[i] = "image" <=> i <= k,
         ids' = ids \o x, Cut' = Cut, Len(images') = Len(images) + k,
         k = 0 \/ Len(mask) + k <= config.response_length
  PROVE  Pictures'
<1>1. /\ ids \in Seq(Token) /\ Len(ids) \in Nat /\ Len(mask) \in Nat
      /\ IsFiniteSet(ImageAt(ids)) /\ Cardinality(ImageAt(ids)) = Len(images)
      /\ \A i \in ImageAt(ids) : i <= Cut + config.response_length
  BY DEF IInv, TypeOK, Token, Pictures
<1>2. /\ ImageAt(ids \o x) = ImageAt(ids) \cup ((Len(ids) + 1)..(Len(ids) + k))
      /\ IsFiniteSet(ImageAt(ids \o x))
      /\ Cardinality(ImageAt(ids \o x)) = Cardinality(ImageAt(ids)) + k
  BY <1>1, ImagesOf
<1>3. \A i \in (Len(ids) + 1)..(Len(ids) + k) : i <= Cut + config.response_length
  <2>1. config.response_length \in Nat /\ Cut = Len(ids) - Len(mask)
    BY Settings DEF Cut
  <2>2. CASE k = 0
    BY <2>2, <1>1
  <2>3. CASE Len(mask) + k <= config.response_length
    BY <2>1, <2>3, <1>1
  <2>. QED
    BY <2>2, <2>3
<1>4. (ImageAt(ids))' = ImageAt(ids \o x)
  BY DEF ImageAt
<1>. QED
  BY <1>1, <1>2, <1>3, <1>4 DEF Pictures

LEMMA GenerateStep ==
  ASSUME IInv, Generate
  PROVE  IInv'
<1>1. PICK n \in 1..Lesser(MaxGenerated, Room), k \in 0..config.max_calls :
          /\ ids' = ids \o Copies("gen", n)
          /\ mask' = mask \o Copies(1, n)
          /\ logprobs' = IF config.log_probs THEN logprobs \o Copies("real", n) ELSE logprobs
          /\ state' = IF LimitReached(Len(mask) + n, assistantTurns + 1)
                      THEN "terminated"
                      ELSE IF k > 0 THEN "processing_tools"
                      ELSE IF config.interaction THEN "interacting" ELSE "terminated"
          /\ calls' = IF state' = "processing_tools"
                      THEN Copies("called", Lesser(k, MaxParallelCalls)) ELSE <<>>
  BY DEF Generate
<1>2. /\ state = "generating" /\ result' = [i \in DOMAIN calls' |-> "none"]
      /\ assistantTurns' = assistantTurns + 1
      /\ UNCHANGED <<config, images, toolImages, userTurns, instances>>
  BY DEF Generate, pictures
<1>. DEFINE x == Copies("gen", n)
            y == Copies(1, n)
            z == Copies("real", n)
<1>3. n \in Nat /\ n >= 1
  <2>1. Room \in Nat
    <3>1. Len(ids) \in Nat /\ max_model_len \in Nat
      <4>1. PromptLength \in Nat /\ config.response_length \in Nat
        BY Settings
      <4>. QED
        BY <4>1 DEF IInv, TypeOK, max_model_len
    <3>. QED
      BY <3>1 DEF Room
  <2>2. Lesser(MaxGenerated, Room) \in Nat
    BY <2>1, Settings DEF Lesser
  <2>. QED
    BY <2>2
<1>4. /\ x \in Seq(Token) /\ Len(x) = n /\ \A j \in 1..n : x[j] = "gen"
      /\ y \in Seq(Bit) /\ Len(y) = n /\ \A j \in 1..n : y[j] = 1
      /\ z \in Seq(LogProb) /\ Len(z) = n /\ \A j \in 1..n : z[j] = "real"
  BY <1>3, CopiesType DEF Token, Bit, LogProb
<1>5. /\ ids \in Seq(Token) /\ mask \in Seq(Bit) /\ logprobs \in Seq(LogProb)
      /\ Len(mask) \in Nat /\ userTurns \in Nat /\ assistantTurns \in Nat
  BY DEF IInv, TypeOK, Token, Bit, LogProb
<1>6. MaskMarksGenerated' /\ Cut' = Cut
  BY <1>1, <1>2, <1>4, TurnAdded
<1>7. Pictures'
  <2>1. DOMAIN x = 1..n /\ 0 <= Len(x) /\ Len(images') = Len(images) + 0
    BY <1>2, <1>3, <1>4 DEF IInv, TypeOK
  <2>2. \A i \in DOMAIN x : x[i] = "image" <=> i <= 0
    BY <2>1, <1>4
  <2>. QED
    BY <2>1, <2>2, <1>1, <1>2, <1>4, <1>6, ImagesAdded
<1>8. /\ state' \in {"terminated", "processing_tools", "interacting"}
      /\ state' # "terminated" => ~LimitReached(Len(mask) + n, assistantTurns + 1)
      /\ state' = "interacting" => config.interaction
  BY <1>1
<1>9. instances = {}
  BY <1>2 DEF IInv, Instances, InstancesReleased
<1>10. TypeOK'
  <2>1. ids' \in Seq(Token) /\ mask' \in Seq(Bit) /\ logprobs' \in Seq(LogProb)
    BY <1>1, <1>4, <1>5
  <2>2. calls' \in Seq(Stages)
    <3>1. Lesser(k, MaxParallelCalls) \in Nat
      BY Settings DEF Lesser
    <3>2. Copies("called", Lesser(k, MaxParallelCalls)) \in Seq(Stages)
      BY <3>1, CopiesType DEF Stages
    <3>. QED
      BY <3>2, <1>1
  <2>3. result' \in [DOMAIN calls' -> {"none", "error", "text", "image", "invalid"}]
    BY <1>2
  <2>4. state' \in States
    BY <1>8 DEF States
  <2>. QED
    BY <2>1, <2>2, <2>3, <2>4, <1>2, <1>5 DEF IInv, TypeOK, Token, Bit, LogProb
<1>11. Phase'
  <2>0. mask' = mask \o y /\ Len(mask \o y) = Len(mask) + Len(y)
    BY <1>1, <1>4, <1>5, ConcatProperties
  <2>1. Len(mask') = Len(mask) + n
    BY <2>0, <1>4
  <2>. QED
    BY <2>1, <1>2, <1>3, <1>5, <1>8 DEF Phase
<1>12. Turns'
  <2>1. ASSUME state' # "terminated"
        PROVE  /\ config.max_assistant_turns > 0 => ~(assistantTurns + 1 >= config.max_assistant_turns)
               /\ config.max_user_turns > 0 => ~(userTurns >= config.max_user_turns)
    BY <2>1, <1>8 DEF LimitReached
  <2>. QED
    BY <2>1, <1>2, <1>5, <1>8, Settings DEF IInv, Turns, TurnsWithinLimits
<1>13. Instances' /\ Shared'
  BY <1>2, <1>9 DEF IInv, Instances, InstancesReleased, Shared
<1>. QED
  BY <1>6, <1>7, <1>10, <1>11, <1>12, <1>13 DEF IInv

LEMMA GenerateFailsStep ==
  ASSUME IInv, GenerateFails
  PROVE  IInv'
<1>1. /\ state = "generating" /\ state' = "raised"
      /\ UNCHANGED <<config, ids, mask, logprobs, images, toolImages, userTurns, assistantTurns,
                     calls, result, instances>>
  BY DEF GenerateFails, tokens, pictures, turns, tools
<1>2. TypeOK'
  BY <1>1 DEF IInv, TypeOK, States
<1>3. Phase' /\ Turns' /\ Instances' /\ Shared'
  BY <1>1 DEF IInv, Phase, Turns, TurnsWithinLimits, Instances, InstancesReleased, Shared
<1>4. Pictures' /\ MaskMarksGenerated'
  BY <1>1 DEF IInv, Pictures, MaskMarksGenerated, Cut, Prompts
<1>. QED
  BY <1>2, <1>3, <1>4 DEF IInv

LEMMA TokensInARow == \A s, t, u \in Seq(Token) : (s \o t) \o u = s \o (t \o u)
<1>. SUFFICES ASSUME NEW s \in Seq(Token), NEW t \in Seq(Token), NEW u \in Seq(Token)
              PROVE  (s \o t) \o u = s \o (t \o u)
  OBVIOUS
<1>. QED
  BY ConcatAssociative

\* A tool or user turn: k placeholders, n tokens of text.
LEMMA TurnAppended ==
  ASSUME IInv, Len(mask) > 0, state # "pending", UNCHANGED config,
         NEW STATE k, k \in Nat, NEW STATE n, n \in Nat, Appended(k, n),
         Len(images') = Len(images) + k,
         k = 0 \/ Len(mask) + k <= config.response_length
  PROVE  /\ ids' \in Seq(Token) /\ mask' \in Seq(Bit) /\ logprobs' \in Seq(LogProb)
         /\ Len(mask') = Len(mask) + k + n
         /\ Pictures' /\ MaskMarksGenerated' /\ Cut' = Cut
<1>. DEFINE a == Copies("image", k)
            b == Copies("text", n)
            x == a \o b
            y == Copies(0, k + n)
            z == Copies("zero", k + n)
<1>1. /\ ids' = (ids \o a) \o b /\ mask' = mask \o y /\ logprobs' = Pad(k + n)
  BY DEF Appended
<1>2. /\ ids \in Seq(Token) /\ mask \in Seq(Bit) /\ logprobs \in Seq(LogProb) /\ Len(mask) \in Nat
  BY DEF IInv, TypeOK, Token, Bit, LogProb
<1>3. /\ a \in Seq(Token) /\ Len(a) = k /\ \A i \in 1..k : a[i] = "image"
      /\ b \in Seq(Token) /\ Len(b) = n /\ \A i \in 1..n : b[i] = "text"
  BY CopiesType DEF Token
<1>4. /\ y \in Seq(Bit) /\ Len(y) = k + n /\ \A i \in 1..(k + n) : y[i] = 0
      /\ z \in Seq(LogProb) /\ Len(z) = k + n /\ \A i \in 1..(k + n) : z[i] = "zero"
  <2>1. k + n \in Nat
    OBVIOUS
  <2>. QED
    BY <2>1, CopiesType DEF Bit, LogProb
<1>. HIDE DEF a, b, y, z
<1>5. /\ x \in Seq(Token) /\ Len(x) = k + n /\ DOMAIN x = 1..(k + n)
      /\ \A i \in 1..(k + n) : x[i] = IF i <= k THEN a[i] ELSE b[i - k]
  <2>1. x \in Seq(Token) /\ Len(x) = k + n
    BY <1>3, ConcatProperties
  <2>2. \A i \in 1..(k + n) : x[i] = IF i <= k THEN a[i] ELSE b[i - k]
    BY <1>3, ConcatProperties
  <2>3. DOMAIN x = 1..Len(x)
    BY <2>1, LenProperties
  <2>. QED
    BY <2>1, <2>2, <2>3, Zenon
<1>6. ASSUME NEW i \in 1..(k + n)
      PROVE  (x[i] = "image" <=> i <= k) /\ x[i] # "gen"
  <2>1. CASE i <= k
    BY <2>1, <1>3, <1>5
  <2>2. CASE ~(i <= k)
    <3>1. i - k \in 1..n
      BY <2>2
    <3>. QED
      BY <3>1, <2>2, <1>3, <1>5
  <2>. QED
    BY <2>1, <2>2
<1>7. ids' = ids \o x
  <2>1. ids \in Seq(Token) /\ a \in Seq(Token) /\ b \in Seq(Token)
    BY <1>2, <1>3
  <2>2. (ids \o a) \o b = ids \o (a \o b)
    BY <2>1, TokensInARow, Zenon
  <2>. QED
    BY <2>2, <1>1, Zenon
<1>. HIDE DEF x
<1>8. config.log_probs => logprobs' = logprobs \o z
  <2>1. config.log_probs => Len(logprobs) = Len(mask)
    BY DEF IInv, MaskMarksGenerated
  <2>2. config.log_probs => logprobs # <<>>
    BY <2>1, <1>2
  <2>. QED
    BY <2>2, <1>1 DEF Pad, z
<1>9. MaskMarksGenerated' /\ Cut' = Cut
  <2>1. \A j \in 1..Len(y) : y[j] = 1 <=> x[j] = "gen"
    BY <1>4, <1>6
  <2>2. \A j \in 1..Len(y) : z[j] = "real" <=> y[j] = 1
    BY <1>4
  <2>. QED
    BY <2>1, <2>2, <1>1, <1>4, <1>5, <1>7, <1>8, TurnAdded
<1>10. Pictures'
  <2>1. k <= Len(x) /\ \A i \in DOMAIN x : x[i] = "image" <=> i <= k
    BY <1>5, <1>6
  <2>. QED
    BY <2>1, <1>5, <1>7, <1>9, ImagesAdded
<1>11. ids' \in Seq(Token) /\ mask' \in Seq(Bit)
  BY <1>1, <1>2, <1>4, <1>5, <1>7, ConcatProperties
<1>12. logprobs' \in Seq(LogProb)
  <2>1. logprobs \o z \in Seq(LogProb)
    BY <1>2, <1>4, ConcatProperties
  <2>. QED
    BY <2>1, <1>1, <1>2 DEF Pad, z
<1>13. Len(mask') = Len(mask) + k + n
  <2>1. Len(mask') = Len(mask) + Len(y)
    BY <1>1, <1>2, <1>4, ConcatProperties
  <2>. QED
    BY <2>1, <1>2, <1>4
<1>. QED
  BY <1>9, <1>10, <1>11, <1>12, <1>13

LEMMA NewImagesType ==
  ASSUME IInv
  PROVE  Placed \in Nat /\ NewImages \in Seq(Nat \X Nat) /\ Len(NewImages) = Placed
<1>1. Len(calls) \in Nat /\ DOMAIN calls = 1..Len(calls) /\ assistantTurns \in Nat
  BY DEF IInv, TypeOK
<1>2. IsFiniteSet(1..Len(calls)) /\ Valid \in SUBSET (1..Len(calls))
  BY <1>1, FS_Interval DEF Valid
<1>3. Placed \in Nat
  BY <1>2, FS_Subset, FS_CardinalityType DEF Placed
<1>4. NewImages = [j \in 1..Placed |-> <<assistantTurns, j>>]
  BY DEF NewImages, Placed
<1>. QED
  BY <1>1, <1>3, <1>4

LEMMA ProcessResponsesStep ==
  ASSUME IInv, ProcessResponses
  PROVE  IInv'
<1>. DEFINE new == NewImages
<1>1. /\ state = "processing_tools" /\ \A i \in DOMAIN calls : calls[i] = "done"
      /\ toolImages' = toolImages \o new
      /\ calls' = <<>> /\ result' = <<>>
      /\ UNCHANGED <<config, instances, assistantTurns>>
  BY DEF ProcessResponses, Gathered, TurnOver
<1>2. PICK n \in 1..config.max_text :
          IF Len(mask) + Placed + n >= config.response_length
          THEN /\ state' = "terminated"
               /\ UNCHANGED <<tokens, images, userTurns>>
          ELSE /\ Appended(Placed, n)
               /\ images' = images \o new
               /\ userTurns' = userTurns + 1
               /\ state' = "generating"
  BY DEF ProcessResponses
<1>3. n \in Nat /\ n >= 1
  BY Settings
<1>4. Placed \in Nat /\ new \in Seq(Nat \X Nat) /\ Len(new) = Placed
  BY NewImagesType
<1>5. instances = {}
  BY <1>1 DEF IInv, Instances
<1>6. /\ images \in Seq(Nat \X Nat) /\ toolImages \in Seq(Nat \X Nat) /\ toolImages = images
      /\ Len(mask) \in Nat /\ Len(mask) > 0 /\ userTurns \in Nat /\ assistantTurns \in Nat
      /\ assistantTurns = userTurns + 1
      /\ config.max_assistant_turns > 0 => assistantTurns < config.max_assistant_turns
      /\ config.max_user_turns > 0 => userTurns < config.max_user_turns
  BY <1>1 DEF IInv, TypeOK, Shared, Phase, Turns
<1>7. toolImages' \in Seq(Nat \X Nat) /\ calls' \in Seq(Stages)
      /\ result' \in [DOMAIN calls' -> {"none", "error", "text", "image", "invalid"}]
  <2>1. toolImages' \in Seq(Nat \X Nat)
    BY <1>1, <1>4, <1>6, ConcatProperties
  <2>. QED
    BY <2>1, <1>1
<1>8. Instances'
  BY <1>1, <1>5 DEF IInv, Instances, InstancesReleased
<1>. HIDE DEF new
<1>9. CASE Len(mask) + Placed + n >= config.response_length
  <2>1. state' = "terminated" /\ UNCHANGED <<ids, mask, logprobs, images, userTurns>>
    BY <1>2, <1>9 DEF tokens
  <2>2. TypeOK'
    BY <2>1, <1>1, <1>7 DEF IInv, TypeOK, States
  <2>3. Phase' /\ Turns' /\ Shared'
    BY <2>1, <1>1 DEF IInv, Phase, Turns, TurnsWithinLimits, Shared
  <2>4. Pictures' /\ MaskMarksGenerated'
    BY <2>1, <1>1 DEF IInv, Pictures, MaskMarksGenerated, Cut, Prompts
  <2>. QED
    BY <2>2, <2>3, <2>4, <1>8 DEF IInv
<1>10. CASE ~(Len(mask) + Placed + n >= config.response_length)
  <2>1. /\ Appended(Placed, n) /\ images' = images \o new
        /\ userTurns' = userTurns + 1 /\ state' = "generating"
    BY <1>2, <1>10
  <2>2. images' \in Seq(Nat \X Nat) /\ Len(images') = Len(images) + Placed
    BY <2>1, <1>4, <1>6, ConcatProperties
  <2>3. /\ Len(mask) + Placed + n < config.response_length
        /\ Len(mask) + Placed <= config.response_length
    BY <1>3, <1>4, <1>6, <1>10, Settings
  <2>4. /\ ids' \in Seq(Token) /\ mask' \in Seq(Bit) /\ logprobs' \in Seq(LogProb)
        /\ Len(mask') = Len(mask) + Placed + n
        /\ Pictures' /\ MaskMarksGenerated'
    BY <2>1, <2>2, <2>3, <1>1, <1>3, <1>4, <1>6, TurnAppended
  <2>5. TypeOK'
    BY <2>1, <2>2, <2>4, <1>1, <1>6, <1>7 DEF IInv, TypeOK, States, Token, Bit, LogProb
  <2>6. Phase' /\ Shared'
    BY <2>1, <2>3, <2>4, <1>1, <1>6 DEF Phase, Shared
  <2>7. Turns'
    BY <2>1, <1>1, <1>6, Settings DEF Turns, TurnsWithinLimits
  <2>. QED
    BY <2>4, <2>5, <2>6, <2>7, <1>8 DEF IInv
<1>. QED
  BY <1>9, <1>10

LEMMA InteractStep ==
  ASSUME IInv, Interact
  PROVE  IInv'
<1>1. /\ state = "interacting" /\ userTurns' = userTurns + 1
      /\ state' \in {"generating", "terminated"}
      /\ UNCHANGED <<config, images, toolImages, assistantTurns, calls, result, instances>>
  BY DEF Interact, pictures, tools
<1>2. PICK n \in 1..config.max_text : Appended(0, n)
  BY DEF Interact
<1>3. n \in Nat
  BY Settings
<1>4. /\ Len(mask) \in Nat /\ Len(mask) > 0 /\ config.interaction /\ instances = {} /\ toolImages = images
      /\ userTurns \in Nat /\ assistantTurns \in Nat /\ assistantTurns = userTurns + 1
      /\ config.max_assistant_turns > 0 => assistantTurns < config.max_assistant_turns
      /\ config.max_user_turns > 0 => userTurns < config.max_user_turns
  BY <1>1 DEF IInv, TypeOK, Shared, Phase, Turns, Instances, InstancesReleased
<1>5. Len(images') = Len(images) + 0
  BY <1>1 DEF IInv, TypeOK
<1>6. /\ ids' \in Seq(Token) /\ mask' \in Seq(Bit) /\ logprobs' \in Seq(LogProb)
      /\ Pictures' /\ MaskMarksGenerated'
  BY <1>1, <1>2, <1>3, <1>4, <1>5, TurnAppended
<1>7. TypeOK'
  BY <1>1, <1>4, <1>6 DEF IInv, TypeOK, States, Token, Bit, LogProb
<1>8. Phase' /\ Shared' /\ Instances'
  BY <1>1, <1>4 DEF IInv, Phase, Shared, Instances, InstancesReleased
<1>9. Turns'
  BY <1>1, <1>4, Settings DEF Turns, TurnsWithinLimits
<1>. QED
  BY <1>6, <1>7, <1>8, <1>9 DEF IInv

\* A call of the turn gets on; the trajectory waits for it.
LEMMA AdvanceStep ==
  ASSUME IInv, NEW i \in 1..MaxParallelCalls, NEW from \in Stages, NEW to \in Stages,
         Advance(i, from, to),
         result' \in [DOMAIN calls -> {"none", "error", "text", "image", "invalid"}],
         instances' \subseteq instances \cup {i},
         i \in instances' => to \in {"executing", "hanging", "executed"}
  PROVE  IInv'
<1>1. /\ state = "processing_tools" /\ i \in DOMAIN calls
      /\ calls' = [calls EXCEPT ![i] = to]
      /\ UNCHANGED <<config, state, ids, mask, logprobs, images, toolImages, userTurns, assistantTurns>>
  BY DEF Advance, tokens, pictures, turns
<1>2. calls \in Seq(Stages) /\ instances \subseteq 1..MaxParallelCalls
  BY DEF IInv, TypeOK
<1>3. calls' \in Seq(Stages) /\ DOMAIN calls' = DOMAIN calls
  BY <1>1, <1>2
<1>4. TypeOK'
  BY <1>1, <1>2, <1>3 DEF IInv, TypeOK
<1>5. Instances'
  <2>1. ASSUME NEW j \in instances'
        PROVE  j \in DOMAIN calls' /\ calls'[j] \in {"executing", "hanging", "executed"}
    <3>1. CASE j = i
      BY <3>1, <1>1, <1>2, <1>3
    <3>2. CASE j # i
      <4>1. j \in instances
        BY <3>2
      <4>. QED
        BY <4>1, <3>2, <1>1, <1>2, <1>3 DEF IInv, Instances
    <3>. QED
      BY <3>1, <3>2
  <2>. QED
    BY <2>1, <1>1 DEF Instances, InstancesReleased
<1>6. Phase' /\ Turns' /\ Shared'
  BY <1>1 DEF IInv, Phase, Turns, TurnsWithinLimits, Shared
<1>7. Pictures' /\ MaskMarksGenerated'
  BY <1>1 DEF IInv, Pictures, MaskMarksGenerated, Cut, Prompts
<1>. QED
  BY <1>4, <1>5, <1>6, <1>7 DEF IInv

LEMMA CallToolStep ==
  ASSUME IInv, NEW i \in 1..MaxParallelCalls, CallTool(i)
  PROVE  IInv'
<1>. DEFINE Results == {"none", "error", "text", "image", "invalid"}
<1>1. result \in [DOMAIN calls -> Results]
  BY DEF IInv, TypeOK
<1>2. \A r \in Results : [result EXCEPT ![i] = r] \in [DOMAIN calls -> Results]
  BY <1>1
<1>3. calls[i] = "called" => i \notin instances
  BY DEF IInv, Instances
<1>4. {"called", "executing", "hanging", "executed", "done"} \subseteq Stages
  BY DEF Stages
<1>5. CASE CreateFails(i)
  <2>1. Advance(i, "called", "done") /\ instances' = instances /\ i \notin instances
    BY <1>3, <1>5 DEF CreateFails, Advance
  <2>. QED
    BY <2>1, <1>2, <1>4, <1>5, AdvanceStep DEF CreateFails
<1>6. CASE CreateInstance(i)
  BY <1>1, <1>4, <1>6, AdvanceStep DEF CreateInstance
<1>7. CASE Execute(i)
  BY <1>2, <1>4, <1>7, AdvanceStep DEF Execute
<1>8. CASE ExecuteRaises(i)
  BY <1>2, <1>4, <1>8, AdvanceStep DEF ExecuteRaises
<1>9. CASE ExecuteHangs(i)
  BY <1>1, <1>4, <1>9, AdvanceStep DEF ExecuteHangs
<1>10. CASE Release(i)
  BY <1>1, <1>4, <1>10, AdvanceStep DEF Release
<1>. QED
  BY <1>5, <1>6, <1>7, <1>8, <1>9, <1>10 DEF CallTool

LEMMA NextIInv == IInv /\ [Next]_vars => IInv'
<1>. SUFFICES ASSUME IInv, [Next]_vars PROVE IInv'
  OBVIOUS
<1>1. CASE Pending \/ Generate \/ GenerateFails \/ ProcessResponses \/ Interact
  BY <1>1, PendingStep, GenerateStep, GenerateFailsStep, ProcessResponsesStep, InteractStep
<1>2. ASSUME NEW i \in 1..MaxParallelCalls, CallTool(i) PROVE IInv'
  BY <1>2, CallToolStep
<1>3. CASE UNCHANGED vars
  <2>. USE <1>3 DEF vars, tokens, pictures, turns, tools
  <2>1. TypeOK'
    BY DEF IInv, TypeOK
  <2>2. Phase' /\ Turns' /\ Instances' /\ Shared'
    BY DEF IInv, Phase, Turns, TurnsWithinLimits, Instances, InstancesReleased, Shared
  <2>3. Pictures' /\ MaskMarksGenerated'
    BY DEF IInv, Pictures, MaskMarksGenerated, Cut, Prompts
  <2>. QED
    BY <2>1, <2>2, <2>3 DEF IInv
<1>. QED
  BY <1>1, <1>2, <1>3 DEF Next

\* IInv is an invariant of a trajectory.
THEOREM Invariant == Spec => []IInv
BY InitIInv, NextIInv, PTL DEF Spec

\* prompt_ids, response_mask and response_logprobs stay aligned whatever turns a
\* trajectory has: cut at the mask's length, the ids are the prompt and then the
\* response, with a 1 in the mask for the policy's own tokens only.
THEOREM MaskStaysAligned == Spec => []MaskMarksGenerated
<1>1. IInv => MaskMarksGenerated
  BY DEF IInv
<1>. QED
  BY <1>1, Invariant, PTL

\* The finally block of _call_tool releases whatever create made: between turns, and
\* when the loop has ended, no tool instance is left.
THEOREM InstancesAreReleased == Spec => []InstancesReleased
<1>1. IInv => InstancesReleased
  BY DEF IInv, Instances
<1>. QED
  BY <1>1, Invariant, PTL

\* Tools are created with the images the model has seen, and the output's ids, cut at
\* response_length, have a placeholder for every image of the output.
THEOREM ImagesStayMatched == Spec => []ImagesMatch
<1>1. IInv => ToolsSeeModelImages
  BY DEF IInv, Shared, ToolsSeeModelImages
<1>2. ASSUME IInv PROVE KeptImagesMatch
  <2>. SUFFICES ASSUME state = "terminated"
                PROVE  Cardinality(Placeholders(Cut + config.response_length)) = Len(images)
    BY DEF KeptImagesMatch
  <2>1. Cardinality(ImageAt(ids)) = Len(images)
    BY <1>2 DEF IInv, Pictures
  <2>2. Placeholders(Cut + config.response_length) = ImageAt(ids)
    <3>1. \A i \in ImageAt(ids) : i <= Cut + config.response_length
      BY <1>2 DEF IInv, Pictures
    <3>2. /\ Len(ids) \in Nat /\ DOMAIN ids = 1..Len(ids)
          /\ Cut \in Int /\ config.response_length \in Int
      BY <1>2, Settings DEF IInv, TypeOK, Cut
    <3>3. \A i \in ImageAt(ids) : i \in 1..Lesser(Cut + config.response_length, Len(ids))
      BY <3>1, <3>2 DEF Lesser, ImageAt
    <3>4. 1..Lesser(Cut + config.response_length, Len(ids)) \subseteq DOMAIN ids
      BY <3>2 DEF Lesser
    <3>. QED
      BY <3>3, <3>4 DEF Placeholders, ImageAt
  <2>. QED
    BY <2>1, <2>2
<1>. QED
  BY <1>1, <1>2, Invariant, PTL DEF ImagesMatch

\* The limits on response and turns are tested after an answer only, and hold all the
\* same; without an interaction the engine is asked only when there is room.
THEOREM LimitsAlwaysHold == Spec => []LimitsHold
<1>1. ASSUME IInv PROVE RoomAfterTools
  <2>. SUFFICES ASSUME ~config.interaction, Cut <= PromptLength, state = "generating" PROVE Room > 0
    BY DEF RoomAfterTools, RoomToGenerate
  <2>1. Len(mask) < config.response_length /\ Len(mask) \in Nat /\ Len(ids) \in Nat
    BY <1>1 DEF IInv, TypeOK, Phase
  <2>2. PromptLength \in Nat /\ config.response_length \in Nat
    BY <1>1, Settings
  <2>3. Len(ids) < max_model_len
    BY <2>1, <2>2 DEF max_model_len, Cut
  <2>4. max_model_len \in Nat
    BY <2>2 DEF max_model_len
  <2>. QED
    BY <2>1, <2>3, <2>4 DEF Room
<1>2. IInv => LimitsHold
  BY <1>1 DEF LimitsHold, IInv, Turns
<1>. QED
  BY <1>2, Invariant, PTL
=============================================================================
