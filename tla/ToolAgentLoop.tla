--------------------------- MODULE ToolAgentLoop ---------------------------
(***************************************************************************)
(* One trajectory of the multi-turn agent loop: ToolAgentLoop.run with its *)
(* state handlers and the tool calls of a turn, which asyncio.gather runs  *)
(* concurrently (_call_tool: create, execute, release).                    *)
(*                                                                         *)
(* A token is its kind: "prompt" of the first prompt, "gen" generated by   *)
(* the policy, "image" an image placeholder, "text" added by a tool or a   *)
(* user.  One image is one placeholder, and the order of the tokens a turn *)
(* adds is not told apart.  An image is named by the assistant turn that   *)
(* asked for it and its place among the images of that turn, which is that *)
(* of the calls.  The engine answers with at least one token and never     *)
(* more than fit max_model_len; it raises when there is no room for one.   *)
(***************************************************************************)
EXTENDS Naturals, Sequences, FiniteSets

CONSTANTS
    PromptLength,       \* rollout.prompt_length, which the dataset's prompts fit
    MaxGenerated,       \* bound: tokens of one answer of the engine
    MaxParallelCalls,   \* multi_turn.max_parallel_calls
    Configs             \* the settings to run with

\* response_length, schema_length: rollout.response_length, and the tokens of the
\* tool schemas, added after the prompt was measured; max_user_turns and
\* max_assistant_turns, 0 for None; interaction: one is configured; log_probs: the
\* engine reports them; outcomes: what may come of executing a tool call; max_text,
\* max_calls: bounds on the text tokens a tool or user turn adds and on the tool
\* calls parsed from one answer.
Config ==
    [response_length : Nat \ {0}, schema_length : Nat,
     max_user_turns : Nat, max_assistant_turns : Nat,
     interaction : BOOLEAN, log_probs : BOOLEAN,
     outcomes : SUBSET {"uncreated", "raised", "text", "image", "invalid", "endless"},
     max_text : Nat \ {0}, max_calls : Nat]

ASSUME AgentAssumption ==
    /\ {PromptLength, MaxGenerated, MaxParallelCalls} \subseteq Nat \ {0}
    /\ Configs \subseteq Config

VARIABLES
    config,
    state,           \* AgentState, or "raised" when an exception ended run()
    ids,             \* prompt_ids: the prompt and everything added since
    mask,            \* response_mask
    logprobs,        \* response_logprobs: "real" or the padding "zero"
    images,          \* image_data, the model's images
    toolImages,      \* create_kwargs["image"], the images tools are created with
    userTurns, assistantTurns,
    calls,           \* the turn's tool calls: where each of them is
    result,          \* what each returned
    instances        \* tool instances not released yet

tokens == <<ids, mask, logprobs>>
pictures == <<images, toolImages>>
turns == <<userTurns, assistantTurns>>
tools == <<calls, result, instances>>
vars == <<config, state, tokens, pictures, turns, tools>>

Copies(x, n) == [i \in 1..n |-> x]
Lesser(a, b) == IF a < b THEN a ELSE b

\* One image, which tools and model share, and text, with the tools' schemas.
Prompts ==
    {<<"image">> \o Copies("prompt", n + config.schema_length) : n \in 0..(PromptLength - 1)}
RootImage == <<0, 0>>

Init ==
    /\ config \in Configs
    /\ state = "pending"
    /\ ids = <<>> /\ mask = <<>> /\ logprobs = <<>>
    /\ images = <<RootImage>> /\ toolImages = <<RootImage>>
    /\ userTurns = 0 /\ assistantTurns = 0
    /\ calls = <<>> /\ result = <<>> /\ instances = {}

Pending ==
    /\ state = "pending"
    /\ ids' \in Prompts
    /\ state' = "generating"
    /\ UNCHANGED <<config, mask, logprobs, pictures, turns, tools>>
-----------------------------------------------------------------------------
(* Generating. *)

max_model_len == PromptLength + config.response_length
Room == IF Len(ids) < max_model_len THEN max_model_len - Len(ids) ELSE 0

\* Bug: the limits are tested with > instead of >=.
Bug_LooseLimits(length, assistant) ==
    \/ length > config.response_length
    \/ config.max_assistant_turns > 0 /\ assistant > config.max_assistant_turns
    \/ config.max_user_turns > 0 /\ userTurns > config.max_user_turns

\* The termination conditions after an answer.
LimitReached(length, assistant) ==
    \/ length >= config.response_length
    \/ config.max_assistant_turns > 0 /\ assistant >= config.max_assistant_turns
    \/ config.max_user_turns > 0 /\ userTurns >= config.max_user_turns

\* n tokens that hold k tool calls; only the first MaxParallelCalls are made.
Generate ==
    /\ state = "generating"
    /\ \E n \in 1..Lesser(MaxGenerated, Room), k \in 0..config.max_calls :
          /\ ids' = ids \o Copies("gen", n)
          /\ mask' = mask \o Copies(1, n)
          /\ logprobs' = IF config.log_probs THEN logprobs \o Copies("real", n) ELSE logprobs
          /\ state' = IF LimitReached(Len(mask) + n, assistantTurns + 1)
                      THEN "terminated"
                      ELSE IF k > 0 THEN "processing_tools"
                      ELSE IF config.interaction THEN "interacting" ELSE "terminated"
          /\ calls' = IF state' = "processing_tools"
                      THEN Copies("called", Lesser(k, MaxParallelCalls)) ELSE <<>>
    /\ result' = [i \in DOMAIN calls' |-> "none"]
    /\ assistantTurns' = assistantTurns + 1
    /\ UNCHANGED <<config, pictures, userTurns, instances>>

\* max_tokens would be less than one: the engine refuses the request.
GenerateFails ==
    /\ state = "generating" /\ Room = 0
    /\ state' = "raised"
    /\ UNCHANGED <<config, tokens, pictures, turns, tools>>
-----------------------------------------------------------------------------
(* _call_tool, for the i-th call of the turn. *)

\* CodeImageTool waits in a blocking ray.get: then no other coroutine runs.
Blocked == \E j \in DOMAIN calls : calls[j] = "hanging"

Advance(i, from, to) ==
    /\ state = "processing_tools" /\ ~Blocked
    /\ i \in DOMAIN calls /\ calls[i] = from
    /\ calls' = [calls EXCEPT ![i] = to]
    /\ UNCHANGED <<config, state, tokens, pictures, turns>>

\* Unknown tool, arguments that are no JSON, or create raises: no instance.
CreateFails(i) ==
    /\ "uncreated" \in config.outcomes
    /\ Advance(i, "called", "done")
    /\ result' = [result EXCEPT ![i] = "error"]
    /\ UNCHANGED instances

CreateInstance(i) ==
    /\ Advance(i, "called", "executing")
    /\ instances' = instances \cup {i}
    /\ UNCHANGED result

\* The code a call carries need not end: then execute never returns.
Execute(i) ==
    /\ Advance(i, "executing", "executed")
    /\ \E r \in config.outcomes \cap {"text", "image", "invalid"} :
          result' = [result EXCEPT ![i] = r]
    /\ UNCHANGED instances

ExecuteRaises(i) ==
    /\ "raised" \in config.outcomes
    /\ Advance(i, "executing", "executed")
    /\ result' = [result EXCEPT ![i] = "error"]
    /\ UNCHANGED instances

ExecuteHangs(i) ==
    /\ "endless" \in config.outcomes
    /\ Advance(i, "executing", "hanging")
    /\ UNCHANGED <<result, instances>>

\* Bug: released after a result only, not in the finally block.
Bug_ReleaseResults(i) ==
    /\ Advance(i, "executed", "done")
    /\ instances' = IF result[i] = "error" THEN instances ELSE instances \ {i}
    /\ UNCHANGED result

Release(i) ==
    /\ Advance(i, "executed", "done")
    /\ instances' = instances \ {i}
    /\ UNCHANGED result
-----------------------------------------------------------------------------
(* The tool responses of a turn, once gather has all of them. *)

Gathered ==
    /\ state = "processing_tools"
    /\ \A i \in DOMAIN calls : calls[i] = "done"

\* An image that cannot be opened is dropped.
Valid == {i \in DOMAIN calls : result[i] = "image"}
NewImages == [j \in 1..Cardinality(Valid) |-> <<assistantTurns, j>>]

\* Bug: a placeholder for every image a tool returned.
Bug_AllPlaced == Cardinality({i \in DOMAIN calls : result[i] \in {"image", "invalid"}})

\* Placeholders: one for every valid image.
Placed == Cardinality(Valid)

Pad(n) == IF logprobs # <<>> THEN logprobs \o Copies("zero", n) ELSE logprobs

\* Placeholders for the images and at least one token of text.
Appended(imgs, n) ==
    /\ ids' = ids \o Copies("image", imgs) \o Copies("text", n)
    /\ mask' = mask \o Copies(0, imgs + n)
    /\ logprobs' = Pad(imgs + n)

TurnOver == calls' = <<>> /\ result' = <<>> /\ UNCHANGED <<config, instances, assistantTurns>>

\* Bug: the mask is extended before the length is tested.
Bug_MaskFirst ==
    LET new == NewImages IN
    /\ Gathered
    /\ toolImages' = toolImages \o new
    /\ \E n \in 1..config.max_text :
          IF Len(mask) + Len(new) + n >= config.response_length
          THEN /\ mask' = mask \o Copies(0, Len(new) + n)
               /\ state' = "terminated"
               /\ UNCHANGED <<ids, logprobs, images, userTurns>>
          ELSE /\ Appended(Len(new), n)
               /\ images' = images \o new
               /\ userTurns' = userTurns + 1
               /\ state' = "generating"
    /\ TurnOver

\* Bug: the model's images are extended before the length is tested.
Bug_ImagesFirst ==
    LET new == NewImages IN
    /\ Gathered
    /\ toolImages' = toolImages \o new
    /\ images' = images \o new
    /\ \E n \in 1..config.max_text :
          IF Len(mask) + Len(new) + n >= config.response_length
          THEN /\ state' = "terminated"
               /\ UNCHANGED <<tokens, userTurns>>
          ELSE /\ Appended(Len(new), n)
               /\ userTurns' = userTurns + 1
               /\ state' = "generating"
    /\ TurnOver

\* Bug: the length is not tested.
Bug_NoLengthTest ==
    LET new == NewImages IN
    /\ Gathered
    /\ toolImages' = toolImages \o new
    /\ \E n \in 1..config.max_text : Appended(Len(new), n)
    /\ images' = images \o new
    /\ userTurns' = userTurns + 1
    /\ state' = "generating"
    /\ TurnOver

\* Bug: tools are given the new images only.
Bug_ReplacesImages ==
    LET new == NewImages IN
    /\ Gathered
    /\ toolImages' = IF new = <<>> THEN toolImages ELSE new
    /\ \E n \in 1..config.max_text :
          IF Len(mask) + Len(new) + n >= config.response_length
          THEN /\ state' = "terminated"
               /\ UNCHANGED <<tokens, images, userTurns>>
          ELSE /\ Appended(Len(new), n)
               /\ images' = images \o new
               /\ userTurns' = userTurns + 1
               /\ state' = "generating"
    /\ TurnOver

\* Later tools get the new images at once; the model gets them, with their
\* placeholders, only if the turn fits the response.
ProcessResponses ==
    LET new == NewImages IN
    /\ Gathered
    /\ toolImages' = toolImages \o new
    /\ \E n \in 1..config.max_text :
          IF Len(mask) + Placed + n >= config.response_length
          THEN /\ state' = "terminated"
               /\ UNCHANGED <<tokens, images, userTurns>>
          ELSE /\ Appended(Placed, n)
               /\ images' = images \o new
               /\ userTurns' = userTurns + 1
               /\ state' = "generating"
    /\ TurnOver

\* The interaction's answer is appended whatever its length.
Interact ==
    /\ state = "interacting"
    /\ \E n \in 1..config.max_text : Appended(0, n)
    /\ userTurns' = userTurns + 1
    /\ state' \in {"generating", "terminated"}
    /\ UNCHANGED <<config, pictures, assistantTurns, tools>>
-----------------------------------------------------------------------------
CallTool(i) ==
    \/ CreateFails(i) \/ CreateInstance(i) \/ Execute(i) \/ ExecuteRaises(i)
    \/ ExecuteHangs(i) \/ Release(i)

Next ==
    \/ Pending \/ Generate \/ GenerateFails \/ ProcessResponses \/ Interact
    \/ \E i \in 1..MaxParallelCalls : CallTool(i)

\* The engine answers, coroutines that can go on do, and code that ends is
\* waited for; each concurrent call is scheduled on its own.
Fairness ==
    /\ WF_vars(Pending \/ Generate \/ GenerateFails \/ ProcessResponses \/ Interact)
    /\ \A i \in 1..MaxParallelCalls : WF_vars(CallTool(i))

Spec == Init /\ [][Next]_vars
FairSpec == Spec /\ Fairness
-----------------------------------------------------------------------------
States == {"pending", "generating", "processing_tools", "interacting", "terminated",
           "raised"}
Stages == {"called", "executing", "hanging", "executed", "done"}

TypeOK ==
    /\ config \in Configs
    /\ state \in States
    /\ ids \in Seq({"prompt", "gen", "image", "text"}) /\ mask \in Seq({0, 1})
    /\ logprobs \in Seq({"real", "zero"})
    /\ images \in Seq(Nat \X Nat) /\ toolImages \in Seq(Nat \X Nat)
    /\ userTurns \in Nat /\ assistantTurns \in Nat
    /\ calls \in Seq(Stages)
    /\ result \in [DOMAIN calls -> {"none", "error", "text", "image", "invalid"}]
    /\ instances \subseteq 1..MaxParallelCalls

\* run() cuts prompt_ids at the mask's length, here after Cut tokens: whatever was
\* added, the first part is the prompt again, the mask has one entry per token of
\* the second, 1 exactly for the policy's own, and the log probabilities, when
\* there are any, line up with it.
Cut == Len(ids) - Len(mask)
MaskMarksGenerated ==
    state # "pending" =>
        /\ Cut \in 1..Len(ids) /\ SubSeq(ids, 1, Cut) \in Prompts
        /\ \A i \in DOMAIN mask : mask[i] = 1 <=> ids[Cut + i] = "gen"
        /\ config.log_probs =>
              /\ Len(logprobs) = Len(mask)
              /\ \A i \in DOMAIN mask : logprobs[i] = "real" <=> mask[i] = 1

\* The output's token ids, the response cut at response_length, have a placeholder
\* for every image of the output and no other: the worker's processor pairs them.
Placeholders(n) == {i \in 1..Lesser(n, Len(ids)) : ids[i] = "image"}
KeptImagesMatch ==
    state = "terminated" =>
        Cardinality(Placeholders(Cut + config.response_length)) = Len(images)

\* While the policy writes a tool call, the i-th image it has seen is the i-th image
\* the tool will be created with (image_index: "Index of the image in the
\* trajectory"), also after parallel calls, failed ones and invalid images.
ToolsSeeModelImages == state = "generating" => toolImages = images

\* Tools, model and token ids agree on the images of a trajectory.
ImagesMatch == KeptImagesMatch /\ ToolsSeeModelImages

\* No tool instance outlives the turn that created it, whatever its call did.
InstancesReleased == state # "processing_tools" => instances = {}

\* There is room for a token whenever the engine is asked.
RoomToGenerate == state = "generating" => Room > 0

\* Without an interaction this is so when the prompt fits with the schemas: a tool turn
\* that leaves no room is not added.
RoomAfterTools == ~config.interaction /\ Cut <= PromptLength => RoomToGenerate

\* The limits hold although they are tested after an answer only, and user and
\* assistant turns alternate, whoever speaks for the user.
TurnsWithinLimits ==
    /\ config.max_assistant_turns > 0 => assistantTurns <= config.max_assistant_turns
    /\ config.max_user_turns > 0 => userTurns <= config.max_user_turns
    /\ userTurns <= assistantTurns /\ assistantTurns <= userTurns + 1

\* The limits on a trajectory hold: its types, its room, its turns.
LimitsHold == TypeOK /\ RoomAfterTools /\ TurnsWithinLimits

\* run() returns, without turn limits too: every turn makes the response longer. Only
\* code that does not end, and a user turn or schemas that leave the engine no room,
\* keep it.
LoopReturns ==
    <>(\/ state = "terminated"
       \/ "endless" \in config.outcomes
       \/ config.interaction \/ Cut > PromptLength)
=============================================================================
