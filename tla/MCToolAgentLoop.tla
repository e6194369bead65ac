-------------------------- MODULE MCToolAgentLoop --------------------------
(***************************************************************************)
(* Settings of the tool agent loop for TLC.                                *)
(***************************************************************************)
EXTENDS ToolAgentLoop, TLC

Limits(response, schema, user, assistant) ==
    [response_length |-> response, schema_length |-> schema,
     max_user_turns |-> user, max_assistant_turns |-> assistant]

\* Two tool calls at once that end in any way, no turn limits, prompts that exceed
\* their length by the schemas.
Tools ==
    Limits(9, 1, 0, 0) @@
    [interaction |-> FALSE, log_probs |-> TRUE, max_text |-> 2, max_calls |-> 3,
     outcomes |-> {"uncreated", "raised", "text", "image", "invalid"}]

\* An interaction and turn limits, prompts that exceed their length by the schemas,
\* user turns that may overrun the response, code that does not end.
Interacts ==
    Limits(7, 1, 3, 3) @@
    [interaction |-> TRUE, log_probs |-> TRUE, max_text |-> 3, max_calls |-> 2,
     outcomes |-> {"text", "image", "endless"}]

\* An interaction without limits and without tools.
Talks ==
    Limits(4, 0, 0, 0) @@
    [interaction |-> TRUE, log_probs |-> FALSE, max_text |-> 3, max_calls |-> 0,
     outcomes |-> {}]

MCConfigs == {Tools, Interacts}
MCTalks == {Talks}
=============================================================================
