---------------------------- MODULE ToolAgentLoop ----------------------------
(***************************************************************************)
(* A multi-turn trajectory: ToolAgentLoop.run and its handlers             *)
(* (experimental/agent_loop/tool_agent_loop.py), with the calls of a turn  *)
(* run by asyncio.gather, the budget of the server's generate              *)
(* (vllm_async_server.py) and weight updates between the turns.  A token   *)
(* is its origin: "prompt", "policy", "tool", "image" (the placeholder of  *)
(* an answer's images) or "user", and image_data the number of images.  A  *)
(* generation is never empty: it holds its stop token.                     *)
(***************************************************************************)
EXTENDS Naturals, Sequences, FiniteSets

CONSTANTS
  PromptLength, ResponseLength,       \* prompt_length, response_length
  MaxAssistantTurns, MaxUserTurns,    \* 0: None
  MaxParallelCalls,
  HasImageProcessor,                  \* the model's processor has an image_processor
  MinImages, MaxImages,               \* images of an answer that has a list of them
  InteractionGiven,                   \* whether there is an interaction_config_file: a set of choices
  MaxCalls, MaxUserTokens, MaxVersion \* bounds of the model: calls of a turn, tokens of a user turn

ASSUME ToolAgentAssumption ==
  /\ {PromptLength, ResponseLength, MaxParallelCalls, MaxUserTokens, MaxVersion} \subseteq Nat \ {0}
  /\ {MaxAssistantTurns, MaxUserTurns, MaxCalls} \subseteq Nat
  /\ InteractionGiven \subseteq BOOLEAN /\ HasImageProcessor \in BOOLEAN
  /\ {MinImages, MaxImages} \subseteq Nat /\ MinImages <= MaxImages

VARIABLES
  interaction,    \* self.interaction_config_file is set; it never changes
  state,
  prompt_ids, response_mask, response_logprobs, image_data,
  user_turns, assistant_turns,
  extra_fields,   \* min_global_steps, max_global_steps
  calls,          \* the calls of this turn, each as far as it is
  instances,      \* tool instances that exist, by turn and call
  server_version  \* of the weights

agentVars == <<prompt_ids, response_mask, response_logprobs, image_data,
               user_turns, assistant_turns, extra_fields>>
vars == <<interaction, state, agentVars, calls, instances, server_version>>

State == {"pending", "generating", "processing_tools", "interacting", "terminated", "raised"}
Origin == {"prompt", "policy", "tool", "image", "user"}
Calls == [at : {"called", "created", "answered", "released"}, answer : {"none", "text", "image", "video"}]
Called == [at |-> "called", answer |-> "none"]
NoFields == [min |-> 0, max |-> 0]   \* versions start at 1 here

Times(n, x) == [i \in 1 .. n |-> x]
Last(s, n) == IF n = 0 THEN s ELSE SubSeq(s, Len(s) - n + 1, Len(s))   \* s[-n:]
First(s, n) == IF Len(s) <= n THEN s ELSE SubSeq(s, 1, n)              \* s[:n]
Smaller(a, b) == IF a <= b THEN a ELSE b

AgentInit ==
  /\ interaction \in InteractionGiven
  /\ state = "pending" /\ prompt_ids = <<>> /\ response_mask = <<>> /\ response_logprobs = <<>>
  /\ image_data = 0 /\ user_turns = 0 /\ assistant_turns = 0 /\ extra_fields = NoFields
  /\ calls = <<>> /\ instances = {} /\ server_version = 1
-----------------------------------------------------------------------------
\* The dataset keeps prompts within prompt_length.
HandlePending ==
  /\ state = "pending" /\ state' = "generating"
  /\ \E n \in 1 .. PromptLength : prompt_ids' = Times(n, "prompt")
  /\ UNCHANGED <<interaction, response_mask, response_logprobs, image_data, user_turns, assistant_turns,
                 extra_fields, calls, instances, server_version>>

\* vLLMHttpServer.generate, without a limit in the sampling parameters.
Budget == Smaller(ResponseLength, (PromptLength + ResponseLength) - Len(prompt_ids))
Fits == Len(prompt_ids) < PromptLength + ResponseLength

FieldsAfter ==
  IF extra_fields = NoFields THEN [min |-> server_version, max |-> server_version]
  ELSE [extra_fields EXCEPT !.max = server_version]

LimitReached(mask, assistant) ==
  \/ Len(mask) >= ResponseLength
  \/ MaxAssistantTurns > 0 /\ assistant >= MaxAssistantTurns
  \/ MaxUserTurns > 0 /\ user_turns >= MaxUserTurns

CallsMade(k) == Times(Smaller(k, MaxParallelCalls), Called)

HandleGenerating ==
  /\ state = "generating" /\ Fits
  /\ \E n \in 1 .. Budget, k \in 0 .. MaxCalls :
       /\ prompt_ids' = prompt_ids \o Times(n, "policy")
       /\ response_mask' = response_mask \o Times(n, 1)
       /\ response_logprobs' = response_logprobs \o Times(n, "computed")
       /\ assistant_turns' = assistant_turns + 1
       /\ extra_fields' = FieldsAfter
       /\ IF LimitReached(response_mask', assistant_turns')
          THEN state' = "terminated" /\ calls' = <<>>
          ELSE /\ calls' = CallsMade(k)
               /\ state' = IF k > 0 THEN "processing_tools"
                           ELSE IF interaction THEN "interacting" ELSE "terminated"
  /\ UNCHANGED <<interaction, image_data, user_turns, instances, server_version>>

\* generate raises, or SamplingParams does for max_tokens = 0.
GenerateRaises ==
  /\ state = "generating" /\ ~Fits /\ state' = "raised"
  /\ UNCHANGED <<interaction, agentVars, calls, instances, server_version>>
-----------------------------------------------------------------------------
Instance(c) == <<assistant_turns, c>>
Moves(c, from) == state = "processing_tools" /\ c \in DOMAIN calls /\ calls[c].at = from
Becomes(c, at, answer) == calls' = [calls EXCEPT ![c] = [at |-> at, answer |-> answer]]

\* _call_tool: malformed arguments, an unknown tool, or create raises.
CreateFails(c) ==
  /\ Moves(c, "called") /\ Becomes(c, "released", "text")
  /\ UNCHANGED <<interaction, state, agentVars, instances, server_version>>

Create(c) ==
  /\ Moves(c, "called") /\ Becomes(c, "created", "none")
  /\ instances' = instances \cup {Instance(c)}
  /\ UNCHANGED <<interaction, state, agentVars, server_version>>

\* A bug: an exception of execute returns without the release.
AnswersUnreleased(c) ==
  \/ \E a \in {"text", "image", "video"} : Becomes(c, "answered", a)
  \/ Becomes(c, "released", "text")
\* execute answers, or raises, and the error is the answer's text.
Answers(c) == \E a \in {"text", "image", "video"} : Becomes(c, "answered", a)

Execute(c) ==
  /\ Moves(c, "created") /\ Answers(c)
  /\ UNCHANGED <<interaction, state, agentVars, instances, server_version>>

\* The finally clause.
Release(c) ==
  /\ Moves(c, "answered") /\ Becomes(c, "released", calls[c].answer)
  /\ instances' = instances \ {Instance(c)}
  /\ UNCHANGED <<interaction, state, agentVars, server_version>>

\* asyncio.gather returns when all calls have.
Gathered == state = "processing_tools" /\ \A c \in DOMAIN calls : calls[c].at = "released"
AnyVideo == \E c \in DOMAIN calls : calls[c].answer = "video"
\* A message has one placeholder, however many images the answer's list holds.
Placeholders == Cardinality({c \in DOMAIN calls : calls[c].answer = "image"})
Unsupported == AnyVideo \/ (Placeholders > 0 /\ ~HasImageProcessor)

\* The images of so many lists together (a list of Nones has none).
ImagesOf(lists) == MinImages * lists .. MaxImages * lists

\* The chat template of the tools' messages.
ToolTokens(n) == Times(Placeholders, "image") \o Times(n, "tool")

\* A bug: the response may fill up entirely.
OverfullAfter(ids) == Len(response_mask) + Len(ids) > ResponseLength
TooLongWith(ids) == Len(response_mask) + Len(ids) >= ResponseLength

\* A bug: the images are kept although the placeholders are not.
ImagesAlways(long, images) == image_data + images
ImagesAfter(long, images) == IF long THEN image_data ELSE image_data + images

LogprobsPadded(ids) ==
  IF response_logprobs = <<>> THEN <<>> ELSE response_logprobs \o Times(Len(ids), "zero")

\* A bug: what the tool has said is trained on.
MaskOnes(ids) == Times(Len(ids), 1)
MaskOf(ids) == Times(Len(ids), 0)

Extend(ids) ==
  /\ prompt_ids' = prompt_ids \o ids
  /\ response_mask' = response_mask \o MaskOf(ids)
  /\ response_logprobs' = LogprobsPadded(ids)
  /\ user_turns' = user_turns + 1

HandleProcessingTools ==
  /\ Gathered /\ ~Unsupported
  /\ \E n \in 1 .. MaxUserTokens, images \in ImagesOf(Placeholders) :
       LET long == TooLongWith(ToolTokens(n)) IN
       /\ image_data' = ImagesAfter(long, images)
       /\ IF long THEN /\ state' = "terminated"
                       /\ UNCHANGED <<prompt_ids, response_mask, response_logprobs, user_turns>>
                  ELSE state' = "generating" /\ Extend(ToolTokens(n))
  /\ calls' = <<>>
  /\ UNCHANGED <<interaction, assistant_turns, extra_fields, instances, server_version>>

\* NotImplementedError for a video, ValueError for images that the model cannot process.
ProcessingRaises ==
  /\ Gathered /\ Unsupported /\ state' = "raised" /\ calls' = <<>>
  /\ UNCHANGED <<interaction, agentVars, instances, server_version>>

\* The length is not looked at here.
HandleInteracting ==
  /\ state = "interacting"
  /\ \E n \in 1 .. MaxUserTokens : Extend(Times(n, "user"))
  /\ state' \in {"generating", "terminated"}
  /\ UNCHANGED <<interaction, image_data, assistant_turns, extra_fields, calls, instances, server_version>>

\* The trainer updates the server's weights meanwhile.
Sync ==
  /\ server_version < MaxVersion /\ server_version' = server_version + 1
  /\ UNCHANGED <<interaction, state, agentVars, calls, instances>>

Step ==
  \/ HandlePending \/ HandleGenerating \/ GenerateRaises
  \/ \E c \in 1 .. MaxParallelCalls : CreateFails(c) \/ Create(c) \/ Execute(c) \/ Release(c)
  \/ HandleProcessingTools \/ ProcessingRaises \/ HandleInteracting

Next == Step \/ Sync
Spec == AgentInit /\ [][Next]_vars
-----------------------------------------------------------------------------
\* What run returns.
n_response == Len(response_mask)
Output ==
  [prompt_ids |-> First(prompt_ids, Len(prompt_ids) - n_response),
   response_ids |-> First(Last(prompt_ids, n_response), ResponseLength),
   response_mask |-> First(response_mask, ResponseLength),
   response_logprobs |-> First(response_logprobs, ResponseLength)]

\* The type invariant of a trajectory.
TypeOK ==
  /\ interaction \in BOOLEAN /\ state \in State /\ prompt_ids \in Seq(Origin) /\ response_mask \in Seq({0, 1})
  /\ response_logprobs \in Seq({"computed", "zero"}) /\ image_data \in Nat
  /\ user_turns \in Nat /\ assistant_turns \in Nat /\ Len(calls) <= MaxParallelCalls
  /\ \A c \in DOMAIN calls : calls[c] \in Calls
  /\ server_version \in 1 .. MaxVersion

\* What run returns: the prompt is free of generated tokens, token, mask and log-prob
\* stand side by side, and the mask is 1, and the log-prob a computed one, exactly for
\* the tokens that the policy generated, although each handler extends them on its own
\* and may end the trajectory in between.
OutputAligned ==
  state = "terminated" =>
    /\ \A i \in DOMAIN Output.prompt_ids : Output.prompt_ids[i] = "prompt"
    /\ Len(Output.response_ids) = Len(Output.response_mask)
    /\ Len(Output.response_logprobs) = Len(Output.response_mask)
    /\ \A i \in DOMAIN Output.response_mask :
         /\ Output.response_ids[i] # "prompt"
         /\ Output.response_mask[i] = 1 <=> Output.response_ids[i] = "policy"
         /\ Output.response_mask[i] = 1 <=> Output.response_logprobs[i] = "computed"

\* The images are those of the answers whose placeholders the prompt has, whenever the
\* server or the output sees it: as many as an answer may bring for each placeholder, so
\* one each where every answer brings one.  A turn cut off for its length leaves neither.
ImagesMatch ==
  image_data \in ImagesOf(Cardinality({i \in DOMAIN prompt_ids : prompt_ids[i] = "image"}))

\* No tool instance outlives its turn, whichever of its calls fails.
InstancesReleased == state # "processing_tools" => instances = {}

\* Without an interaction, every request of a turn fits the server's context ("Prompt
\* length exceeds the model's maximum context length", vllm_async_server.py) and has a
\* token of budget.  The answer of an interaction is not held to response_length.
RequestFits == state = "generating" /\ ~interaction => Fits
=============================================================================
