--------------------------- MODULE PartialRollout ---------------------------
(***************************************************************************)
(* Generation that survives weight updates: the single-turn agent loops of *)
(* a batch (single_turn_agent_loop.py), each calling                       *)
(* FullyAsyncLLMServerManager.generate (fully_async_policy/agent_loop/     *)
(* agent_loop.py), which resubmits an aborted request with the tokens it   *)
(* has; the load balancer; the vLLM servers; and update_weights of the     *)
(* checkpoint engine.  A worker's requests share one sampling_params       *)
(* dictionary.  A token is its position in the response and the version of *)
(* the weights that produced it.                                           *)
(***************************************************************************)
EXTENDS WeightSync, Integers

CONSTANTS
  PromptLength,    \* rollout.prompt_length
  ResponseLength,  \* rollout.response_length
  MaxModelLen,     \* max_model_len of the servers
  PromptLen,       \* tokens of the prompts of the model
  LimitGiven,      \* whether sampling_params holds "max_new_tokens": a set of choices
  InitLimit,       \* its value then
  NoLimit,         \* the key is absent
  Partial          \* async_training.partial_rollout

ASSUME LengthsAssumption ==
  /\ PromptLength \in Nat /\ PromptLen \in Nat /\ PromptLen <= PromptLength
  /\ ResponseLength \in Nat \ {0}
  /\ MaxModelLen \in Nat /\ PromptLength + ResponseLength <= MaxModelLen
  /\ LimitGiven \subseteq BOOLEAN /\ InitLimit \in 1 .. ResponseLength /\ NoLimit \notin Int
  /\ Partial \in BOOLEAN

NoSteps == -1   \* None
NoServer == 0

VARIABLES
  pc,         \* where a request is
  limit,      \* sampling_params["max_new_tokens"] of a worker's batch, or NoLimit
  target,     \* target_response_length read by run
  original,   \* original_max_tokens
  server,     \* the server acquired
  prompted,   \* tokens of the response submitted as part of the prompt
  allowed,    \* max_tokens of the engine's request
  chunk,      \* token_ids of the call under way
  reason,     \* its stop_reason
  stamped,    \* its extra_fields["global_steps"]
  final,      \* final_output.token_ids
  minSteps, maxSteps,   \* min_global_steps, max_global_steps
  padded      \* width of the padded response, 0 before _agent_loop_postprocess

requestVars == <<pc, limit, target, original, server, prompted, allowed, chunk,
                 reason, stamped, final, minSteps, maxSteps, padded>>
vars == <<balancerVars, syncVars, requestVars>>

Pc == {"start", "prompt", "acquire", "submit", "waiting", "running", "answered", "done"}

Init ==
  /\ BalancerInit /\ SyncInit
  /\ pc = [r \in Requests |-> "start"]
  /\ \E given \in LimitGiven :
       limit = [w \in Workers |-> IF given THEN InitLimit ELSE NoLimit]
  /\ target = [r \in Requests |-> 0] /\ original = [r \in Requests |-> 0]
  /\ server = [r \in Requests |-> NoServer]
  /\ prompted = [r \in Requests |-> 0] /\ allowed = [r \in Requests |-> 0]
  /\ chunk = [r \in Requests |-> <<>>] /\ reason = [r \in Requests |-> "None"]
  /\ stamped = [r \in Requests |-> 0]
  /\ final = [r \in Requests |-> <<>>]
  /\ minSteps = [r \in Requests |-> NoSteps] /\ maxSteps = [r \in Requests |-> NoSteps]
  /\ padded = [r \in Requests |-> 0]

Minimum(a, b) == IF a < b THEN a ELSE b
Set(f, r, v) == f' = [f EXCEPT ![r] = v]
Goto(r, to) == Set(pc, r, to)

Limited(r) == limit[WorkerOf[r]] # NoLimit

\* sampling_params.get("max_new_tokens", response_length)
TargetNow(r) == IF Limited(r) THEN limit[WorkerOf[r]] ELSE ResponseLength

\* run reads the target, then waits for the chat template.
Start(r) ==
  /\ pc[r] = "start" /\ Goto(r, "prompt")
  /\ Set(target, r, TargetNow(r))
  /\ UNCHANGED <<balancerVars, syncVars, limit, original, server, prompted, allowed, chunk,
                 reason, stamped, final, minSteps, maxSteps, padded>>

\* generate reads the limit and asks for a server.
Enter(r) ==
  /\ pc[r] = "prompt" /\ Goto(r, "acquire")
  /\ Set(original, r, limit[WorkerOf[r]])
  /\ Sent(WorkerOf[r], AcquireCall(r))
  /\ UNCHANGED <<inflight, routes, syncVars, limit, target, server, prompted, allowed, chunk,
                 reason, stamped, final, minSteps, maxSteps, padded>>

Acquired(r) ==
  /\ Received(WorkerOf[r], AcquireCall(r))
  /\ \E s \in Servers : AcquireServer(r, s) /\ Set(server, r, s)
  /\ Goto(r, "submit")
  /\ UNCHANGED <<syncVars, limit, target, original, prompted, allowed, chunk, reason,
                 stamped, final, minSteps, maxSteps, padded>>

Released(w) ==
  /\ \E s \in Servers : Received(w, ReleaseCall(s)) /\ ReleaseServer(s)
  /\ UNCHANGED <<syncVars, requestVars>>

\* The arithmetic of vLLMHttpServer.generate on a prompt of n tokens, clamped to 0.
ClampTokens(m, n) ==
  LET room == MaxModelLen - n IN IF Minimum(m, room) < 0 THEN 0 ELSE Minimum(m, room)
MaxTokens(r, n) ==
  ClampTokens(IF Limited(r) THEN limit[WorkerOf[r]]
              ELSE Minimum(ResponseLength, PromptLength + ResponseLength - n), n)

\* A bug: the prompt is resubmitted without the tokens generated so far.
SubmitAnew(r) ==
  /\ pc[r] = "submit" /\ Goto(r, "waiting")
  /\ Set(prompted, r, 0)
  /\ Set(allowed, r, MaxTokens(r, PromptLen)) /\ Set(chunk, r, <<>>)
  /\ UNCHANGED <<balancerVars, syncVars, limit, target, original, server, reason,
                 stamped, final, minSteps, maxSteps, padded>>

\* The server answered acquire; prompt_ids + final_output.token_ids is sent to it,
\* with the limit the dictionary holds now.
Submit(r) ==
  /\ pc[r] = "submit" /\ Goto(r, "waiting")
  /\ Set(prompted, r, Len(final[r]))
  /\ Set(allowed, r, MaxTokens(r, PromptLen + Len(final[r]))) /\ Set(chunk, r, <<>>)
  /\ UNCHANGED <<balancerVars, syncVars, limit, target, original, server, reason,
                 stamped, final, minSteps, maxSteps, padded>>

\* The engine accepts the request; a paused engine keeps it waiting.
Admit(r) ==
  /\ pc[r] = "waiting" /\ ~engine_paused[server[r]] /\ Goto(r, "running")
  /\ UNCHANGED <<balancerVars, syncVars, limit, target, original, server, prompted, allowed,
                 chunk, reason, stamped, final, minSteps, maxSteps, padded>>

NextToken(r) == [pos |-> prompted[r] + Len(chunk[r]) + 1, ver |-> weights[server[r]]]

\* One more token; the request ends with an end-of-sequence token or with max_tokens.
Generate(r) ==
  /\ pc[r] = "running" /\ allowed[r] > 0
  /\ Set(chunk, r, Append(chunk[r], NextToken(r)))
  /\ \/ Len(chunk'[r]) < allowed[r] /\ UNCHANGED <<pc, reason, stamped>>
     \/ Goto(r, "answered") /\ Set(reason, r, "completed") /\ Set(stamped, r, global_steps[server[r]])
  /\ UNCHANGED <<balancerVars, syncVars, limit, target, original, server, prompted, allowed,
                 final, minSteps, maxSteps, padded>>

RunningOn(s) == {r \in Requests : pc[r] = "running" /\ server[r] = s}

\* abort_all_requests of a replica answers the requests its engine holds.
Abort(s) ==
  /\ AbortReplica(s)
  /\ pc' = [r \in Requests |-> IF r \in RunningOn(s) THEN "answered" ELSE pc[r]]
  /\ reason' = [r \in Requests |-> IF r \in RunningOn(s) THEN "aborted" ELSE reason[r]]
  /\ stamped' = [r \in Requests |-> IF r \in RunningOn(s) THEN global_steps[s] ELSE stamped[r]]
  /\ UNCHANGED <<balancerVars, limit, target, original, server, prompted, allowed, chunk,
                 final, minSteps, maxSteps, padded>>

Drain(s) ==
  /\ RunningOn(s) = {} /\ DrainReplica(s)
  /\ UNCHANGED <<balancerVars, requestVars>>

Sync ==
  /\ \/ UpdateWeights
     \/ \E s \in Servers : LoadBegins(s) \/ LoadEnds(s) \/ Stamp(s) \/ ResumeReplica(s)
     \/ NextPhase
  /\ UNCHANGED <<balancerVars, requestVars>>

\* The loop of generate after an answer, and at its end the rest of run and of
\* _run_agent_loop: the response is cut to the target, then padded to the limit the
\* dictionary holds now (int(limit or response_length)).
Merged(r) == final[r] \o chunk[r]
OverLimit(r) == Limited(r) /\ Len(Merged(r)) >= original[r]
LoopEnds(r) == OverLimit(r) \/ reason[r] # "aborted" \/ ~Partial
LimitAfter(r) ==
  IF ~Limited(r) THEN limit
  ELSE [limit EXCEPT ![WorkerOf[r]] = original[r] - Len(Merged(r))]
PadTo(r) ==
  LET n == LimitAfter(r)[WorkerOf[r]] IN IF n \in {NoLimit, 0} THEN ResponseLength ELSE n

MergeState(r) ==
  /\ Set(final, r, Merged(r)) /\ Set(chunk, r, <<>>) /\ Set(server, r, NoServer)
  /\ Set(minSteps, r, IF minSteps[r] = NoSteps THEN stamped[r] ELSE minSteps[r])
  /\ Set(maxSteps, r, stamped[r])
  /\ limit' = LimitAfter(r)
  /\ UNCHANGED <<inflight, routes, syncVars, target, original, prompted, allowed, reason, stamped>>

Width(r) ==
  LET n == Minimum(Len(Merged(r)), target[r]) IN IF n > PadTo(r) THEN n ELSE PadTo(r)

MergeAndContinue(r) ==
  /\ pc[r] = "answered" /\ ~LoopEnds(r) /\ Goto(r, "acquire")
  /\ calls' = [calls EXCEPT ![WorkerOf[r]] = @ \o <<ReleaseCall(server[r]), AcquireCall(r)>>]
  /\ MergeState(r)
  /\ UNCHANGED padded

MergeAndReturn(r) ==
  /\ pc[r] = "answered" /\ LoopEnds(r) /\ Goto(r, "done")
  /\ Sent(WorkerOf[r], ReleaseCall(server[r]))
  /\ MergeState(r)
  /\ Set(padded, r, Width(r))

Next ==
  \/ \E r \in Requests :
       \/ Start(r) \/ Enter(r) \/ Acquired(r) \/ Submit(r) \/ Admit(r) \/ Generate(r)
       \/ MergeAndContinue(r) \/ MergeAndReturn(r)
  \/ \E w \in Workers : Released(w)
  \/ \E s \in Servers : Abort(s) \/ Drain(s)
  \/ Sync

Spec == Init /\ [][Next]_vars
-----------------------------------------------------------------------------
\* The responses a trainer will see, as a ResponseStream: what is merged and what the
\* engine has produced since.
Versions(s) == [i \in DOMAIN s |-> s[i].ver]
Stream == INSTANCE ResponseStream WITH
  stream <- [r \in Requests |-> Versions(Merged(r))],
  closed <- {r \in Requests : pc[r] = "done"},
  spans <- [r \in Requests |->
              IF pc[r] = "done" THEN <<minSteps[r], maxSteps[r]>> ELSE <<NoSteps, NoSteps>>],
  Budget <- PromptLength + ResponseLength - PromptLen

\* Every weight update and every step of a request under way eventually happens; a
\* trainer need not publish a version.
RequestFairness ==
  /\ \A r \in Requests :
       WF_vars(Start(r) \/ Enter(r) \/ Submit(r) \/ Admit(r) \/ Generate(r)
               \/ MergeAndContinue(r) \/ MergeAndReturn(r))
  /\ \A w \in Workers : WF_vars(Released(w) \/ \E r \in Requests : WorkerOf[r] = w /\ Acquired(r))
SyncFairness ==
  /\ \A s \in Servers :
       /\ WF_vars(Abort(s)) /\ WF_vars(Drain(s))
       /\ WF_vars((LoadBegins(s) \/ LoadEnds(s) \/ Stamp(s) \/ ResumeReplica(s))
                  /\ UNCHANGED <<balancerVars, requestVars>>)
  /\ WF_vars(NextPhase /\ UNCHANGED <<balancerVars, requestVars>>)
FairSpec == Spec /\ RequestFairness /\ SyncFairness
-----------------------------------------------------------------------------
RequestsTypeOK ==
  /\ pc \in [Requests -> Pc]
  /\ limit \in [Workers -> Int \cup {NoLimit}]
  /\ target \in [Requests -> Int] /\ original \in [Requests -> Int \cup {NoLimit}]
  /\ server \in [Requests -> Servers \cup {NoServer}]
  /\ prompted \in [Requests -> Nat] /\ allowed \in [Requests -> Nat]
  /\ chunk \in [Requests -> Seq([pos : Nat, ver : Nat])]
  /\ final \in [Requests -> Seq([pos : Nat, ver : Nat])]
  /\ reason \in [Requests -> {"None", "completed", "aborted"}]
  /\ stamped \in [Requests -> Nat]
  /\ minSteps \in [Requests -> Int]
  /\ maxSteps \in [Requests -> Int]
  /\ padded \in [Requests -> Int]

\* The type invariant of requests, balancer and weight update together.
TypeOK == BalancerTypeOK /\ SyncTypeOK /\ RequestsTypeOK

\* While a replica's weights are being overwritten no request generates on it
\* (update_weights aborts and drains before it transfers): no token comes out of
\* half-loaded weights.
NoneRunsWhileLoading ==
  \A s \in Servers : stage[s] \in {"drained", "loading", "loaded"} => RunningOn(s) = {}

\* However often a response is interrupted, its tokens are the continuation of each
\* other: none is missing, repeated or generated from another prefix (generate resubmits
\* prompt_ids + final_output.token_ids).
ContinuesItself ==
  \A r \in Requests : \A i \in DOMAIN Merged(r) : Merged(r)[i].pos = i

\* The balancer's count of a server is the number of requests that hold it plus the
\* releases on their way: no path through generate leaks or releases twice.
HeldBy(s) == {r \in Requests : server[r] = s}
ReleasesTo(s) ==
  UNION {{w} \X {i \in DOMAIN calls[w] : calls[w][i] = ReleaseCall(s)} : w \in Workers}
InflightAccounted ==
  \A s \in Servers : inflight[s] = Cardinality(HeldBy(s)) + Cardinality(ReleasesTo(s))

\* Every request eventually returns, though updates interrupt it (they are finitely
\* many in the model): resume_generation wakes what pause_generation blocked, and an
\* aborted response keeps the tokens it has.
EveryRequestReturns == \A r \in Requests : <>(pc[r] = "done")

\* The responses form a ResponseStream.
ImplementsStream == Stream!Spec
=============================================================================
