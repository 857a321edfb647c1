----------------------------- MODULE WeightSync -----------------------------
(***************************************************************************)
(* CheckpointEngineManager.update_weights (checkpoint_engine/base.py) over *)
(* standalone vLLM replicas (vllm_async_server.py, vllm_rollout.py): abort *)
(* all requests, wait for the replicas to drain, transfer the weights,     *)
(* resume.  asyncio.gather and ray.get run a phase on all replicas at      *)
(* their own pace and wait for the last.  The transfer itself is the       *)
(* business of WeightTransfer.                                             *)
(***************************************************************************)
EXTENDS RequestBalancer

CONSTANTS
  MaxVersion,    \* bound of the model: parameter versions published
  EnginePauses   \* vLLM >= 0.12: aborting pauses the engine until it is resumed
ASSUME SyncAssumption == MaxVersion \in Nat /\ EnginePauses \in BOOLEAN

VARIABLES
  syncPc,         \* phase of update_weights; "idle": not called
  version,        \* global_steps of the call under way, or of the last one
  stage,          \* how far each replica is
  engine_paused,  \* vLLM's pause_generation / resume_generation
  weights,        \* the version a replica's engine has loaded
  global_steps    \* vLLMHttpServer.global_steps

syncVars == <<syncPc, version, stage, engine_paused, weights, global_steps>>

SyncPc == {"idle", "abort", "drain", "transfer", "resume"}
Stage == {"serving", "aborted", "drained", "loading", "loaded", "stamped"}

\* update_weights has been called once, with version 0, before rollouts start.
SyncInit ==
  /\ syncPc = "idle" /\ version = 0
  /\ stage = [s \in Servers |-> "serving"]
  /\ engine_paused = [s \in Servers |-> FALSE]
  /\ weights = [s \in Servers |-> 0]
  /\ global_steps = [s \in Servers |-> 0]

SyncTypeOK ==
  /\ syncPc \in SyncPc /\ version \in Nat
  /\ stage \in [Servers -> Stage]
  /\ engine_paused \in [Servers -> BOOLEAN]
  /\ weights \in [Servers -> Nat] /\ global_steps \in [Servers -> Nat]

Advance(s, from, to) ==
  /\ stage[s] = from
  /\ stage' = [stage EXCEPT ![s] = to]

\* The trainer publishes the next version.
UpdateWeights ==
  /\ syncPc = "idle" /\ version < MaxVersion
  /\ syncPc' = "abort" /\ version' = version + 1
  /\ UNCHANGED <<stage, engine_paused, weights, global_steps>>

\* A bug: requests are aborted, but the engine goes on accepting new ones.
AbortNoPause(s) ==
  /\ syncPc = "abort" /\ Advance(s, "serving", "aborted")
  /\ UNCHANGED <<syncPc, version, engine_paused, weights, global_steps>>

\* abort_all_requests: pause_generation blocks new requests and aborts the running;
\* before vLLM 0.12 the running requests are aborted one by one.
AbortReplica(s) ==
  /\ syncPc = "abort" /\ Advance(s, "serving", "aborted")
  /\ engine_paused' = [engine_paused EXCEPT ![s] = EnginePauses]
  /\ UNCHANGED <<syncPc, version, weights, global_steps>>

\* vLLMReplica.sleep: wait_for_requests_to_drain; a standalone replica skips the rest.
DrainReplica(s) ==
  /\ syncPc = "drain" /\ Advance(s, "aborted", "drained")
  /\ UNCHANGED <<syncPc, version, engine_paused, weights, global_steps>>

\* ServerAdapter.update_weights: the weights are being overwritten ...
LoadBegins(s) ==
  /\ syncPc = "transfer" /\ Advance(s, "drained", "loading")
  /\ UNCHANGED <<syncPc, version, engine_paused, weights, global_steps>>

\* ... and complete.
LoadEnds(s) ==
  /\ Advance(s, "loading", "loaded")
  /\ weights' = [weights EXCEPT ![s] = version]
  /\ UNCHANGED <<syncPc, version, engine_paused, global_steps>>

\* clear_kv_cache, then set_global_steps.
Stamp(s) ==
  /\ Advance(s, "loaded", "stamped")
  /\ global_steps' = [global_steps EXCEPT ![s] = version]
  /\ UNCHANGED <<syncPc, version, engine_paused, weights>>

\* A bug: the engine stays paused.
ResumeNot(s) ==
  /\ syncPc = "resume" /\ Advance(s, "stamped", "serving")
  /\ UNCHANGED <<syncPc, version, engine_paused, weights, global_steps>>

\* resume_generation
ResumeReplica(s) ==
  /\ syncPc = "resume" /\ Advance(s, "stamped", "serving")
  /\ engine_paused' = [engine_paused EXCEPT ![s] = FALSE]
  /\ UNCHANGED <<syncPc, version, weights, global_steps>>

\* The gather at the end of a phase.
PhaseEnds(from, reached, to) ==
  /\ syncPc = from
  /\ \A s \in Servers : stage[s] = reached
  /\ syncPc' = to
  /\ UNCHANGED <<version, stage, engine_paused, weights, global_steps>>

NextPhase ==
  \/ PhaseEnds("abort", "aborted", "drain")
  \/ PhaseEnds("drain", "drained", "transfer")
  \/ PhaseEnds("transfer", "stamped", "resume")
  \/ PhaseEnds("resume", "serving", "idle")
=============================================================================
