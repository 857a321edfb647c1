---------------------------- MODULE AsyncChannels ----------------------------
(***************************************************************************)
(* What the Rollouter and the Trainer of the fully asynchronous trainer    *)
(* (experimental/fully_async_policy) share: the configuration, the         *)
(* MessageQueue actor, the reset_staleness call and the parameter version  *)
(* the rollout servers serve.                                              *)
(***************************************************************************)
EXTENDS Naturals, Sequences, FiniteSets

CONSTANTS
  TotalRolloutSteps,         \* total_rollout_steps: samples to feed
  RequiredSamples,           \* ppo_mini_batch_size * require_batches
  TriggerParameterSyncStep,  \* trigger_parameter_sync_step
  StalenessPct,              \* staleness_threshold, in hundredths
  ServerSlots,               \* len(server_handles) * 16
  PendingCap,                \* maxsize of pending_queue (128 in the code)
  MayFail                    \* samples whose generation may raise

ASSUME ConfigAssumption ==
  /\ TotalRolloutSteps \in Nat \ {0}
  /\ RequiredSamples \in Nat \ {0}
  /\ TriggerParameterSyncStep \in Nat \ {0}
  /\ StalenessPct \in Nat
  /\ ServerSlots \in Nat \ {0}
  /\ PendingCap \in Nat \ {0}
  /\ MayFail \subseteq 1 .. TotalRolloutSteps

\* set_max_required_samples; int() truncates.
MaxRequiredSamples ==
  (RequiredSamples * (100 + StalenessPct) * TriggerParameterSyncStep) \div 100
MaxConcurrentSamples ==
  IF ServerSlots <= MaxRequiredSamples THEN ServerSlots ELSE MaxRequiredSamples

\* A sample is named by the global_steps at which it was fed; None, the end
\* signal of both pending_queue and the MessageQueue, is 0.
Samples == 1 .. TotalRolloutSteps
EndSignal == 0
Items == Samples \cup {EndSignal}

VARIABLES
  queue, mq_running, total_produced, total_consumed, dropped_samples,
  val_queue,         \* with the line above, the MessageQueue
  getter,            \* the Trainer's get_sample call
  resetPc,           \* the Trainer's call of reset_staleness
  server_version     \* global_steps of the rollout servers

mqVars == <<queue, mq_running, total_produced, total_consumed, dropped_samples,
            val_queue, getter>>

\* shutdown and the validation queue are not used by the pipeline.
MQ == INSTANCE MessageQueue
        WITH Consumers <- {"trainer"}, MaxQueueSize <- MaxRequiredSamples,
             MaxProduced <- TotalRolloutSteps + 1, MaxValidate <- 0,
             running <- mq_running

ResetPc == {"none", "called", "query", "reply", "returned"}

ChannelInit ==
  /\ MQ!Init
  /\ resetPc = "none"
  /\ server_version = 0

\* The samples, as opposed to the end signal, of a queue.
SamplesIn(q) == {q[i] : i \in DOMAIN q} \ {EndSignal}
=============================================================================
