------------------------------- MODULE Trainer -------------------------------
(***************************************************************************)
(* The FullyAsyncTrainer actor (fully_async_trainer.py): one thread of      *)
(* control that takes RequiredSamples samples per fit_step, publishes its   *)
(* parameters every TriggerParameterSyncStep steps and then resets the      *)
(* Rollouter's staleness count.                                             *)
(***************************************************************************)
EXTENDS AsyncChannels

CONSTANTS
  SaveFreq,   \* trainer.save_freq
  TestFreq,   \* trainer.test_freq
  EsiMayEnd   \* whether should_save_ckpt_esi may answer TRUE

ASSUME FreqAssumption ==
  SaveFreq \in Nat /\ TestFreq \in Nat \ {0} /\ EsiMayEnd \in BOOLEAN

VARIABLES
  trainPc,
  batch,                  \* samples collected for the step under way
  trained,                \* history: the samples of completed steps
  local_trigger_step,
  current_param_version,
  last_ckpt_version       \* the version of the latest checkpoint

trainVars == <<trainPc, batch, trained, local_trigger_step,
               current_param_version, last_ckpt_version>>

\* "stop" and the two "last..." states come after TrainingStopException.
TrainPc == {"collect", "step", "sync", "reset", "save",
            "stop", "lastSync", "lastReset", "lastSave", "done"}

TrainInit ==
  /\ trainPc = "collect"
  /\ batch = <<>> /\ trained = {}
  /\ local_trigger_step = 1 /\ current_param_version = 0
  /\ last_ckpt_version = 0

-----------------------------------------------------------------------------
\* _get_samples_from_queue: None ends the loop, and a batch that is then too
\* small is thrown away (fit_step raises TrainingStopException).

\* A bug for TLC to find: the collection loop runs once too often.
TakeSampleTooMany ==
  /\ trainPc = "collect"
  /\ MQ!GetSample("trainer")
  /\ IF Head(queue) = EndSignal
     THEN trainPc' = "stop" /\ batch' = <<>>
     ELSE /\ batch' = Append(batch, Head(queue))
          /\ trainPc' = IF Len(batch) < RequiredSamples THEN "collect" ELSE "step"
  /\ UNCHANGED <<trained, local_trigger_step, current_param_version,
                 last_ckpt_version, resetPc, server_version>>

TakeSample ==
  /\ trainPc = "collect"
  /\ MQ!GetSample("trainer")
  /\ IF Head(queue) = EndSignal
     THEN trainPc' = "stop" /\ batch' = <<>>
     ELSE /\ batch' = Append(batch, Head(queue))
          /\ trainPc' = IF Len(batch) + 1 < RequiredSamples THEN "collect" ELSE "step"
  /\ UNCHANGED <<trained, local_trigger_step, current_param_version,
                 last_ckpt_version, resetPc, server_version>>

WaitSample ==
  /\ trainPc = "collect"
  /\ MQ!GetWait("trainer")
  /\ UNCHANGED <<trainVars, resetPc, server_version>>

\* Reward, log-probs, advantages and the updates of critic and actor, then
\* _fit_update_local_step.
TrainStep ==
  /\ trainPc = "step"
  /\ trained' = trained \cup {batch[i] : i \in DOMAIN batch}
  /\ batch' = <<>>
  /\ IF local_trigger_step < TriggerParameterSyncStep
     THEN /\ local_trigger_step' = local_trigger_step + 1
          /\ trainPc' = "save"
          /\ UNCHANGED current_param_version
     ELSE /\ local_trigger_step' = 1
          /\ current_param_version' = current_param_version + 1
          /\ trainPc' = "sync"
  /\ UNCHANGED <<last_ckpt_version, mqVars, resetPc, server_version>>

\* _fit_update_weights: the servers are aborted, loaded and resumed as one step
\* here (nothing is generated meanwhile), then reset_staleness is called.
UpdateWeights ==
  /\ trainPc \in {"sync", "lastSync"}
  /\ server_version' = current_param_version
  /\ resetPc' = "called"
  /\ trainPc' = IF trainPc = "sync" THEN "reset" ELSE "lastReset"
  /\ UNCHANGED <<batch, trained, local_trigger_step, current_param_version,
                 last_ckpt_version, mqVars>>

ResetReturns ==
  /\ trainPc \in {"reset", "lastReset"} /\ resetPc = "returned"
  /\ resetPc' = "none"
  /\ trainPc' = IF trainPc = "reset" THEN "save" ELSE "lastSave"
  /\ UNCHANGED <<batch, trained, local_trigger_step, current_param_version,
                 last_ckpt_version, mqVars, server_version>>

\* _fit_save_checkpoint; "force" is the save after the last step.
SaveDue(force, esi) ==
  /\ current_param_version # last_ckpt_version
  /\ SaveFreq > 0
  /\ (force /\ current_param_version % SaveFreq = 0) \/ esi

FitSaveCheckpoint ==
  /\ trainPc \in {"save", "lastSave"}
  /\ \E esi \in IF EsiMayEnd THEN BOOLEAN ELSE {FALSE} :
        IF SaveDue(trainPc = "lastSave", esi)
        THEN last_ckpt_version' = current_param_version
        ELSE UNCHANGED last_ckpt_version
  /\ trainPc' = IF trainPc = "save" THEN "collect" ELSE "done"
  /\ UNCHANGED <<batch, trained, local_trigger_step, current_param_version,
                 mqVars, resetPc, server_version>>

\* The end of fit.  _fit_update_weights returns at once between two syncs
\* (local_trigger_step # 1), so that the steps since the last one stay unpublished.
AfterLoop ==
  /\ trainPc = "stop"
  /\ trainPc' = IF /\ current_param_version % TestFreq # 0 \/ local_trigger_step > 1
                   /\ local_trigger_step = 1
                THEN "lastSync" ELSE "lastSave"
  /\ UNCHANGED <<batch, trained, local_trigger_step, current_param_version,
                 last_ckpt_version, mqVars, resetPc, server_version>>

TrainNext ==
  \/ TakeSample \/ WaitSample \/ TrainStep \/ UpdateWeights \/ ResetReturns
  \/ FitSaveCheckpoint \/ AfterLoop

TrainTypeOK ==
  /\ trainPc \in TrainPc
  /\ batch \in Seq(Samples) /\ Len(batch) <= RequiredSamples
  /\ trained \subseteq Samples
  /\ local_trigger_step \in 1 .. TriggerParameterSyncStep
  /\ current_param_version \in Nat
  /\ last_ckpt_version \in Nat
=============================================================================
