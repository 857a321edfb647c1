----------------------------- MODULE AsyncResume -----------------------------
(***************************************************************************)
(* Checkpoint, crash and resumption of the fully asynchronous trainer:     *)
(* _save_checkpoint and load_checkpoint of FullyAsyncTrainer and           *)
(* FullyAsyncRollouter, and FullyAsyncTaskRunner._initialize_components,   *)
(* which loads both.  Between the feeder and a training step a prompt is   *)
(* in pending_queue (a FIFO of its own bound), then outstanding (in the    *)
(* processor's hand, a task or the MessageQueue, as in SampleFlow), then   *)
(* in the batch the Trainer collects.  Outstanding prompts are taken in    *)
(* any order, for they finish in any order; a full MessageQueue displaces  *)
(* one, and a generation that raises ends the stream.                      *)
(***************************************************************************)
EXTENDS Naturals, FiniteSets

CONSTANTS
  TotalRolloutSteps,         \* total_rollout_steps
  RequiredSamples,
  TriggerParameterSyncStep,
  PendingCap,                \* maxsize of pending_queue
  MaxRequiredSamples,        \* max_required_samples: the throttle, and the MessageQueue's size
  MayFail,                   \* prompts, by position, whose generation may raise
  DatasetSize,               \* prompts in a pass of the data loader
  TotalEpochs,
  SaveFreq,
  EsiMayEnd,                 \* whether should_save_ckpt_esi may answer TRUE
  MaxCrashes                 \* bound of the model

ASSUME ResumeAssumption ==
  /\ {TotalRolloutSteps, RequiredSamples, TriggerParameterSyncStep, PendingCap,
      MaxRequiredSamples, DatasetSize, TotalEpochs, SaveFreq} \subseteq Nat \ {0}
  /\ TotalRolloutSteps <= DatasetSize * TotalEpochs
  /\ RequiredSamples <= MaxRequiredSamples
  /\ MayFail \subseteq Nat /\ EsiMayEnd \in BOOLEAN /\ MaxCrashes \in Nat

VARIABLES
  crashes,
  \* the Rollouter
  feeding,
  rollouter_steps,  \* its global_steps
  position,         \* prompts the data loader has yielded, over all passes
  lastPosition,     \* where the last pass of this run ends
  handed,           \* how many of them the processor has taken from pending_queue
  outstanding,      \* prompts, by position: in hand, being generated or queued
  stream,           \* "open", "failing" (a generation raised), "raised" (main, the feeder cancelled)
  dropped,          \* prompts of this run displaced or failed
  earlier,          \* history: the same, of the runs before
  \* the Trainer
  pc,
  batch,            \* the prompts it has collected
  trained,          \* the prompts the weights have been trained on
  local_trigger_step, current_param_version, last_ckpt_version,
  \* the disk
  saved,            \* the folder of a version: the weights, and the data loader's position
  tracker

feedVars == <<feeding, rollouter_steps, position, lastPosition>>
rollVars == <<feedVars, handed, outstanding, stream, dropped, earlier>>
trainVars == <<trained, local_trigger_step, current_param_version, last_ckpt_version>>
diskVars == <<saved, tracker>>
vars == <<crashes, rollVars, pc, batch, trainVars, diskVars>>

Required == RequiredSamples * TriggerParameterSyncStep
MaxVersion == TotalRolloutSteps + MaxCrashes   \* a resumed run feeds at least one prompt
PassEnd(p) == ((p \div DatasetSize) + TotalEpochs) * DatasetSize
NoTracker == 0   \* a version is saved after it has been published: 1 or more

Init ==
  /\ crashes = 0
  /\ feeding = TRUE /\ rollouter_steps = 1 /\ position = 0 /\ lastPosition = PassEnd(0)
  /\ handed = 0 /\ outstanding = {} /\ stream = "open" /\ dropped = 0 /\ earlier = 0
  /\ pc = "collect" /\ batch = {} /\ trained = {}
  /\ local_trigger_step = 1 /\ current_param_version = 0 /\ last_ckpt_version = 0
  /\ saved = [v \in 1 .. MaxVersion |-> [trained |-> {}, position |-> 0]]
  /\ tracker = NoTracker
-----------------------------------------------------------------------------
Pending == handed + 1 .. position   \* the last one may wait for room in pending_queue
InFlight == Pending \cup outstanding \cup batch

\* What a crash can find between the two loaders' ends: a full pending_queue and the prompt
\* waiting for room in it, the throttle overrun by one, all but one sample of a batch.
MaxInFlight == (PendingCap + 1) + (MaxRequiredSamples + 1) + (RequiredSamples - 1)

\* The put of the prompt yielded last has returned.
Room == Cardinality(Pending) <= PendingCap

\* An iteration of _feed_samples: the total is checked after a prompt has been fed.
Feed ==
  /\ feeding /\ position < lastPosition /\ Room
  /\ position' = position + 1
  /\ feeding' = (rollouter_steps < TotalRolloutSteps)
  /\ rollouter_steps' = IF feeding' THEN rollouter_steps + 1 ELSE rollouter_steps
  /\ UNCHANGED <<crashes, lastPosition, handed, outstanding, stream, dropped, earlier, pc, batch,
                 trainVars, diskVars>>

\* The data loader has no more passes.
FeedEnds ==
  /\ feeding /\ position = lastPosition /\ feeding' = FALSE
  /\ UNCHANGED <<crashes, rollouter_steps, position, lastPosition, handed, outstanding, stream,
                 dropped, earlier, pc, batch, trainVars, diskVars>>

\* The processor takes a prompt: _should_pause_generation admits one more than the throttle.
Start ==
  /\ stream # "raised" /\ handed < position /\ Cardinality(outstanding) <= MaxRequiredSamples
  /\ handed' = handed + 1 /\ outstanding' = outstanding \cup {handed'}
  /\ UNCHANGED <<crashes, feedVars, stream, dropped, earlier, pc, batch, trainVars, diskVars>>

Drop(s) ==
  /\ outstanding' = outstanding \ {s} /\ dropped' = dropped + 1
  /\ UNCHANGED <<crashes, feedVars, handed, earlier, pc, batch, trainVars, diskVars>>

\* A bug: the processor is not awaited before the end signal is put.
EndSentEarly == stream = "raised" \/ (stream = "open" /\ ~feeding)
\* The end signal is queued, or is being put.
EndSent == stream = "raised" \/ (stream = "open" /\ ~feeding /\ handed = position)

\* put_sample finds the MessageQueue full and removes its oldest sample.
Displace(s) ==
  /\ s \in outstanding
  /\ Cardinality(outstanding) + (IF EndSent THEN 1 ELSE 0) > MaxRequiredSamples
  /\ Drop(s) /\ UNCHANGED stream

\* generate_sequences_single raises, and the task with it, also in one left running ...
GenerationFails(s) ==
  /\ s \in outstanding \cap MayFail /\ Drop(s)
  /\ stream' = IF stream = "raised" THEN stream ELSE "failing"

\* ... then the processor that reaps it, and main, which cancels the feeder and puts the
\* end signal.
ProcessorRaises ==
  /\ stream = "failing" /\ stream' = "raised" /\ feeding' = FALSE
  /\ UNCHANGED <<crashes, rollouter_steps, position, lastPosition, handed, outstanding, dropped,
                 earlier, pc, batch, trainVars, diskVars>>
-----------------------------------------------------------------------------
\* _get_samples_from_queue takes a sample ...
Take(s) ==
  /\ pc = "collect" /\ Cardinality(batch) < RequiredSamples /\ s \in outstanding
  /\ outstanding' = outstanding \ {s} /\ batch' = batch \cup {s}
  /\ UNCHANGED <<crashes, feedVars, handed, stream, dropped, earlier, pc, trainVars, diskVars>>

\* A bug: the batch that the end signal cuts short is trained on, too.
FullOrLast == Cardinality(batch) = RequiredSamples \/ (~feeding /\ InFlight = batch)
Full == Cardinality(batch) = RequiredSamples

\* ... and fit_step goes on with a full batch: the update, _fit_update_local_step.
TrainStep ==
  /\ pc = "collect" /\ Full
  /\ batch' = {} /\ trained' = trained \cup batch
  /\ IF local_trigger_step < TriggerParameterSyncStep
     THEN local_trigger_step' = local_trigger_step + 1 /\ UNCHANGED current_param_version
     ELSE local_trigger_step' = 1 /\ current_param_version' = current_param_version + 1
  /\ pc' = "checkpoint"
  /\ UNCHANGED <<crashes, rollVars, last_ckpt_version, diskVars>>

\* The end signal before a batch is full: behind every sample, or, after a failure, before
\* those that tasks left running have not put yet, and those never started.
QueueEnds ==
  /\ pc = "collect" /\ Cardinality(batch) < RequiredSamples /\ EndSent
  /\ stream = "open" => outstanding = {}
  /\ handed' = position /\ outstanding' = {} /\ batch' = {} /\ pc' = "lastCheckpoint"
  /\ UNCHANGED <<crashes, feedVars, stream, dropped, earlier, trainVars, diskVars>>

AfterSave == IF pc \in {"checkpoint", "data", "tracker"} THEN "collect" ELSE "done"

\* _fit_save_checkpoint(force): "force" only after the last step.
SaveDue(esi) ==
  /\ current_param_version # last_ckpt_version
  /\ (pc = "lastCheckpoint" /\ current_param_version % SaveFreq = 0) \/ esi

NoSave ==
  /\ pc \in {"checkpoint", "lastCheckpoint"} /\ ~SaveDue(FALSE)
  /\ pc' = AfterSave
  /\ UNCHANGED <<crashes, rollVars, batch, trainVars, diskVars>>

\* _save_checkpoint: the actor and the critic (Checkpoint has the steps of this) ...
SaveWeights ==
  /\ pc \in {"checkpoint", "lastCheckpoint"}
  /\ \E esi \in (IF EsiMayEnd THEN BOOLEAN ELSE {FALSE}) : SaveDue(esi)
  /\ saved' = [saved EXCEPT ![current_param_version].trained = trained]
  /\ pc' = IF pc = "checkpoint" THEN "data" ELSE "lastData"
  /\ UNCHANGED <<crashes, rollVars, batch, trainVars, tracker>>

\* ... the Rollouter's data loader, while the Rollouter goes on ...
SaveDataloader ==
  /\ pc \in {"data", "lastData"}
  /\ saved' = [saved EXCEPT ![current_param_version].position = position]
  /\ pc' = IF pc = "data" THEN "tracker" ELSE "lastTracker"
  /\ UNCHANGED <<crashes, rollVars, batch, trainVars, tracker>>

\* ... and the tracker file, with the version as the global step.
SaveTracker ==
  /\ pc \in {"tracker", "lastTracker"}
  /\ tracker' = current_param_version /\ last_ckpt_version' = current_param_version
  /\ pc' = AfterSave
  /\ UNCHANGED <<crashes, rollVars, batch, trained, local_trigger_step, current_param_version, saved>>
-----------------------------------------------------------------------------
\* A bug: the count goes on from the data loader's position.
StepsOfPosition(v) == (IF v = NoTracker THEN 0 ELSE saved[v].position) + 1
StepsOf(v) == v * Required + 1

\* A bug: only the weights are restored.
PositionLost(v) == 0
PositionOf(v) == IF v = NoTracker THEN 0 ELSE saved[v].position

\* The program ends at any point, or has ended, and is started again: load_checkpoint of
\* the Trainer, then of the Rollouter.
Restart ==
  /\ crashes < MaxCrashes /\ crashes' = crashes + 1
  /\ trained' = IF tracker = NoTracker THEN {} ELSE saved[tracker].trained
  /\ current_param_version' = tracker /\ last_ckpt_version' = tracker
  /\ local_trigger_step' = 1 /\ pc' = "collect"
  /\ rollouter_steps' = StepsOf(tracker)
  /\ position' = PositionOf(tracker) /\ lastPosition' = PassEnd(position')
  /\ feeding' = TRUE /\ handed' = position' /\ outstanding' = {} /\ batch' = {}
  /\ stream' = "open" /\ dropped' = 0 /\ earlier' = earlier + dropped
  /\ UNCHANGED diskVars

Rollout ==
  \/ Feed \/ FeedEnds \/ Start \/ ProcessorRaises
  \/ \E s \in outstanding : Displace(s) \/ GenerationFails(s)
Fit == (\E s \in outstanding : Take(s)) \/ TrainStep \/ QueueEnds

Next ==
  \/ Rollout \/ Fit \/ NoSave \/ SaveWeights \/ SaveDataloader \/ SaveTracker \/ Restart

Spec == Init /\ [][Next]_vars

\* Both actors run on as long as nothing crashes: the pipeline never stands still for ever
\* (PipelineKeepsMoving and Termination of FullyAsync).
FairSpec ==
  /\ Spec /\ WF_vars(Feed \/ FeedEnds) /\ WF_vars(Start) /\ WF_vars(ProcessorRaises)
  /\ WF_vars(Fit)
  /\ WF_vars(NoSave \/ SaveWeights) /\ WF_vars(SaveDataloader) /\ WF_vars(SaveTracker)
-----------------------------------------------------------------------------
\* "lastCheckpoint" and what follows it.
StreamOver == pc \in {"lastCheckpoint", "lastData", "lastTracker", "done"}

\* The type invariant of both actors and the disk.
TypeOK ==
  /\ crashes \in 0 .. MaxCrashes /\ feeding \in BOOLEAN
  /\ pc \in {"collect", "checkpoint", "data", "tracker",
             "lastCheckpoint", "lastData", "lastTracker", "done"}
  /\ rollouter_steps \in Nat \ {0} /\ position <= lastPosition /\ handed \in 0 .. position
  /\ stream \in {"open", "failing", "raised"} /\ dropped \in Nat /\ earlier \in Nat
  /\ outstanding \subseteq 1 .. handed /\ batch \subseteq (1 .. handed) \ outstanding
  /\ trained \subseteq 1 .. position
  /\ local_trigger_step \in 1 .. TriggerParameterSyncStep
  /\ current_param_version \in 0 .. MaxVersion /\ last_ckpt_version <= current_param_version
  /\ tracker \in 0 .. MaxVersion

\* Over any number of crashes and resumptions no prompt of a pass is used for the same
\* weights twice: the data loader is never behind what a checkpoint has been trained on.
NoPromptTwice == InFlight \cap trained = {}

\* "directly saving the state of the dataloader will result in losing these samples"
\* (save_checkpoint of the Rollouter): besides those that a full MessageQueue displaced or
\* whose generation raised, each resumption loses at most what pending_queue, the throttle
\* and a batch can hold, and the end of the stream less than a batch, or, after a failure,
\* what the pipeline holds then.
OnlyInFlightLost ==
  Cardinality((1 .. position) \ (trained \cup InFlight))
    <= crashes * MaxInFlight + earlier + dropped
         + (IF ~StreamOver THEN 0
            ELSE IF stream = "raised" THEN MaxInFlight ELSE RequiredSamples - 1)

\* The parameter version stands for a fixed number of trained samples, whatever has been
\* lost: load_checkpoint computes global_steps of both actors from it.
VersionCountsSamples ==
  Cardinality(trained) = current_param_version * Required + (local_trigger_step - 1) * RequiredSamples

\* However often it crashes, training goes on until the weights have seen as many samples
\* as total_rollout_steps has batches for, less those the last run dropped, or the data
\* loader's passes are over, or a generation has failed: what a crash has lost is fed
\* again only as long as there are prompts.
TotalReached ==
  <>[]( \/ Cardinality(trained) + dropped + RequiredSamples > TotalRolloutSteps
       \/ position = lastPosition
       \/ stream = "raised" )
=============================================================================
