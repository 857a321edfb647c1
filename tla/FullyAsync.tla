----------------------------- MODULE FullyAsync -----------------------------
(***************************************************************************)
(* The fully asynchronous training pipeline: Rollouter, MessageQueue and    *)
(* Trainer under the driver of fully_async_main.py.                         *)
(***************************************************************************)
EXTENDS Rollouter, Trainer

VARIABLES driverPc   \* _run_training_loop: "run" or "done"

vars == <<rolloutVars, trainVars, mqVars, resetPc, server_version, driverPc>>

Init == ChannelInit /\ RolloutInit /\ TrainInit /\ driverPc = "run"

\* Both futures are done; the finally clause clears the queue.
DriverEnds ==
  /\ driverPc = "run"
  /\ FitReturned /\ trainPc = "done"
  /\ MQ!ClearQueue
  /\ driverPc' = "done"
  /\ UNCHANGED <<rolloutVars, trainVars, resetPc, server_version>>

Next ==
  \/ RolloutNext /\ UNCHANGED <<trainVars, server_version, driverPc>>
  \/ TrainNext /\ UNCHANGED <<rolloutVars, driverPc>>
  \/ DriverEnds

Rollout(A) == A /\ UNCHANGED <<trainVars, server_version, driverPc>>
Train(A) == A /\ UNCHANGED <<rolloutVars, driverPc>>

\* An event loop runs every coroutine that can go on, a generation and a remote
\* call end, and a thread of control is not suspended for ever.  The lock is handed
\* over in FIFO order, so that a coroutine in line stays enabled once it is next.
Fairness ==
  /\ WF_vars(Rollout(Feeder))
  /\ WF_vars(Rollout(Processor))
  /\ \A s \in Samples : WF_vars(Rollout(TaskStep(s)))
  /\ WF_vars(Rollout(ResetStaleness))
  /\ WF_vars(Rollout(Monitor))
  /\ WF_vars(Rollout(Main))
  /\ WF_vars(Train(TrainNext))
  /\ WF_vars(DriverEnds)

Spec == Init /\ [][Next]_vars
FairSpec == Spec /\ Fairness

\* Types of the whole pipeline: Rollouter, Trainer, queue actor and driver.
TypeOK ==
  /\ RolloutTypeOK /\ TrainTypeOK
  /\ queue \in Seq(Items)
  /\ total_produced \in Nat /\ total_consumed \in Nat /\ dropped_samples \in Nat
  /\ getter \in [{"trainer"} -> MQ!GetterState]
  /\ resetPc \in ResetPc
  /\ server_version \in Nat
  /\ driverPc \in {"run", "done"}

-----------------------------------------------------------------------------
\* Where a sample can be between being fed and being trained on.
InHand == {held} \ {EndSignal}
Unput == {s \in Samples : task[s] \in {"generating", "putting"}}
Queued == SamplesIn(queue)
InBatch == {batch[i] : i \in DOMAIN batch}
Failed == {s \in Samples : task[s] = "failed"}
Started == {s \in Samples : task[s] # "none"}
Places == <<SamplesIn(pending), InHand, Unput, Queued, InBatch, trained, Failed>>

Outstanding == Cardinality(InHand \cup Unput \cup Queued)

\* No sample is handed on twice: at any time it is in at most one of
\* pending_queue, the processor's hand, a running task, the MessageQueue, the
\* trainer's batch and the trained samples, and at most once in a queue.
NoSampleTwice ==
  /\ \A q \in {pending, queue, batch} :
        \A i, j \in DOMAIN q : q[i] = q[j] => i = j
  /\ \A i, j \in DOMAIN Places : i # j => Places[i] \cap Places[j] = {}

\* No sample disappears silently: while the trainer runs, a sample handed to a task
\* that is in none of these places is one put_sample counted in dropped_samples.
LossesCounted ==
  trainPc \in {"collect", "step", "sync", "reset", "save"} =>
     Cardinality(Started \ UNION {Places[i] : i \in DOMAIN Places}) = dropped_samples

\* The throttle: staleness_samples misses at most one of the samples that are in
\* flight or queued, the one the processor holds while reset_staleness recounts,
\* and so at most one sample too many is ever on its way to the trainer.
StalenessCounted == Outstanding <= staleness_samples + 1
OverrunByOne == Outstanding <= MaxRequiredSamples + 1

\* A processor that sleeps has no task left running and holds no sample, so that
\* a weight sync never waits for a paused rollouter.
DrainedWhenPaused ==
  procPc \in {"idle", "asleep"} => active = {} /\ Unput = {} /\ InHand = {}

\* Unless generation failed, the end signal is the last thing the trainer gets:
\* nothing is queued behind it, being generated or still to be generated.
EndSignalLast ==
  \A i \in DOMAIN queue :
     queue[i] = EndSignal /\ mainPc # "raised" =>
        i = Len(queue) /\ Unput = {} /\ SamplesIn(pending) = {} /\ InHand = {}

\* Once sent, the end signal reaches the trainer: samples that tasks left behind
\* by a failure put after it never push it out of the queue.
EndSignalSurvives ==
  mainPc \in {"stop", "done", "raised"} =>
     trainPc \in {"stop", "lastSync", "lastReset", "lastSave", "done"}
       \/ \E i \in DOMAIN queue : queue[i] = EndSignal

\* Freshness in the queue: a sample is trained on at most this many parameter
\* versions after the one that was served when it was queued.
MaxQueueWait ==
  1 + (MaxRequiredSamples - 1) \div (RequiredSamples * TriggerParameterSyncStep)
QueueWaitBounded ==
  \A s \in InBatch : current_param_version - queuedAt[s] <= MaxQueueWait

\* _fit_save_checkpoint's comment (lines 609-615): with save_freq positive, a
\* version that is a multiple of it is saved before the next step begins.
SavedWhenDue ==
  trainPc = "collect" /\ SaveFreq > 0 /\ current_param_version > 0
     /\ current_param_version % SaveFreq = 0
   => last_ckpt_version = current_param_version

\* The trainer's fit() returns, and unless some generation failed the rollouter's does,
\* too, and the driver leaves its loop.
Termination == <>(trainPc = "done" /\ (driverPc = "done" \/ Failed # {}))

\* A paused processor is woken again, by reset_staleness or by the monitor.
PausedWakes == procPc = "asleep" ~> procPc # "asleep"

\* The abstract flow of samples.
Flow == INSTANCE SampleFlow
          WITH Budget <- MaxRequiredSamples + 1, BatchSize <- RequiredSamples,
               StepsPerVersion <- TriggerParameterSyncStep,
               started <- Started \cup InHand,
               outstanding <- InHand \cup Unput \cup Queued,
               batch <- InBatch, version <- current_param_version
ImplementsFlow == Flow!Spec
=============================================================================
