----------------------------- MODULE Checkpoint -----------------------------
(***************************************************************************)
(* Checkpoints of the synchronous trainer: RayPPOTrainer._save_checkpoint, *)
(* _load_checkpoint and the loop of fit around them                        *)
(* (trainer/ppo/ray_trainer.py), FSDPCheckpointManager.save_checkpoint of  *)
(* every rank (utils/checkpoint/fsdp_checkpoint_manager.py) and the        *)
(* rotation of BaseCheckpointManager (checkpoint_manager.py), over a disk  *)
(* that survives crashes.  resume_mode is "auto".                          *)
(***************************************************************************)
EXTENDS Naturals, Sequences, FiniteSets

CONSTANTS
  Ranks,
  Managers,     \* the worker groups that save, in order: <<"actor">> or <<"actor", "critic">>
  TotalSteps,   \* total_training_steps
  NumBatches,   \* batches the data loader yields in all epochs
  SaveFreq,
  MaxKeep,      \* max_actor_ckpt_to_keep, max_critic_ckpt_to_keep; 0: None
  EsiMayEnd,    \* the instance may be close to its expiration at any step
  MaxCrashes    \* bound of the model

ASSUME CheckpointAssumption ==
  /\ IsFiniteSet(Ranks) /\ Ranks # {}
  /\ Managers \in Seq(STRING) /\ Managers # <<>>
  /\ \A i, j \in DOMAIN Managers : Managers[i] = Managers[j] => i = j
  /\ TotalSteps \in Nat \ {0} /\ NumBatches \in Nat /\ TotalSteps <= NumBatches
  /\ SaveFreq \in Nat \ {0} /\ MaxKeep \in Nat
  /\ EsiMayEnd \in BOOLEAN /\ MaxCrashes \in Nat

Steps == 1 .. NumBatches
Groups == {Managers[i] : i \in DOMAIN Managers}
Absent == [run |-> 0, batches |-> 0]
NoTracker == 0
Torn == NumBatches + 1   \* the tracker file is empty: opened for writing, not written

VARIABLES
  pc,            \* the driver
  saving,        \* the manager that saves, as an index of Managers
  global_steps,
  batches,       \* batches the weights have been trained on
  position,      \* batches the data loader has yielded
  attempt,       \* runs of the program so far
  previous_saved_paths,   \* of each manager, as steps
  shards,        \* disk: a rank's files in a step's folder: the run that wrote them, its weights
  data,          \* disk: the position in data.pt, or NoData
  tracker        \* disk: latest_checkpointed_iteration.txt

runVars == <<pc, saving, global_steps, batches, position, attempt, previous_saved_paths>>
diskVars == <<shards, data, tracker>>
vars == <<runVars, diskVars>>

NoData == NumBatches + 1
Pc == {"start", "train", "capacity", "write", "data", "truncate", "tracker", "next", "done", "failed"}

Init ==
  /\ pc = "start" /\ saving = 1 /\ global_steps = 0 /\ batches = 0 /\ position = 0 /\ attempt = 0
  /\ previous_saved_paths = [m \in Groups |-> <<>>]
  /\ shards = [m \in Groups |-> [s \in Steps |-> [k \in Ranks |-> Absent]]]
  /\ data = [s \in Steps |-> NoData]
  /\ tracker = NoTracker
-----------------------------------------------------------------------------
Complete(s) == \A m \in Groups : \A k \in Ranks : shards[m][s][k] # Absent
WeightsOf(s) == shards[Managers[1]][s][CHOOSE k \in Ranks : TRUE].batches

Begins ==
  /\ pc = "start" /\ attempt' = attempt + 1
  /\ previous_saved_paths' = [m \in Groups |-> <<>>]
  /\ UNCHANGED <<saving, diskVars>>

\* find_latest_ckpt_path: there is no tracker file.
FromScratch ==
  /\ Begins /\ tracker = NoTracker
  /\ pc' = "train" /\ global_steps' = 1 /\ batches' = 0 /\ position' = 0

\* A bug: the data loader is not restored.
ResumeModelOnly ==
  /\ Begins /\ tracker \in Steps /\ Complete(tracker)
  /\ pc' = "train" /\ global_steps' = tracker + 1 /\ batches' = WeightsOf(tracker)
  /\ position' = 0

\* _load_checkpoint; without a data.pt the data loader starts from scratch.
Resume ==
  /\ Begins /\ tracker \in Steps /\ Complete(tracker)
  /\ pc' = "train" /\ global_steps' = tracker + 1 /\ batches' = WeightsOf(tracker)
  /\ position' = IF data[tracker] = NoData THEN 0 ELSE data[tracker]

\* int() of an empty tracker, or torch.load of a missing shard, raises.
ResumeFails ==
  /\ Begins /\ tracker # NoTracker /\ (tracker \in Steps => ~Complete(tracker))
  /\ pc' = "failed" /\ UNCHANGED <<global_steps, batches, position>>
-----------------------------------------------------------------------------
IsLastStep == global_steps >= TotalSteps

SaveDue == IsLastStep \/ global_steps % SaveFreq = 0

TrainStep ==
  /\ pc = "train" /\ position < NumBatches
  /\ position' = position + 1 /\ batches' = batches + 1
  /\ \/ pc' = "capacity"
     \/ pc' = "next" /\ ~SaveDue
  /\ ~SaveDue /\ ~EsiMayEnd => pc' = "next"
  /\ saving' = 1
  /\ UNCHANGED <<global_steps, attempt, previous_saved_paths, diskVars>>

\* The data loader is exhausted.
OutOfData ==
  /\ pc = "train" /\ position = NumBatches /\ pc' = "done"
  /\ UNCHANGED <<saving, global_steps, batches, position, attempt, previous_saved_paths, diskVars>>

NextStep ==
  /\ pc = "next" /\ global_steps' = global_steps + 1
  /\ pc' = IF IsLastStep THEN "done" ELSE "train"
  /\ UNCHANGED <<saving, batches, position, attempt, previous_saved_paths, diskVars>>
-----------------------------------------------------------------------------
Group == Managers[saving]
Saved == previous_saved_paths[Group]

\* remove_previous_save_local_path: the manager's folders of the first n steps go.
\* A bug: they are forgotten, but not removed.
ForgetOldest(n) ==
  shards' = shards
RemoveOldest(n) ==
  shards' = [shards EXCEPT ![Group] =
               [s \in Steps |-> IF \E i \in 1 .. n : Saved[i] = s
                                THEN [k \in Ranks |-> Absent] ELSE @[s]]]

\* A bug: one checkpoint too many is removed.
SpareOne == IF MaxKeep > 1 /\ Len(Saved) >= MaxKeep - 1 THEN Len(Saved) - MaxKeep + 2 ELSE 0
SpareCapacity == IF MaxKeep > 1 /\ Len(Saved) >= MaxKeep THEN Len(Saved) - MaxKeep + 1 ELSE 0

\* ensure_checkpoint_capacity on rank 0, then the barrier.
EnsureCapacity ==
  /\ pc = "capacity" /\ pc' = "write"
  /\ RemoveOldest(SpareCapacity)
  /\ previous_saved_paths' = [previous_saved_paths EXCEPT ![Group] = SubSeq(@, SpareCapacity + 1, Len(@))]
  /\ UNCHANGED <<saving, global_steps, batches, position, attempt, data, tracker>>

\* A rank writes its files of this step.
WriteShard(k) ==
  /\ pc = "write" /\ shards[Group][global_steps][k].run # attempt
  /\ shards' = [shards EXCEPT ![Group][global_steps][k] = [run |-> attempt, batches |-> batches]]
  /\ UNCHANGED <<runVars, data, tracker>>

\* The barrier at the end, and register_checkpoint on rank 0.
RegisterCheckpoint ==
  LET n == IF MaxKeep > 0 /\ Len(Saved) + 1 > MaxKeep THEN Len(Saved) + 1 - MaxKeep ELSE 0
  IN /\ pc = "write" /\ \A k \in Ranks : shards[Group][global_steps][k].run = attempt
     /\ RemoveOldest(n)
     /\ previous_saved_paths' =
          [previous_saved_paths EXCEPT ![Group] = SubSeq(Append(@, global_steps), n + 1, Len(@) + 1)]
     /\ IF saving < Len(Managers) THEN pc' = "capacity" /\ saving' = saving + 1
                                  ELSE pc' = "data" /\ saving' = saving
     /\ UNCHANGED <<global_steps, batches, position, attempt, data, tracker>>

SaveData ==
  /\ pc = "data" /\ pc' = "truncate"
  /\ data' = [data EXCEPT ![global_steps] = position]
  /\ UNCHANGED <<saving, global_steps, batches, position, attempt, previous_saved_paths, shards, tracker>>

\* open(..., "w")
TruncateTracker ==
  /\ pc = "truncate" /\ pc' = "tracker" /\ tracker' = Torn
  /\ UNCHANGED <<saving, global_steps, batches, position, attempt, previous_saved_paths, shards, data>>

WriteTracker ==
  /\ pc = "tracker" /\ pc' = "next" /\ tracker' = global_steps
  /\ UNCHANGED <<saving, global_steps, batches, position, attempt, previous_saved_paths, shards, data>>

\* The program ends at any point, or has ended, and is started again.
Restart ==
  /\ pc \notin {"start", "failed"} /\ attempt <= MaxCrashes
  /\ pc' = "start" /\ saving' = 1 /\ global_steps' = 0 /\ batches' = 0 /\ position' = 0
  /\ previous_saved_paths' = [g \in Groups |-> <<>>]
  /\ UNCHANGED <<attempt, diskVars>>

Next ==
  \/ FromScratch \/ Resume \/ ResumeFails \/ TrainStep \/ OutOfData \/ NextStep
  \/ EnsureCapacity \/ (\E k \in Ranks : WriteShard(k)) \/ RegisterCheckpoint
  \/ SaveData \/ TruncateTracker \/ WriteTracker \/ Restart

Spec == Init /\ [][Next]_vars
-----------------------------------------------------------------------------
\* The type invariant of the run and of the disk.
TypeOK ==
  /\ pc \in Pc /\ saving \in DOMAIN Managers
  /\ global_steps \in Nat /\ batches \in 0 .. NumBatches /\ position \in 0 .. NumBatches
  /\ attempt \in Nat
  /\ previous_saved_paths \in [Groups -> Seq(Steps)]
  /\ shards \in [Groups -> [Steps -> [Ranks -> [run : Nat, batches : 0 .. NumBatches]]]]
  /\ data \in [Steps -> 0 .. NumBatches + 1] /\ tracker \in 0 .. NumBatches + 1

\* Whenever the program may crash, the checkpoint that the tracker names is complete:
\* every rank's files of every worker group are there, all written by the same run and
\* trained on as many batches as the folder's step says, with the data loader's position
\* of that step ("for atomic usage", _save_checkpoint).
TrackedComplete ==
  tracker \in Steps =>
    /\ \E a \in 1 .. attempt : \A g \in Groups : \A k \in Ranks :
         shards[g][tracker][k] = [run |-> a, batches |-> tracker]
    /\ data[tracker] = tracker

\* The data loader and the weights stay in step over any number of crashes: the weights
\* have seen each batch up to the loader's position once.
DataMatchesWeights == pc \notin {"start", "failed"} => position = batches

\* Between saves no run has more than max_ckpt_to_keep checkpoints of its own on disk
\* ("keeping at most max_ckpt_to_keep", fsdp_checkpoint_manager.py).
OnDisk(g) == {s \in Steps : \E k \in Ranks : shards[g][s][k].run = attempt}
KeptPerRun ==
  pc = "train" /\ MaxKeep > 0 => \A g \in Groups : Cardinality(OnDisk(g)) <= MaxKeep
=============================================================================
