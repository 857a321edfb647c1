------------------------------ MODULE SdpoActor ------------------------------
(***************************************************************************)
(* DataParallelPPOActor.update_policy with the SDPO loss (dp_actor.py) on  *)
(* a worker that holds the student, the teacher it is distilled from and   *)
(* the gradient scaler (fsdp_workers.py).  A rank is modelled: the norm of *)
(* the gradient is a collective result, so the ranks take the same steps.  *)
(* Weights are names: the student is the number of optimizer steps applied *)
(* to it, and a teacher the sequence of students that were mixed into the  *)
(* reference model it started as.                                          *)
(***************************************************************************)
EXTENDS Naturals, Sequences

CONSTANTS
    Settings,       \* teacher_regularization, teacher_update_rate (0, or 1 for any
                    \* positive rate), and whether the parameters are float16 (a
                    \* gradient scaler is used)
    NumMini,        \* mini-batches a rank's rows are split into
    PpoEpochs,      \* ppo_epochs
    MaxUpdates,     \* bound: updates of a training, in one process or several
    MaxRestarts     \* bound: crashes of the training job

ASSUME ActorAssumption ==
    /\ Settings \subseteq
        [regularization : {"ema", "trust-region"}, rate : 0 .. 1, float16 : BOOLEAN]
    /\ NumMini \in Nat \ {0} /\ PpoEpochs \in Nat \ {0}
    /\ MaxUpdates \in Nat /\ MaxRestarts \in Nat

VARIABLES
    setting,    \* the configuration of the training
    student,    \* optimizer steps applied to the actor module
    teacher,    \* the students mixed into the reference module
    phase,      \* "idle", "training" or "raised"
    mini,       \* mini-batches of this update that are done
    didUpdate,  \* did_update
    scaler,     \* stage of the gradient scaler: "ready" or "unscaled"
    updates,    \* global steps done
    saved,      \* the checkpoint the tracker names
    restarts,
    targets,    \* the teacher each mini-batch of this update was scored by
    mixed,      \* the students at the end of the updates that changed them, ...
    began       \* ... and the length of that history when the process began

actorVars == <<setting, student, teacher, phase, mini, didUpdate, scaler, updates, saved,
               restarts, targets, mixed, began>>

(***************************************************************************)
(* The teacher                                                             *)
(***************************************************************************)

\* What the teacher's forward pass is computed with: the reference module, or
\* its logits moved towards the student's (TrustRegionTeacher.forward).
Model(reference, policy) == [reference |-> reference, policy |-> policy]
NoPolicy == 0

Lerp(reference, policy, coef) ==
    Model(reference, IF coef = 0 THEN NoPolicy ELSE policy + 1)

TeacherModel ==
    IF setting.regularization = "trust-region"
    THEN Lerp(teacher, student, setting.rate)
    ELSE Model(teacher, NoPolicy)

\* A bug: did_update does not matter.
UpdateAlways(changed) ==
    IF setting.regularization = "ema" /\ setting.rate > 0
    THEN teacher' = Append(teacher, student) ELSE UNCHANGED teacher

\* _update_teacher, called when some optimizer step was applied
UpdateTeacher(changed) ==
    IF changed /\ setting.regularization = "ema" /\ setting.rate > 0
    THEN teacher' = Append(teacher, student) ELSE UNCHANGED teacher

(***************************************************************************)
(* _optimizer_step                                                         *)
(***************************************************************************)

\* GradScaler.unscale_ refuses a second call before update (PyTorch).
Unscales == setting.float16 => scaler = "ready"

\* The norm is finite: the step is applied and the scaler updated.
Applied ==
    /\ student' = student + 1
    /\ didUpdate' = TRUE
    /\ UNCHANGED scaler

\* The norm is not finite: the gradients are dropped; the scaler is left as
\* unscale_ left it.
Skipped ==
    /\ scaler' = IF setting.float16 THEN "unscaled" ELSE scaler
    /\ UNCHANGED <<student, didUpdate>>

(***************************************************************************)
(* update_policy                                                           *)
(***************************************************************************)

Total == NumMini * PpoEpochs

ActorInit ==
    /\ setting \in Settings
    /\ student = 0 /\ teacher = <<>>
    /\ phase = "idle" /\ mini = 0 /\ didUpdate = FALSE /\ scaler = "ready"
    /\ updates = 0 /\ restarts = 0
    /\ saved = [student |-> 0, updates |-> 0, mixed |-> <<>>]
    /\ targets = <<>> /\ mixed = <<>> /\ began = 0

UpdatePolicy ==
    /\ phase = "idle" /\ updates < MaxUpdates
    /\ phase' = "training" /\ mini' = 0 /\ didUpdate' = FALSE /\ targets' = <<>>
    /\ UNCHANGED <<setting, student, teacher, scaler, updates, saved, restarts, mixed, began>>

\* A bug: the teacher follows every optimizer step.
MiniBatchMixing ==
    /\ phase = "training" /\ mini < Total /\ Unscales
    /\ targets' = Append(targets, TeacherModel)
    /\ Applied \/ Skipped
    /\ UpdateTeacher(student' # student)
    /\ mini' = mini + 1
    /\ UNCHANGED <<setting, phase, updates, saved, restarts, mixed, began>>

\* Both forward passes, the backward pass and the optimizer step.
MiniBatch ==
    /\ phase = "training" /\ mini < Total /\ Unscales
    /\ targets' = Append(targets, TeacherModel)
    /\ Applied \/ Skipped
    /\ mini' = mini + 1
    /\ UNCHANGED <<setting, teacher, phase, updates, saved, restarts, mixed, began>>

\* unscale_ raises; update_policy does not catch it and the step is lost.
UnscaleRaises ==
    /\ phase = "training" /\ mini < Total /\ ~Unscales
    /\ phase' = "raised"
    /\ UNCHANGED <<setting, student, teacher, mini, didUpdate, scaler, updates, saved,
                   restarts, targets, mixed, began>>

\* After the last mini-batch of the last epoch.
UpdateReturns ==
    /\ phase = "training" /\ mini = Total
    /\ UpdateTeacher(didUpdate)
    /\ mixed' = IF didUpdate THEN Append(mixed, student) ELSE mixed
    /\ phase' = "idle" /\ updates' = updates + 1
    /\ UNCHANGED <<setting, student, mini, didUpdate, scaler, saved, restarts, targets, began>>

\* save_checkpoint of the worker: the actor's module, not the teacher's.
SaveCheckpoint ==
    /\ phase = "idle" /\ updates > saved.updates
    /\ saved' = [student |-> student, updates |-> updates, mixed |-> mixed]
    /\ UNCHANGED <<setting, student, teacher, phase, mini, didUpdate, scaler, updates,
                   restarts, targets, mixed, began>>

\* The job dies at any point; the next one builds the reference module from
\* the model path (init_model) and loads the actor's module (load_checkpoint).
Restart ==
    /\ restarts < MaxRestarts
    /\ restarts' = restarts + 1
    /\ student' = saved.student /\ updates' = saved.updates
    /\ mixed' = saved.mixed /\ began' = Len(saved.mixed)
    /\ teacher' = <<>>
    /\ phase' = "idle" /\ mini' = 0 /\ didUpdate' = FALSE /\ scaler' = "ready"
    /\ targets' = <<>>
    /\ UNCHANGED <<setting, saved>>

ActorNext ==
    \/ UpdatePolicy \/ MiniBatch \/ UnscaleRaises \/ UpdateReturns
    \/ SaveCheckpoint \/ Restart

ActorSpec == ActorInit /\ [][ActorNext]_actorVars

(***************************************************************************)
(* Properties                                                              *)
(***************************************************************************)

\* Types, and: the steps counted in the student never fall behind those of
\* the checkpoint it was loaded from.
ActorTypeOK ==
    /\ setting \in Settings
    /\ phase \in {"idle", "training", "raised"}
    /\ student \in saved.student .. Total * MaxUpdates
    /\ mini \in 0 .. Total /\ didUpdate \in BOOLEAN /\ scaler \in {"ready", "unscaled"}
    /\ updates \in saved.updates .. MaxUpdates /\ restarts \in 0 .. MaxRestarts
    /\ began \in 0 .. Len(mixed)
    /\ phase = "training" => Len(targets) = mini

\* With the EMA teacher, all mini-batches of an update, in every epoch, are
\* distilled from one and the same teacher: update_policy mixes the student in
\* only after the last of them.
OneTeacherPerUpdate ==
    setting.regularization = "ema" =>
        \A i, j \in DOMAIN targets : targets[i] = targets[j]

\* The teacher has absorbed the student once for every update of this process
\* that changed the student, in order, and nothing else; an update whose
\* gradients were all dropped leaves both as they were.
TeacherFollowsStudent ==
    setting.regularization = "ema" /\ setting.rate > 0 =>
        teacher = SubSeq(mixed, began + 1, Len(mixed))

\* "teacher_update_rate: 0.0 freezes it at the initial policy" (README.md),
\* whatever the regularization, and over restarts: every target ever given to
\* the student was scored by the reference model.
RateZeroFreezes ==
    setting.rate = 0 => \A i \in DOMAIN targets : targets[i] = Model(<<>>, NoPolicy)

=============================================================================
