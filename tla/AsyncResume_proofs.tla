-------------------------- MODULE AsyncResume_proofs --------------------------
(***************************************************************************)
(* The theorems about checkpoint and resumption of the asynchronous        *)
(* pipeline, for every size of batches, data set and pipeline, every       *)
(* schedule of checkpoints and any number of crashes.                      *)
(***************************************************************************)
EXTENDS AsyncResume, FiniteSetTheorems, TLAPS

Pc == {"collect", "checkpoint", "data", "tracker",
       "lastCheckpoint", "lastData", "lastTracker", "done"}
Ending == {"lastCheckpoint", "lastData", "lastTracker", "done"}   \* the stream has ended
Saving == {"data", "tracker", "lastData", "lastTracker"}          \* the weights are saved, ...
Written == {"tracker", "lastTracker"}                             \* ... and the position
Folder == [trained : SUBSET Nat, position : Nat]
Drops == \E s \in outstanding : Displace(s) \/ GenerationFails(s)
Takes == \E s \in outstanding : Take(s)

(***************************************************************************)
(* The inductive invariants                                                *)
(***************************************************************************)

TypeInv ==
  /\ crashes \in 0 .. MaxCrashes /\ feeding \in BOOLEAN /\ pc \in Pc
  /\ rollouter_steps \in Nat \ {0} /\ position \in Nat /\ lastPosition \in Nat
  /\ handed \in 0 .. position /\ outstanding \subseteq 1 .. handed
  /\ batch \subseteq (1 .. handed) \ outstanding /\ trained \subseteq 1 .. position
  /\ stream \in {"open", "failing", "raised"} /\ dropped \in Nat /\ earlier \in Nat
  /\ local_trigger_step \in 1 .. TriggerParameterSyncStep
  /\ current_param_version \in Nat /\ last_ckpt_version \in Nat /\ tracker \in Nat
  /\ saved \in [1 .. MaxVersion -> Folder]

\* The samples that the version, the local steps and the prompts in flight stand for.
StepsTaken ==
  current_param_version * Required + (local_trigger_step - 1) * RequiredSamples
    + Cardinality(InFlight)

\* No version is published for which no prompts have been counted, so that versions stay
\* within their bound; what is being saved is never what the tracker names.
BoundInv ==
  /\ tracker = last_ckpt_version /\ tracker <= current_param_version
  /\ pc \in Saving => current_param_version # tracker
  /\ rollouter_steps <= (TotalRolloutSteps + crashes) * Required
  /\ StepsTaken <= IF feeding THEN rollouter_steps - 1 ELSE rollouter_steps

\* The saved position is not behind what the saved weights have been trained on.
Covers(c) == c.trained \subseteq 1 .. c.position
SavedInv ==
  /\ tracker # NoTracker => Covers(saved[tracker])
  /\ pc \in Saving => saved[current_param_version].trained = trained
  /\ pc \in Written => Covers(saved[current_param_version])

\* What each part of the pipeline can hold; a failure cancels the feeder, the Trainer collects only between steps, and
\* nothing is left once the stream has ended.
PipeInv ==
  /\ Cardinality(Pending) <= PendingCap + 1
  /\ Cardinality(outstanding) <= MaxRequiredSamples + 1
  /\ Cardinality(batch) <= RequiredSamples
  /\ stream = "raised" => ~feeding
  /\ pc # "collect" => batch = {}
  /\ pc \in Ending => ~feeding /\ InFlight = {}

\* What is lost now, and what would be lost by resuming from a folder.
Lost == (1 .. position) \ (trained \cup InFlight)
Missing(c) == (1 .. c.position) \ c.trained
Allowed == crashes * MaxInFlight + earlier + dropped
EndLoss == IF pc \notin Ending THEN 0
           ELSE IF stream = "raised" THEN MaxInFlight ELSE RequiredSamples - 1
LossInv ==
  /\ Cardinality(Lost) <= Allowed + EndLoss
  /\ tracker # NoTracker => Cardinality(Missing(saved[tracker])) <= Allowed + MaxInFlight
  /\ pc \in Written => Cardinality(Missing(saved[current_param_version])) <= Allowed + MaxInFlight

\* The folder of the tracker has the samples of its version.
CountInv ==
  /\ VersionCountsSamples
  /\ tracker # NoTracker => Cardinality(saved[tracker].trained) = tracker * Required

-----------------------------------------------------------------------------
\* Numbers and sets.

\* A product may be divided by a positive factor.
LEMMA Cancel ==
  ASSUME NEW a \in Nat, NEW b \in Nat, NEW c \in Nat \ {0}, a * c <= b * c
  PROVE  a <= b
<1> SUFFICES ASSUME a > b PROVE FALSE
  OBVIOUS
<1>1. (a - b - 1) * c \in Nat
  OBVIOUS
<1>2. (a - b - 1) * c = a * c - b * c - c
  OBVIOUS
<1> QED
  BY <1>1, <1>2

\* One factor more is one product more.
LEMMA Successor ==
  ASSUME NEW a \in Nat, NEW c \in Nat
  PROVE  a * c \in Nat /\ (a + 1) * c = a * c + c
OBVIOUS

\* The samples of a version are a positive number; the pipeline holds more than a batch.
LEMMA RequiredType ==
  /\ Required \in Nat \ {0} /\ Required >= RequiredSamples
  /\ RequiredSamples \in Nat \ {0} /\ TriggerParameterSyncStep \in Nat \ {0}
  /\ PendingCap \in Nat \ {0} /\ MaxRequiredSamples \in Nat \ {0}
  /\ MaxInFlight \in Nat \ {0} /\ TotalRolloutSteps \in Nat \ {0}
  /\ MaxInFlight = PendingCap + MaxRequiredSamples + 1 + RequiredSamples
  /\ MaxCrashes \in Nat
<1>1. /\ RequiredSamples \in Nat \ {0} /\ TriggerParameterSyncStep \in Nat \ {0}
      /\ PendingCap \in Nat \ {0} /\ MaxRequiredSamples \in Nat \ {0}
      /\ TotalRolloutSteps \in Nat \ {0} /\ MaxCrashes \in Nat
  BY ResumeAssumption
<1>2. /\ RequiredSamples * (TriggerParameterSyncStep - 1) \in Nat
      /\ Required = RequiredSamples * (TriggerParameterSyncStep - 1) + RequiredSamples
  BY <1>1 DEF Required
<1> QED
  BY <1>1, <1>2 DEF MaxInFlight

\* The steps of a version make its samples.
LEMMA LastStep ==
  (TriggerParameterSyncStep - 1) * RequiredSamples + RequiredSamples = Required
BY RequiredType DEF Required

\* Sets of positions are finite.
LEMMA Positions ==
  ASSUME NEW n \in Nat, NEW S \in SUBSET (1 .. n)
  PROVE  IsFiniteSet(S) /\ Cardinality(S) \in Nat
<1>1. IsFiniteSet(1 .. n)
  BY FS_Interval
<1>2. IsFiniteSet(S)
  BY <1>1, FS_Subset
<1> QED
  BY <1>2, FS_CardinalityType

\* Taking a part out of a set of positions takes its size away.
LEMMA Without ==
  ASSUME NEW n \in Nat, NEW S \in SUBSET (1 .. n), NEW B \in SUBSET S
  PROVE  Cardinality(S \ B) = Cardinality(S) - Cardinality(B)
<1>1. IsFiniteSet(S)
  BY Positions
<1>2. S \cap B = B
  OBVIOUS
<1> QED
  BY <1>1, <1>2, FS_Difference

\* The positions of two parts that do not meet add up.
LEMMA Together ==
  ASSUME NEW n \in Nat, NEW S \in SUBSET (1 .. n), NEW B \in SUBSET (1 .. n), S \cap B = {}
  PROVE  Cardinality(S \cup B) = Cardinality(S) + Cardinality(B)
<1>1. IsFiniteSet(S) /\ IsFiniteSet(B)
  BY Positions
<1>2. Cardinality(S \cup B) = Cardinality(S) + Cardinality(B) - Cardinality(S \cap B)
  BY <1>1, FS_Union
<1>3. Cardinality(S \cap B) = 0
  BY FS_EmptySet
<1>4. Cardinality(S) \in Nat /\ Cardinality(B) \in Nat
  BY <1>1, FS_CardinalityType
<1> QED
  BY <1>2, <1>3, <1>4

\* A set of positions is no larger than one it is part of.
LEMMA NoLarger ==
  ASSUME NEW n \in Nat, NEW S \in SUBSET (1 .. n), NEW B \in SUBSET S
  PROVE  Cardinality(B) <= Cardinality(S)
BY Positions, FS_Subset

-----------------------------------------------------------------------------
\* The pipeline.

\* What is in flight has been fed, and its parts do not meet.
LEMMA Fed ==
  ASSUME TypeInv
  PROVE  /\ position \in Nat /\ handed \in Nat /\ InFlight \in SUBSET (1 .. position)
         /\ Pending \in SUBSET (1 .. position) /\ outstanding \in SUBSET (1 .. position)
         /\ batch \in SUBSET (1 .. position) /\ batch \in SUBSET InFlight
         /\ outstanding \in SUBSET InFlight /\ Pending \cap outstanding = {}
         /\ (Pending \cup outstanding) \cap batch = {}
<1>1. position \in Nat /\ handed \in Nat /\ handed <= position
  BY DEF TypeInv
<1>2. Pending \in SUBSET (1 .. position) /\ Pending \cap (1 .. handed) = {}
  BY <1>1 DEF Pending
<1>3. /\ outstanding \subseteq 1 .. handed /\ batch \subseteq 1 .. handed
      /\ outstanding \cap batch = {} /\ 1 .. handed \subseteq 1 .. position
  BY <1>1 DEF TypeInv
<1> QED
  BY <1>1, <1>2, <1>3 DEF InFlight

\* A prompt that is fed is in flight.
LEMMA FeedInFlight ==
  ASSUME TypeInv, Feed
  PROVE  InFlight' = InFlight \cup {position + 1}
<1>1. position \in Nat /\ handed \in Nat /\ handed <= position
  BY DEF TypeInv
<1>2. Pending' = Pending \cup {position + 1}
  BY <1>1 DEF Feed, Pending
<1>3. UNCHANGED <<outstanding, batch>>
  BY DEF Feed
<1> QED
  BY <1>2, <1>3 DEF InFlight

\* The processor and the Trainer move prompts within the pipeline.
LEMMA MovesInFlight ==
  ASSUME TypeInv, Start \/ Takes
  PROVE  InFlight' = InFlight
<1> USE DEF InFlight
<1>1. CASE Start
  <2>1. handed \in Nat /\ position \in Nat /\ handed < position
    BY <1>1 DEF TypeInv, Start
  <2>2. Pending' \cup {handed + 1} = Pending
    BY <1>1, <2>1 DEF Start, Pending, feedVars
  <2> QED
    BY <1>1, <2>2 DEF Start
<1>2. CASE Takes
  BY <1>2 DEF Takes, Take, Pending, feedVars
<1> QED
  BY <1>1, <1>2

\* A displaced prompt and a failed one are in flight no longer.
LEMMA DropsInFlight ==
  ASSUME TypeInv, NEW s \in outstanding, Drop(s)
  PROVE  InFlight' = InFlight \ {s}
<1>1. s \notin batch /\ s \notin Pending
  BY Fed
<1>2. UNCHANGED <<Pending, batch>> /\ outstanding' = outstanding \ {s}
  BY DEF Drop, Pending, feedVars
<1> QED
  BY <1>1, <1>2 DEF InFlight

\* A training step takes its batch out of the pipeline.
LEMMA StepInFlight ==
  ASSUME TypeInv, TrainStep
  PROVE  InFlight' = InFlight \ batch
<1>1. UNCHANGED <<Pending, outstanding>> /\ batch' = {}
  BY DEF TrainStep, Pending, rollVars, feedVars
<1> QED
  BY <1>1, Fed DEF InFlight

\* The end of the stream and a restart leave nothing in it.
LEMMA EmptyInFlight ==
  ASSUME TypeInv, TypeInv', QueueEnds \/ Restart
  PROVE  InFlight' = {} /\ Pending' = {} /\ outstanding' = {} /\ batch' = {}
<1>1. handed' = position' /\ outstanding' = {} /\ batch' = {}
  BY DEF QueueEnds, Restart, feedVars
<1>2. position' \in Nat
  BY DEF TypeInv
<1>3. Pending' = {}
  <2>1. \A n \in Nat : n + 1 .. n = {}
    OBVIOUS
  <2>2. Pending' = position' + 1 .. position'
    BY <1>1 DEF Pending
  <2> QED
    BY <1>2, <2>1, <2>2
<1> QED
  BY <1>1, <1>3 DEF InFlight

\* The other steps do not touch it.
LEMMA KeptInFlight ==
  ASSUME FeedEnds \/ ProcessorRaises \/ NoSave \/ SaveWeights \/ SaveDataloader \/ SaveTracker
           \/ UNCHANGED vars
  PROVE  InFlight' = InFlight /\ Pending' = Pending
BY DEF FeedEnds, ProcessorRaises, NoSave, SaveWeights, SaveDataloader, SaveTracker, vars, rollVars,
       feedVars, InFlight, Pending

-----------------------------------------------------------------------------
\* Types.

\* The first run starts with an empty disk.
LEMMA TypeInit == Init => TypeInv
<1> SUFFICES ASSUME Init PROVE TypeInv
  OBVIOUS
<1>1. PassEnd(0) \in Nat
  BY ResumeAssumption DEF PassEnd
<1>2. saved \in [1 .. MaxVersion -> Folder]
  BY DEF Init, Folder
<1> QED
  BY <1>1, <1>2, RequiredType DEF Init, TypeInv, Pc, NoTracker

\* A version and the tracker name folders of the disk.
LEMMA VersionBound ==
  ASSUME TypeInv, BoundInv
  PROVE  /\ current_param_version \in 0 .. MaxVersion /\ tracker \in 0 .. MaxVersion
         /\ current_param_version <= TotalRolloutSteps + crashes
<1> DEFINE v == current_param_version
           a == v * Required
           b == (TotalRolloutSteps + crashes) * Required
           c == (local_trigger_step - 1) * RequiredSamples
           n == Cardinality(InFlight)
<1>1. n \in Nat
  BY Fed, Positions
<1>2. a \in Nat /\ b \in Nat /\ c \in Nat /\ rollouter_steps \in Nat
  <2>1. local_trigger_step - 1 \in Nat
    BY RequiredType DEF TypeInv
  <2>2. TotalRolloutSteps + crashes \in Nat
    BY RequiredType DEF TypeInv
  <2> QED
    BY <2>1, <2>2, RequiredType, Successor DEF TypeInv
<1>3. a + c + n <= rollouter_steps /\ rollouter_steps <= b
  <2>1. a + c + n <= IF feeding THEN rollouter_steps - 1 ELSE rollouter_steps
    BY DEF BoundInv, StepsTaken
  <2>2. rollouter_steps <= b
    BY DEF BoundInv
  <2> HIDE DEF a, b, c, n
  <2> QED
    BY <2>1, <2>2, <1>1, <1>2
<1>4. a <= b
  <2> HIDE DEF a, b, c, n
  <2> QED
    BY <1>1, <1>2, <1>3
<1>5. v <= TotalRolloutSteps + crashes
  BY <1>4, Cancel, RequiredType DEF TypeInv
<1> QED
  BY <1>5, RequiredType DEF MaxVersion, BoundInv, TypeInv

\* Every step; a restart takes the types from the folder it loads.
LEMMA TypeStep ==
  ASSUME TypeInv, BoundInv, SavedInv, [Next]_vars
  PROVE  TypeInv'
<1> USE RequiredType DEF TypeInv, rollVars, feedVars, trainVars, diskVars
<1>1. CASE Feed
  <2>1. /\ position' \in Nat /\ 1 .. position \subseteq 1 .. position'
        /\ handed' \in 0 .. position' /\ trained' \subseteq 1 .. position'
    BY <1>1 DEF Feed
  <2>2. feeding' \in BOOLEAN /\ rollouter_steps' \in Nat \ {0}
    BY <1>1 DEF Feed
  <2> QED
    BY <1>1, <2>1, <2>2 DEF Feed
<1>2. CASE FeedEnds
  BY <1>2 DEF FeedEnds
<1>3. CASE TrainStep
  <2>1. batch' = {} /\ trained' \subseteq 1 .. position
    BY <1>3 DEF TrainStep
  <2>2. /\ local_trigger_step' \in 1 .. TriggerParameterSyncStep
        /\ current_param_version' \in Nat
    BY <1>3 DEF TrainStep
  <2> QED
    BY <1>3, <2>1, <2>2 DEF TrainStep, Pc
<1>4. CASE QueueEnds
  BY <1>4 DEF QueueEnds, Pc
<1>5. CASE NoSave
  BY <1>5 DEF NoSave, AfterSave, Pc
<1>6. CASE SaveWeights
  <2>1. trained \in SUBSET Nat
    OBVIOUS
  <2>2. saved' \in [1 .. MaxVersion -> Folder]
    BY <1>6, <2>1 DEF SaveWeights, Folder
  <2> QED
    BY <1>6, <2>2 DEF SaveWeights, Pc
<1>7. CASE SaveDataloader
  <2>1. saved' \in [1 .. MaxVersion -> Folder]
    BY <1>7 DEF SaveDataloader, Folder
  <2> QED
    BY <1>7, <2>1 DEF SaveDataloader, Pc
<1>8. CASE SaveTracker
  BY <1>8 DEF SaveTracker, AfterSave, Pc
<1>9. CASE Restart
  <2>1. tracker \in 0 .. MaxVersion
    BY VersionBound
  <2>2. tracker # NoTracker => saved[tracker] \in Folder
    BY <2>1 DEF NoTracker
  <2>3. position' \in Nat
    BY <1>9, <2>2 DEF Restart, PositionOf, Folder
  <2>4. PassEnd(position') \in Nat
    BY <2>3, ResumeAssumption DEF PassEnd
  <2>5. StepsOf(tracker) \in Nat \ {0}
    BY Successor DEF StepsOf
  <2>6. trained' \subseteq 1 .. position'
    BY <1>9, <2>2 DEF Restart, PositionOf, SavedInv, Covers
  <2>7. crashes' \in 0 .. MaxCrashes
    BY <1>9 DEF Restart
  <2> QED
    BY <1>9, <2>3, <2>4, <2>5, <2>6, <2>7 DEF Restart, Pc
<1>10. CASE UNCHANGED vars
  BY <1>10 DEF vars
<1>11. CASE Start
  <2>1. handed' \in 0 .. position /\ 1 .. handed \subseteq 1 .. handed' /\ handed' \notin 1 .. handed
        /\ handed' \in 1 .. handed'
    BY <1>11 DEF Start
  <2> QED
    BY <1>11, <2>1 DEF Start
<1>12. CASE Takes
  BY <1>12 DEF Takes, Take
<1>13. CASE Drops
  <2> PICK s \in outstanding : Drop(s) /\ stream' \in {stream, "failing"}
    BY <1>13 DEF Drops, Displace, GenerationFails
  <2> QED
    BY DEF Drop
<1>14. CASE ProcessorRaises
  BY <1>14 DEF ProcessorRaises
<1> QED
  BY <1>1, <1>2, <1>3, <1>4, <1>5, <1>6, <1>7, <1>8, <1>9, <1>10, <1>11, <1>12, <1>13, <1>14
  DEF Next, Rollout, Fit, Drops, Takes

-----------------------------------------------------------------------------
\* The passes of the data loader.

\* A run that resumes in the middle of a pass has the rest of it before it.
LEMMA PassAhead == ASSUME NEW p \in Nat PROVE p <= PassEnd(p) /\ PassEnd(p) \in Nat
<1> DEFINE q == p \div DatasetSize
           D == DatasetSize
<1>1. q \in Nat /\ D \in Nat \ {0} /\ TotalEpochs \in Nat \ {0}
  BY ResumeAssumption
<1>2. p < (q + 1) * D
  <2>1. p < D * q + D
    BY ResumeAssumption
  <2>2. (q + 1) * D = D * q + D
    <3> HIDE DEF q, D
    <3> QED
      BY <1>1
  <2> QED
    BY <2>1, <2>2
<1>3. PassEnd(p) = (q + 1) * D + (TotalEpochs - 1) * D
  <2> HIDE DEF q
  <2>1. (q + TotalEpochs) * D = (q + 1) * D + (TotalEpochs - 1) * D
    BY <1>1
  <2> QED
    BY <2>1 DEF PassEnd, q
<1>4. (q + 1) * D \in Nat /\ (TotalEpochs - 1) * D \in Nat
  BY <1>1
<1> HIDE DEF q, D
<1> QED
  BY <1>2, <1>3, <1>4

-----------------------------------------------------------------------------
\* Versions and the tracker.

\* Before the first sample has been fed.
LEMMA BoundInit == Init => BoundInv
<1> SUFFICES ASSUME Init PROVE BoundInv
  OBVIOUS
<1>1. Cardinality(InFlight) = 0
  <2>1. InFlight = {}
    BY DEF Init, InFlight, Pending
  <2> QED
    BY <2>1, FS_EmptySet
<1>2. StepsTaken = 0
  BY <1>1, RequiredType DEF Init, StepsTaken
<1>3. TotalRolloutSteps * Required >= 1
  <2>1. (TotalRolloutSteps - 1) * Required \in Nat
    BY RequiredType
  <2>2. TotalRolloutSteps * Required = (TotalRolloutSteps - 1) * Required + Required
    BY RequiredType
  <2> QED
    BY <2>1, <2>2, RequiredType
<1> QED
  BY <1>2, <1>3, RequiredType DEF Init, BoundInv, Saving, NoTracker

\* Steps that touch none of it, but may take prompts out of the pipeline.
LEMMA BoundKept ==
  ASSUME TypeInv, BoundInv, InFlight' \in SUBSET InFlight,
         UNCHANGED <<tracker, last_ckpt_version, current_param_version, local_trigger_step,
                     rollouter_steps, crashes>>,
         feeding' \in BOOLEAN, feeding' => feeding,
         pc' \in Saving => current_param_version # tracker
  PROVE  BoundInv'
<1>1. /\ Cardinality(InFlight) \in Nat /\ Cardinality(InFlight') \in Nat
      /\ Cardinality(InFlight') <= Cardinality(InFlight)
  <2>1. /\ position \in Nat /\ InFlight \in SUBSET (1 .. position)
        /\ InFlight' \in SUBSET (1 .. position)
    BY Fed
  <2> QED
    BY <2>1, Positions, NoLarger
<1>2. StepsTaken <= IF feeding THEN rollouter_steps - 1 ELSE rollouter_steps
  BY DEF BoundInv
<1>3. StepsTaken' <= IF feeding' THEN rollouter_steps' - 1 ELSE rollouter_steps'
  <2>1. StepsTaken \in Nat /\ StepsTaken' \in Nat /\ StepsTaken' <= StepsTaken
    <3>2. current_param_version * Required \in Nat
      BY RequiredType DEF TypeInv
    <3>3. (local_trigger_step - 1) * RequiredSamples \in Nat
      <4>1. local_trigger_step - 1 \in Nat
        BY RequiredType DEF TypeInv
      <4> QED
        BY <4>1, RequiredType
    <3> QED
      BY <1>1, <3>2, <3>3 DEF StepsTaken
  <2> QED
    BY <1>2, <2>1 DEF TypeInv
<1> QED
  BY <1>3 DEF BoundInv

\* Every step: samples move from in flight to trained, and only fed ones do.
LEMMA BoundStep ==
  ASSUME TypeInv, TypeInv', BoundInv, [Next]_vars
  PROVE  BoundInv'
<1> USE RequiredType DEF rollVars, feedVars, trainVars, diskVars
<1>0. /\ Cardinality(InFlight) \in Nat /\ StepsTaken \in Nat
      /\ current_param_version * Required \in Nat
      /\ (local_trigger_step - 1) * RequiredSamples \in Nat
      /\ (TotalRolloutSteps + crashes) * Required \in Nat
  <2>1. Cardinality(InFlight) \in Nat
    BY Fed, Positions
  <2>2. current_param_version * Required \in Nat
    BY DEF TypeInv
  <2>3. local_trigger_step - 1 \in Nat /\ TotalRolloutSteps + crashes \in Nat
    BY DEF TypeInv
  <2>4. (local_trigger_step - 1) * RequiredSamples \in Nat
    BY <2>3
  <2>5. (TotalRolloutSteps + crashes) * Required \in Nat
    BY <2>3
  <2> QED
    BY <2>1, <2>2, <2>4, <2>5 DEF StepsTaken
<1>1. CASE Feed
  <2>1. Cardinality(InFlight') = Cardinality(InFlight) + 1
    <3>1. position \in Nat /\ InFlight \in SUBSET (1 .. position)
      BY Fed
    <3>3. IsFiniteSet(InFlight)
      BY <3>1, Positions
    <3>4. position + 1 \notin InFlight
      BY <3>1
    <3>2. InFlight' = InFlight \cup {position + 1}
      BY <1>1, FeedInFlight
    <3> QED
      BY <3>2, <3>3, <3>4, FS_AddElement
  <2>2. StepsTaken' = StepsTaken + 1
    BY <1>0, <1>1, <2>1 DEF Feed, StepsTaken
  <2>3. /\ rollouter_steps \in Nat /\ StepsTaken <= rollouter_steps - 1
        /\ feeding' = (rollouter_steps < TotalRolloutSteps)
        /\ rollouter_steps' = IF feeding' THEN rollouter_steps + 1 ELSE rollouter_steps
    BY <1>1 DEF Feed, BoundInv, TypeInv
  <2>4. StepsTaken' <= IF feeding' THEN rollouter_steps' - 1 ELSE rollouter_steps'
    BY <1>0, <2>2, <2>3
  <2>5. rollouter_steps' <= (TotalRolloutSteps + crashes) * Required
    <3>1. rollouter_steps <= (TotalRolloutSteps + crashes) * Required
      BY DEF BoundInv
    <3>2. TotalRolloutSteps <= (TotalRolloutSteps + crashes) * Required
      <4> DEFINE m == TotalRolloutSteps + crashes
                 q == Required - 1
      <4>1. m \in Nat /\ q \in Nat /\ TotalRolloutSteps <= m /\ Required = q + 1
        BY DEF TypeInv
      <4> HIDE DEF m, q
      <4>2. m * q \in Nat /\ m * (q + 1) = m * q + m
        BY <4>1
      <4>3. TotalRolloutSteps <= m * (q + 1)
        BY <4>1, <4>2
      <4> QED
        BY <4>1, <4>3 DEF m
    <3>3. rollouter_steps' = rollouter_steps
          \/ (rollouter_steps' = rollouter_steps + 1 /\ rollouter_steps + 1 <= TotalRolloutSteps)
      <4>1. CASE feeding'
        <5>1. rollouter_steps < TotalRolloutSteps /\ rollouter_steps' = rollouter_steps + 1
          BY <2>3, <4>1
        <5>2. rollouter_steps \in Nat
          BY <2>3
        <5>3. rollouter_steps + 1 <= TotalRolloutSteps
          BY <5>1, <5>2
        <5> QED
          BY <5>1, <5>3
      <4>2. CASE ~feeding'
        BY <2>3, <4>2
      <4> QED
        BY <4>1, <4>2
    <3>4. /\ rollouter_steps \in Nat /\ TotalRolloutSteps \in Nat
          /\ (TotalRolloutSteps + crashes) * Required \in Nat
      BY <1>0, <2>3
    <3> DEFINE b == (TotalRolloutSteps + crashes) * Required
    <3> HIDE DEF b
    <3> QED
      BY <3>1, <3>2, <3>3, <3>4 DEF b
  <2> QED
    BY <1>1, <2>4, <2>5 DEF Feed, BoundInv
<1>2. CASE FeedEnds
  BY <1>2, KeptInFlight, BoundKept DEF FeedEnds, BoundInv
<1>3. CASE TrainStep
  <2>1. Cardinality(InFlight') = Cardinality(InFlight) - RequiredSamples
    BY <1>3, StepInFlight, Fed, Without DEF TrainStep, Full
  <2>2. current_param_version' * Required + (local_trigger_step' - 1) * RequiredSamples
          = current_param_version * Required + (local_trigger_step - 1) * RequiredSamples
              + RequiredSamples
    <3>1. CASE local_trigger_step < TriggerParameterSyncStep
      <4>1. local_trigger_step' = local_trigger_step + 1
            /\ current_param_version' = current_param_version
        BY <1>3, <3>1 DEF TrainStep
      <4>2. (local_trigger_step' - 1) * RequiredSamples
              = (local_trigger_step - 1) * RequiredSamples + RequiredSamples
        BY <4>1 DEF TypeInv
      <4> QED
        BY <1>0, <4>1, <4>2
    <3>2. CASE ~(local_trigger_step < TriggerParameterSyncStep)
      <4>1. local_trigger_step' = 1 /\ current_param_version' = current_param_version + 1
            /\ local_trigger_step = TriggerParameterSyncStep
        BY <1>3, <3>2 DEF TrainStep, TypeInv
      <4>2. current_param_version' * Required = current_param_version * Required + Required
        BY <4>1, Successor DEF TypeInv
      <4>3. (local_trigger_step' - 1) * RequiredSamples = 0
        BY <4>1
      <4> QED
        BY <1>0, <4>1, <4>2, <4>3, LastStep
    <3> QED
      BY <3>1, <3>2
  <2>3. StepsTaken' = StepsTaken
    BY <1>0, <2>1, <2>2 DEF StepsTaken
  <2>4. pc' \notin Saving
    BY <1>3 DEF TrainStep, Saving
  <2>5. tracker' <= current_param_version'
    BY <1>3 DEF TrainStep, BoundInv, TypeInv
  <2> QED
    BY <1>3, <2>3, <2>4, <2>5 DEF TrainStep, BoundInv
<1>4. CASE QueueEnds
  <2>1. InFlight' \in SUBSET InFlight /\ pc' \notin Saving
    BY <1>4, EmptyInFlight DEF QueueEnds, Saving
  <2> QED
    BY <1>4, <2>1, BoundKept DEF QueueEnds, TypeInv
<1>5. CASE NoSave
  <2>1. pc' \notin Saving
    BY <1>5 DEF NoSave, AfterSave, Saving
  <2> QED
    BY <1>5, <2>1, KeptInFlight, BoundKept DEF NoSave, TypeInv
<1>6. CASE SaveWeights
  <2>1. current_param_version # last_ckpt_version
    BY <1>6 DEF SaveWeights, SaveDue
  <2>2. current_param_version # tracker
    BY <2>1 DEF BoundInv
  <2> QED
    BY <1>6, <2>2, KeptInFlight, BoundKept DEF SaveWeights, TypeInv
<1>7. CASE SaveDataloader
  <2>1. current_param_version # tracker
    BY <1>7 DEF SaveDataloader, BoundInv, Saving
  <2> QED
    BY <1>7, <2>1, KeptInFlight, BoundKept DEF SaveDataloader, TypeInv
<1>8. CASE SaveTracker
  <2>1. pc' \notin Saving
    BY <1>8 DEF SaveTracker, AfterSave, Saving
  <2>2. StepsTaken' = StepsTaken
    BY <1>8, KeptInFlight DEF SaveTracker, StepsTaken
  <2> QED
    BY <1>8, <2>1, <2>2 DEF SaveTracker, BoundInv, TypeInv
<1>9. CASE Restart
  <2>1. Cardinality(InFlight') = 0
    BY <1>9, EmptyInFlight, FS_EmptySet
  <2>2. tracker * Required \in Nat /\ rollouter_steps' = tracker * Required + 1
    <3>1. tracker \in Nat
      BY DEF TypeInv
    <3>2. tracker * Required \in Nat
      BY <3>1, RequiredType
    <3> QED
      BY <1>9, <3>2 DEF Restart, StepsOf
  <2>3. StepsTaken' = tracker * Required
    BY <1>9, <2>1, <2>2 DEF Restart, StepsTaken
  <2>4. rollouter_steps' <= (TotalRolloutSteps + crashes') * Required
    <3> DEFINE m == TotalRolloutSteps + crashes
    <3>1. m \in Nat /\ tracker <= m /\ tracker \in Nat /\ crashes' = crashes + 1
      BY <1>9, VersionBound DEF Restart, BoundInv, TypeInv
    <3>2. TotalRolloutSteps + crashes' = m + 1
      BY <3>1 DEF TypeInv
    <3> HIDE DEF m
    <3>3. (m - tracker) * Required \in Nat
          /\ m * Required = tracker * Required + (m - tracker) * Required
      BY <3>1
    <3>4. (m + 1) * Required = m * Required + Required
      BY <3>1, Successor
    <3> QED
      BY <2>2, <3>2, <3>3, <3>4
  <2>5. feeding' = TRUE /\ pc' \notin Saving
        /\ tracker' = tracker /\ last_ckpt_version' = tracker /\ current_param_version' = tracker
    BY <1>9 DEF Restart, Saving
  <2>6. tracker \in Nat
    BY DEF TypeInv
  <2> HIDE DEF TypeInv
  <2> QED
    BY <2>2, <2>3, <2>4, <2>5, <2>6 DEF BoundInv
<1>10. CASE UNCHANGED vars
  BY <1>10, KeptInFlight DEF vars, BoundInv, StepsTaken
<1>11. CASE Start \/ Takes \/ Drops \/ ProcessorRaises
  <2>1. InFlight' \in SUBSET InFlight
    <3>1. CASE Drops
      <4> PICK s \in outstanding : Drop(s)
        BY <3>1 DEF Drops, Displace, GenerationFails
      <4> QED
        BY DropsInFlight
    <3> QED
      BY <1>11, <3>1, MovesInFlight, KeptInFlight
  <2>2. /\ UNCHANGED <<tracker, last_ckpt_version, current_param_version, local_trigger_step,
                       rollouter_steps, crashes, pc>>
        /\ feeding' => feeding
    BY <1>11 DEF Start, Takes, Take, Drops, Displace, GenerationFails, Drop, ProcessorRaises
  <2>3. feeding' \in BOOLEAN /\ (pc' \in Saving => current_param_version # tracker)
    BY <2>2 DEF TypeInv, BoundInv
  <2> QED
    BY <2>1, <2>2, <2>3, BoundKept
<1> QED
  BY <1>1, <1>2, <1>3, <1>4, <1>5, <1>6, <1>7, <1>8, <1>9, <1>10, <1>11
  DEF Next, Rollout, Fit, Drops, Takes

-----------------------------------------------------------------------------
\* What the folders hold.

\* No folder is named yet.
LEMMA SavedInit == Init => SavedInv
BY DEF Init, SavedInv, Saving, Written, NoTracker

\* Steps that leave the disk, the weights and the version alone and save nothing.
LEMMA SavedKept ==
  ASSUME SavedInv, UNCHANGED <<saved, tracker, trained, current_param_version>>,
         pc' \in Saving => pc' = pc
  PROVE  SavedInv'
BY DEF SavedInv, Saving, Written, Covers, NoTracker

\* Every step; what save_checkpoint writes never touches the folder of the tracker.
LEMMA SavedStep ==
  ASSUME TypeInv, BoundInv, SavedInv, [Next]_vars
  PROVE  SavedInv'
<1> USE DEF rollVars, feedVars, trainVars, diskVars
<1>0. /\ current_param_version \in 0 .. MaxVersion /\ tracker \in 0 .. MaxVersion
      /\ saved \in [1 .. MaxVersion -> Folder]
      /\ tracker # NoTracker => tracker \in 1 .. MaxVersion
  BY VersionBound DEF TypeInv, NoTracker
<1>1. CASE Feed \/ FeedEnds \/ Start \/ ProcessorRaises \/ Drops \/ Takes
  <2>1. UNCHANGED <<saved, tracker, trained, current_param_version>> /\ (pc' \in Saving => pc' = pc)
    BY <1>1 DEF Feed, FeedEnds, Start, ProcessorRaises, Drops, Displace, GenerationFails, Drop,
                Takes, Take, Saving
  <2> QED
    BY <2>1, SavedKept
<1>2. CASE TrainStep
  <2>1. pc' \notin Saving /\ pc' \notin Written /\ UNCHANGED <<saved, tracker>>
    BY <1>2 DEF TrainStep, Saving, Written
  <2> QED
    BY <2>1 DEF SavedInv, Covers
<1>3. CASE QueueEnds \/ NoSave
  BY <1>3, SavedKept DEF QueueEnds, NoSave, AfterSave, Saving
<1>4. CASE SaveWeights
  <2>1. current_param_version # tracker /\ current_param_version \in 1 .. MaxVersion
    <3>1. current_param_version # tracker /\ tracker <= current_param_version
      BY <1>4 DEF SaveWeights, SaveDue, BoundInv
    <3> QED
      BY <1>0, <3>1
  <2>2. saved'[current_param_version].trained = trained
    BY <1>0, <1>4, <2>1 DEF SaveWeights, Folder
  <2>3. tracker # NoTracker => saved'[tracker] = saved[tracker]
    BY <1>0, <1>4, <2>1 DEF SaveWeights
  <2>4. /\ pc' \notin Written
        /\ UNCHANGED <<trained, tracker, current_param_version>>
    BY <1>4 DEF SaveWeights, Written
  <2> QED
    BY <2>2, <2>3, <2>4 DEF SavedInv, Covers
<1>5. CASE SaveDataloader
  <2>1. pc \in Saving
    BY <1>5 DEF SaveDataloader, Saving
  <2>2. current_param_version # tracker /\ current_param_version \in 1 .. MaxVersion
    <3>1. current_param_version # tracker /\ tracker <= current_param_version
      BY <2>1 DEF BoundInv
    <3> QED
      BY <1>0, <3>1
  <2>3. /\ saved'[current_param_version].trained = saved[current_param_version].trained
        /\ saved'[current_param_version].position = position
    BY <1>0, <1>5, <2>2 DEF SaveDataloader, Folder
  <2>4. tracker # NoTracker => saved'[tracker] = saved[tracker]
    BY <1>0, <1>5, <2>2 DEF SaveDataloader
  <2>5. saved[current_param_version].trained = trained /\ trained \subseteq 1 .. position
    BY <2>1 DEF SavedInv, TypeInv
  <2>6. UNCHANGED <<trained, tracker, current_param_version>>
    BY <1>5 DEF SaveDataloader
  <2> QED
    BY <2>3, <2>4, <2>5, <2>6 DEF SavedInv, Covers
<1>6. CASE SaveTracker
  <2>1. /\ pc \in Written /\ pc' \notin Saving /\ pc' \notin Written
        /\ tracker' = current_param_version /\ UNCHANGED saved
    BY <1>6 DEF SaveTracker, AfterSave, Written, Saving
  <2> QED
    BY <2>1 DEF SavedInv, Covers
<1>7. CASE Restart
  <2>1. pc' \notin Saving /\ pc' \notin Written /\ UNCHANGED <<saved, tracker>>
    BY <1>7 DEF Restart, Saving, Written
  <2> QED
    BY <2>1 DEF SavedInv, Covers
<1>8. CASE UNCHANGED vars
  BY <1>8, SavedKept DEF vars
<1> QED
  BY <1>1, <1>2, <1>3, <1>4, <1>5, <1>6, <1>7, <1>8 DEF Next, Rollout, Fit, Drops, Takes

-----------------------------------------------------------------------------
\* Prompts in flight have not been trained on.

\* Every step: the feeder hands out positions it has not handed out in this run.
LEMMA TwiceStep ==
  ASSUME TypeInv, TypeInv', NoPromptTwice, [Next]_vars
  PROVE  NoPromptTwice'
<1> USE DEF rollVars, feedVars, trainVars, diskVars, NoPromptTwice
<1>1. CASE Feed
  <2>1. position + 1 \notin trained /\ trained' = trained
    BY <1>1 DEF TypeInv, Feed
  <2> QED
    BY <1>1, <2>1, FeedInFlight
<1>2. CASE TrainStep
  <2>1. InFlight' = InFlight \ batch /\ trained' = trained \cup batch
    BY <1>2, StepInFlight DEF TrainStep
  <2> QED
    BY <2>1
<1>3. CASE QueueEnds \/ Restart
  BY <1>3, EmptyInFlight
<1>4. CASE FeedEnds \/ ProcessorRaises \/ NoSave \/ SaveWeights \/ SaveDataloader \/ SaveTracker
             \/ UNCHANGED vars
  <2>1. trained' = trained
    BY <1>4 DEF FeedEnds, ProcessorRaises, NoSave, SaveWeights, SaveDataloader, SaveTracker, vars
  <2> QED
    BY <1>4, <2>1, KeptInFlight
<1>5. CASE Start \/ Takes
  <2>1. trained' = trained
    BY <1>5 DEF Start, Takes, Take
  <2> QED
    BY <1>5, <2>1, MovesInFlight
<1>6. CASE Drops
  <2> PICK s \in outstanding : Drop(s)
    BY <1>6 DEF Drops, Displace, GenerationFails
  <2>1. InFlight' = InFlight \ {s} /\ trained' = trained
    BY DropsInFlight DEF Drop
  <2> QED
    BY <2>1
<1> QED
  BY <1>1, <1>2, <1>3, <1>4, <1>5, <1>6 DEF Next, Rollout, Fit, Drops, Takes

-----------------------------------------------------------------------------
\* The bounds of the pipeline.

\* It is empty at first.
LEMMA PipeInit == Init => PipeInv
<1> SUFFICES ASSUME Init PROVE PipeInv
  OBVIOUS
<1>1. Pending = {} /\ outstanding = {} /\ batch = {} /\ pc = "collect" /\ stream = "open"
  BY DEF Init, Pending
<1>2. Cardinality({}) = 0
  BY FS_EmptySet
<1> QED
  BY <1>1, <1>2, RequiredType DEF PipeInv, Ending

\* The parts hold what their sizes add up to.
LEMMA PipeSize ==
  ASSUME TypeInv, PipeInv
  PROVE  /\ Cardinality(InFlight) \in Nat /\ Cardinality(batch) \in Nat
         /\ Cardinality(InFlight) <= PendingCap + MaxRequiredSamples + 2 + Cardinality(batch)
         /\ Cardinality(batch) < RequiredSamples => Cardinality(InFlight) <= MaxInFlight
<1>1. Cardinality(Pending \cup outstanding) = Cardinality(Pending) + Cardinality(outstanding)
  BY Fed, Together
<1>2. Cardinality(InFlight) = Cardinality(Pending \cup outstanding) + Cardinality(batch)
  <2>1. Pending \cup outstanding \in SUBSET (1 .. position)
    BY Fed
  <2> QED
    BY <2>1, Fed, Together DEF InFlight
<1>3. /\ Cardinality(Pending) \in Nat /\ Cardinality(outstanding) \in Nat
      /\ Cardinality(batch) \in Nat /\ Cardinality(InFlight) \in Nat
  BY Fed, Positions
<1>4. Cardinality(Pending) <= PendingCap + 1 /\ Cardinality(outstanding) <= MaxRequiredSamples + 1
  BY DEF PipeInv
<1>5. Cardinality(InFlight) <= PendingCap + MaxRequiredSamples + 2 + Cardinality(batch)
  BY <1>1, <1>2, <1>3, <1>4, RequiredType
<1> QED
  BY <1>3, <1>5, RequiredType

\* Each part grows by one prompt at a time, and only below its bound.
LEMMA OneMore ==
  ASSUME NEW n \in Nat, NEW S \in SUBSET (1 .. n), NEW x, NEW b \in Nat, Cardinality(S) < b
  PROVE  Cardinality(S \cup {x}) <= b
<1>1. IsFiniteSet(S) /\ Cardinality(S) \in Nat
  BY Positions
<1>2. CASE x \in S
  <2>1. S \cup {x} = S
    BY <1>2
  <2> QED
    BY <1>1, <2>1
<1>3. CASE x \notin S
  <2>1. Cardinality(S \cup {x}) = Cardinality(S) + 1
    BY <1>1, <1>3, FS_AddElement
  <2> QED
    BY <1>1, <2>1
<1> QED
  BY <1>2, <1>3

\* Every step.
LEMMA PipeStep ==
  ASSUME TypeInv, TypeInv', PipeInv, [Next]_vars
  PROVE  PipeInv'
<1> USE DEF rollVars, feedVars, trainVars, diskVars
<1>0. /\ Cardinality(Pending) \in Nat /\ Cardinality(outstanding) \in Nat
      /\ Cardinality(batch) \in Nat /\ Cardinality({}) = 0
      /\ Cardinality(Pending) <= PendingCap + 1
      /\ Cardinality(outstanding) <= MaxRequiredSamples + 1
      /\ Cardinality(batch) <= RequiredSamples
  BY Fed, Positions, FS_EmptySet DEF PipeInv
<1>1. CASE Feed
  <2>1. Pending' = Pending \cup {position + 1}
    BY <1>1, Fed DEF Feed, Pending, TypeInv
  <2>2. Cardinality(Pending) < PendingCap + 1
    BY <1>0, <1>1, RequiredType DEF Feed, Room
  <2>3. Cardinality(Pending') <= PendingCap + 1
    <3>1. PendingCap + 1 \in Nat /\ position \in Nat /\ Pending \in SUBSET (1 .. position)
      BY Fed, RequiredType
    <3>2. Cardinality(Pending \cup {position + 1}) <= PendingCap + 1
      BY <2>2, <3>1, OneMore
    <3> QED
      BY <2>1, <3>2
  <2>4. pc \notin Ending /\ stream' # "raised" /\ UNCHANGED <<pc, outstanding, batch>>
    BY <1>1 DEF Feed, PipeInv
  <2> QED
    BY <2>3, <2>4 DEF PipeInv
<1>2. CASE Start
  <2>1. Pending' \in SUBSET Pending /\ handed + 1 \in Pending /\ outstanding' = outstanding \cup {handed + 1}
    BY <1>2 DEF Start, Pending, TypeInv
  <2>2. pc \notin Ending /\ UNCHANGED <<pc, batch, feeding, stream>>
    BY <1>2, <2>1 DEF Start, PipeInv, InFlight
  <2>3. Cardinality(Pending') <= Cardinality(Pending) /\ Cardinality(Pending') \in Nat
    <3>1. Pending' \in SUBSET (1 .. position)
      BY <2>1, Fed
    <3> QED
      BY <2>1, <3>1, Fed, NoLarger, Positions
  <2>4. Cardinality(outstanding') <= MaxRequiredSamples + 1
    <3>1. Cardinality(outstanding) < MaxRequiredSamples + 1
      BY <1>0, <1>2, RequiredType DEF Start
    <3>2. /\ MaxRequiredSamples + 1 \in Nat /\ position \in Nat
          /\ outstanding \in SUBSET (1 .. position)
      BY Fed, RequiredType
    <3>3. Cardinality(outstanding \cup {handed + 1}) <= MaxRequiredSamples + 1
      BY <3>1, <3>2, OneMore
    <3> QED
      BY <2>1, <3>3
  <2>5. Cardinality(Pending') <= PendingCap + 1
    BY <1>0, <2>3, RequiredType
  <2> QED
    BY <2>2, <2>4, <2>5 DEF PipeInv
<1>3. CASE Takes
  <2> PICK s \in outstanding : Take(s)
    BY <1>3 DEF Takes
  <2>1. /\ UNCHANGED <<Pending, pc, stream, feeding>> /\ pc = "collect"
        /\ outstanding' \in SUBSET outstanding /\ batch' = batch \cup {s}
    BY DEF Take, Pending
  <2>2. Cardinality(outstanding') <= Cardinality(outstanding) /\ Cardinality(outstanding') \in Nat
    <3>1. outstanding' \in SUBSET (1 .. position)
      BY <2>1, Fed
    <3> QED
      BY <2>1, <3>1, Fed, NoLarger, Positions
  <2>3. Cardinality(batch') <= RequiredSamples
    <3>1. Cardinality(batch) < RequiredSamples
      BY DEF Take
    <3> QED
      BY <2>1, <3>1, Fed, OneMore, RequiredType
  <2>4. Cardinality(outstanding') <= MaxRequiredSamples + 1
    BY <1>0, <2>2, RequiredType
  <2> QED
    BY <1>0, <2>1, <2>3, <2>4 DEF PipeInv, Ending
<1>4. CASE Drops
  <2> PICK s \in outstanding : Drop(s) /\ stream' \in {stream, "failing"}
    BY <1>4 DEF Drops, Displace, GenerationFails
  <2>0. feeding' = feeding
    BY DEF Drop
  <2>1. pc \notin Ending /\ UNCHANGED <<Pending, batch, pc>> /\ outstanding' \in SUBSET outstanding
    BY Fed DEF Drop, Pending, PipeInv
  <2>2. Cardinality(outstanding') <= Cardinality(outstanding) /\ Cardinality(outstanding') \in Nat
    <3>1. outstanding' \in SUBSET (1 .. position)
      BY <2>1, Fed
    <3> QED
      BY <2>1, <3>1, Fed, NoLarger, Positions
  <2>3. Cardinality(outstanding') <= MaxRequiredSamples + 1
    BY <1>0, <2>2, RequiredType
  <2> QED
    BY <1>0, <2>0, <2>1, <2>3 DEF PipeInv
<1>5. CASE TrainStep
  <2>1. UNCHANGED <<Pending, outstanding, stream, feeding>> /\ batch' = {} /\ pc' = "checkpoint"
    BY <1>5 DEF TrainStep, Pending
  <2> QED
    BY <1>0, <2>1, RequiredType DEF PipeInv, Ending
<1>6. CASE QueueEnds \/ Restart
  <2>1. InFlight' = {} /\ Pending' = {} /\ outstanding' = {} /\ batch' = {}
    BY <1>6, EmptyInFlight
  <2>2. (pc' \in Ending => ~feeding') /\ (stream' = "raised" => ~feeding')
    BY <1>6 DEF QueueEnds, EndSent, Restart, Ending, PipeInv
  <2> QED
    BY <1>0, <2>1, <2>2, RequiredType DEF PipeInv
<1>7. CASE FeedEnds \/ ProcessorRaises \/ NoSave \/ SaveWeights \/ SaveDataloader \/ SaveTracker
             \/ UNCHANGED vars
  <2>1. InFlight' = InFlight /\ Pending' = Pending
    BY <1>7, KeptInFlight
  <2>2. UNCHANGED <<outstanding, batch>> /\ (feeding' => feeding)
    BY <1>7 DEF FeedEnds, ProcessorRaises, NoSave, SaveWeights, SaveDataloader, SaveTracker, vars,
                TypeInv
  <2>3. (pc' # "collect" => pc # "collect") /\ (pc' \in Ending => pc \in Ending)
    BY <1>7 DEF FeedEnds, ProcessorRaises, NoSave, AfterSave, SaveWeights, SaveDataloader,
                SaveTracker, vars, Ending
  <2>4. feeding' \in BOOLEAN
    BY DEF TypeInv
  <2>5. stream' = "raised" => stream = "raised" \/ ~feeding'
    BY <1>7 DEF FeedEnds, ProcessorRaises, NoSave, SaveWeights, SaveDataloader, SaveTracker, vars
  <2> QED
    BY <2>1, <2>2, <2>3, <2>4, <2>5 DEF PipeInv
<1> QED
  BY <1>1, <1>2, <1>3, <1>4, <1>5, <1>6, <1>7 DEF Next, Rollout, Fit, Drops, Takes

-----------------------------------------------------------------------------
\* Losses.

\* The numbers of LossInv.
LEMMA LossNumbers ==
  ASSUME TypeInv
  PROVE  /\ Allowed \in Nat /\ Cardinality(Lost) \in Nat /\ EndLoss \in Nat
         /\ EndLoss <= MaxInFlight /\ Allowed + MaxInFlight \in Nat
<1>1. crashes \in Nat /\ earlier \in Nat /\ dropped \in Nat /\ position \in Nat
  BY RequiredType DEF TypeInv
<1>2. crashes * MaxInFlight \in Nat
  BY <1>1, RequiredType
<1>3. Allowed \in Nat
  BY <1>1, <1>2 DEF Allowed
<1>4. Lost \in SUBSET (1 .. position)
  BY DEF Lost
<1>5. Cardinality(Lost) \in Nat
  BY <1>1, <1>4, Positions
<1>6. EndLoss \in Nat /\ EndLoss <= MaxInFlight
  BY RequiredType DEF EndLoss
<1> QED
  BY <1>3, <1>5, <1>6, RequiredType

\* Nothing is lost at first.
LEMMA LossInit == Init => LossInv
<1> SUFFICES ASSUME Init PROVE LossInv
  OBVIOUS
<1>1. Lost = {} /\ Cardinality({}) = 0
  BY FS_EmptySet DEF Init, Lost
<1>2. Allowed = 0 /\ EndLoss = 0
  BY RequiredType DEF Init, Allowed, EndLoss, Ending
<1> QED
  BY <1>1, <1>2 DEF Init, LossInv, Written, NoTracker

\* What is lost and what is in flight are the positions not trained on.
LEMMA NotTrained ==
  ASSUME TypeInv, NoPromptTwice
  PROVE  /\ (1 .. position) \ trained = Lost \cup InFlight
         /\ Cardinality(Lost \cup InFlight) = Cardinality(Lost) + Cardinality(InFlight)
         /\ Cardinality(Lost) \in Nat /\ Cardinality(InFlight) \in Nat
<1>1. /\ Lost \in SUBSET (1 .. position) /\ InFlight \in SUBSET (1 .. position)
      /\ Lost \cap InFlight = {} /\ position \in Nat
  BY Fed DEF Lost
<1>2. (1 .. position) \ trained = Lost \cup InFlight
  BY <1>1 DEF NoPromptTwice, Lost
<1> QED
  BY <1>1, <1>2, Together, Positions

\* Steps that lose nothing and finish no folder.
LEMMA LossKept ==
  ASSUME TypeInv, TypeInv', LossInv, UNCHANGED <<saved, tracker, current_param_version>>,
         Lost' = Lost, Allowed' = Allowed, EndLoss <= EndLoss', pc' \in Written => pc \in Written
  PROVE  LossInv'
<1>1. Cardinality(Lost) <= Allowed + EndLoss
  BY DEF LossInv
<1>2. Allowed \in Nat /\ EndLoss \in Nat /\ Cardinality(Lost) \in Nat
  BY LossNumbers
<1>3. EndLoss' \in Nat
  <2>1. TypeInv => EndLoss \in Nat
    BY LossNumbers
  <2>2. (TypeInv => EndLoss \in Nat)'
    BY <2>1, RequiredType DEF TypeInv, EndLoss
  <2> QED
    BY <2>2
<1>4. Cardinality(Lost') <= Allowed' + EndLoss'
  BY <1>1, <1>2, <1>3
<1>5. /\ tracker' # NoTracker => Cardinality(Missing(saved'[tracker'])) <= Allowed' + MaxInFlight
      /\ pc' \in Written =>
           Cardinality(Missing(saved'[current_param_version'])) <= Allowed' + MaxInFlight
  BY DEF LossInv, Missing
<1> QED
  BY <1>4, <1>5 DEF LossInv, Missing

\* A folder misses a natural number of prompts.
LEMMA MissingType ==
  ASSUME TypeInv, NEW v \in 1 .. MaxVersion
  PROVE  Cardinality(Missing(saved[v])) \in Nat
<1>1. saved[v].position \in Nat
  BY DEF TypeInv, Folder
<1>2. Missing(saved[v]) \in SUBSET (1 .. saved[v].position)
  BY DEF Missing
<1> QED
  BY <1>1, <1>2, Positions

\* Every step; a restart loses the prompts that were in flight.
LEMMA LossStep ==
  ASSUME TypeInv, TypeInv', BoundInv, SavedInv, NoPromptTwice, PipeInv, LossInv, [Next]_vars
  PROVE  LossInv'
<1> USE DEF rollVars, feedVars, trainVars, diskVars
<1>0. /\ current_param_version \in 0 .. MaxVersion /\ tracker \in 0 .. MaxVersion
      /\ saved \in [1 .. MaxVersion -> Folder]
      /\ tracker # NoTracker => tracker \in 1 .. MaxVersion
  <2>1. saved \in [1 .. MaxVersion -> Folder]
    BY DEF TypeInv
  <2> QED
    BY <2>1, VersionBound DEF NoTracker
<1>n. /\ Allowed \in Nat /\ Cardinality(Lost) \in Nat /\ EndLoss \in Nat
      /\ EndLoss <= MaxInFlight /\ MaxInFlight \in Nat /\ RequiredSamples \in Nat \ {0}
  BY LossNumbers, RequiredType
<1>1. CASE Feed
  <2>1. UNCHANGED <<saved, tracker, current_param_version, pc, Allowed, EndLoss>>
    BY <1>1 DEF Feed, Allowed, EndLoss
  <2>2. Lost' = Lost
    <3>1. position \in Nat /\ position' = position + 1 /\ trained' = trained
          /\ InFlight' = InFlight \cup {position + 1}
      BY <1>1, FeedInFlight DEF Feed, TypeInv
    <3>2. trained \subseteq 1 .. position
      BY DEF TypeInv
    <3> QED
      BY <3>1, <3>2 DEF Lost
  <2> QED
    BY <1>n, <2>1, <2>2, LossKept
<1>2. CASE FeedEnds \/ ProcessorRaises \/ Start \/ Takes
  <2>1. UNCHANGED <<saved, tracker, current_param_version, pc, Allowed, trained, position>>
    BY <1>2 DEF FeedEnds, ProcessorRaises, Start, Takes, Take, Allowed
  <2>2. Lost' = Lost
    BY <1>2, <2>1, MovesInFlight, KeptInFlight DEF Lost
  <2>3. EndLoss <= EndLoss'
    <3>1. stream' = stream \/ (stream = "failing" /\ stream' = "raised")
      BY <1>2 DEF FeedEnds, ProcessorRaises, Start, Takes, Take
    <3> QED
      BY <2>1, <3>1, RequiredType DEF EndLoss
  <2> QED
    BY <2>1, <2>2, <2>3, LossKept
<1>3. CASE Drops
  <2> PICK s \in outstanding : Drop(s)
    BY <1>3 DEF Drops, Displace, GenerationFails
  <2>1. /\ UNCHANGED <<saved, tracker, current_param_version, pc, trained, position>>
        /\ Allowed' = Allowed + 1
    <3>1. /\ UNCHANGED <<saved, tracker, current_param_version, pc, trained, position, crashes,
                        earlier>>
          /\ dropped' = dropped + 1
      BY DEF Drop
    <3>2. crashes * MaxInFlight \in Nat /\ earlier \in Nat /\ dropped \in Nat
      BY RequiredType DEF TypeInv
    <3> QED
      BY <3>1, <3>2 DEF Allowed
  <2>2. pc \notin Ending
    BY Fed DEF PipeInv
  <2>3. Cardinality(Lost') <= Cardinality(Lost) + 1
    <3>1. s \in 1 .. position /\ s \notin trained
      BY Fed DEF NoPromptTwice
    <3>2. Lost' = Lost \cup {s}
      BY <2>1, <3>1, DropsInFlight DEF Lost
    <3>3. Lost \in SUBSET (1 .. position) /\ Cardinality(Lost) + 1 \in Nat /\ position \in Nat
      BY <1>n, Fed DEF Lost
    <3>4. Cardinality(Lost) < Cardinality(Lost) + 1
      BY <1>n
    <3> QED
      BY <3>2, <3>3, <3>4, OneMore
  <2>4. EndLoss' = 0 /\ EndLoss = 0
    BY <2>1, <2>2 DEF EndLoss
  <2>5. Cardinality(Lost') <= Allowed' + EndLoss'
    <3>1. Cardinality(Lost') \in Nat
      <4>1. Lost' \in SUBSET (1 .. position) /\ position \in Nat
        BY <2>1, Fed DEF Lost
      <4> QED
        BY <4>1, Positions
    <3>2. Cardinality(Lost) <= Allowed + 0
      BY <2>4 DEF LossInv
    <3> QED
      BY <1>n, <2>1, <2>3, <2>4, <3>1, <3>2
  <2>6. tracker' # NoTracker => Cardinality(Missing(saved'[tracker'])) <= Allowed' + MaxInFlight
    <3> SUFFICES ASSUME tracker # NoTracker
                 PROVE  Cardinality(Missing(saved[tracker])) <= Allowed' + MaxInFlight
      BY <2>1
    <3>1. Cardinality(Missing(saved[tracker])) <= Allowed + MaxInFlight
      BY DEF LossInv
    <3>2. Cardinality(Missing(saved[tracker])) \in Nat
      BY <1>0, MissingType
    <3> QED
      BY <1>n, <2>1, <3>1, <3>2
  <2>7. pc' \in Written =>
          Cardinality(Missing(saved'[current_param_version'])) <= Allowed' + MaxInFlight
    <3> SUFFICES ASSUME pc \in Written
                 PROVE  Cardinality(Missing(saved[current_param_version])) <= Allowed' + MaxInFlight
      BY <2>1
    <3>1. Cardinality(Missing(saved[current_param_version])) <= Allowed + MaxInFlight
      BY DEF LossInv
    <3>2. Cardinality(Missing(saved[current_param_version])) \in Nat
      <4>1. current_param_version # tracker /\ tracker <= current_param_version
        BY DEF BoundInv, Saving, Written
      <4>2. current_param_version \in 1 .. MaxVersion
        BY <1>0, <4>1
      <4> QED
        BY <4>2, MissingType
    <3> QED
      BY <1>n, <2>1, <3>1, <3>2
  <2> QED
    BY <2>5, <2>6, <2>7 DEF LossInv, Missing
<1>4. CASE TrainStep
  <2>1. Lost' = Lost
    <3>1. position' = position /\ trained' = trained \cup batch /\ InFlight' = InFlight \ batch
      BY <1>4, StepInFlight DEF TrainStep
    <3> QED
      BY <3>1, Fed DEF Lost
  <2>2. /\ EndLoss' = EndLoss /\ pc' \notin Written
        /\ UNCHANGED <<Allowed, saved, tracker>>
    BY <1>4 DEF TrainStep, EndLoss, Ending, Written, Allowed
  <2> QED
    BY <2>1, <2>2 DEF LossInv, Missing
<1>5. CASE QueueEnds
  <2>1. /\ UNCHANGED <<Allowed, saved, tracker, position, trained, stream>> /\ pc \notin Ending
        /\ pc' \in Ending /\ pc' \notin Written
    BY <1>5 DEF QueueEnds, Allowed, Ending, Written
  <2>2. Lost' = Lost \cup InFlight
    BY <1>5, <2>1, EmptyInFlight, NotTrained DEF Lost
  <2>3. Cardinality(Lost') = Cardinality(Lost) + Cardinality(InFlight) /\ Cardinality(InFlight) \in Nat
    BY <2>2, NotTrained
  <2>4. Cardinality(Lost) <= Allowed + 0
    BY <2>1 DEF LossInv, EndLoss
  <2>5. Cardinality(InFlight) <= EndLoss'
    <3>0. Cardinality(batch) < RequiredSamples
      BY <1>5 DEF QueueEnds
    <3>1. CASE stream = "raised"
      <4>1. EndLoss' = MaxInFlight
        BY <2>1, <3>1 DEF EndLoss
      <4> QED
        BY <3>0, <4>1, PipeSize
    <3>2. CASE stream # "raised"
      <4>1. EndLoss' = RequiredSamples - 1
        BY <2>1, <3>2 DEF EndLoss
      <4>2. stream = "open" /\ handed = position /\ outstanding = {}
        BY <1>5, <3>2 DEF QueueEnds, EndSent
      <4>3. InFlight = batch
        BY <4>2, Fed DEF InFlight, Pending
      <4> QED
        BY <3>0, <4>1, <4>3, PipeSize, RequiredType
    <3> QED
      BY <3>1, <3>2
  <2>6. Cardinality(Lost') <= Allowed' + EndLoss'
    <3> DEFINE l == Cardinality(Lost)
               l2 == Cardinality(Lost')
               f == Cardinality(InFlight)
               e == EndLoss'
    <3>1. e \in Nat
      BY <2>1, RequiredType DEF EndLoss
    <3>2. l2 = l + f /\ f <= e /\ l <= Allowed + 0 /\ l \in Nat /\ f \in Nat /\ Allowed' = Allowed
      BY <1>n, <2>1, <2>3, <2>4, <2>5
    <3> HIDE DEF l, l2, f, e
    <3>3. l2 <= Allowed' + e
      BY <1>n, <3>1, <3>2
    <3> QED
      BY <3>3 DEF l2, e
  <2> QED
    BY <2>1, <2>6 DEF LossInv, Missing
<1>6. CASE NoSave \/ SaveTracker
  <2>1. UNCHANGED <<Allowed, trained, position, saved, current_param_version>> /\ Lost' = Lost
        /\ EndLoss' = EndLoss /\ pc' \notin Written
    <3>1. (pc' \in Ending <=> pc \in Ending) /\ pc' \notin Written
      BY <1>6 DEF NoSave, SaveTracker, AfterSave, Ending, Written
    <3> QED
      BY <1>6, <3>1, KeptInFlight DEF NoSave, SaveTracker, Allowed, Lost, EndLoss
  <2>2. tracker' = tracker \/ (tracker' = current_param_version /\ pc \in Written)
    BY <1>6 DEF NoSave, SaveTracker, Written
  <2> QED
    BY <2>1, <2>2 DEF LossInv, Missing
<1>7. CASE SaveWeights
  <2>1. UNCHANGED <<Allowed, tracker>> /\ Lost' = Lost /\ EndLoss' = EndLoss /\ pc' \notin Written
    <3>1. (pc' \in Ending <=> pc \in Ending) /\ pc' \notin Written
      BY <1>7 DEF SaveWeights, Ending, Written
    <3> QED
      BY <1>7, <3>1, KeptInFlight DEF SaveWeights, Allowed, Lost, EndLoss
  <2>2. tracker # NoTracker => saved'[tracker] = saved[tracker]
    <3>1. current_param_version # tracker
      BY <1>7 DEF SaveWeights, SaveDue, BoundInv
    <3> QED
      BY <1>0, <1>7, <3>1 DEF SaveWeights
  <2> QED
    BY <2>1, <2>2 DEF LossInv, Missing
<1>8. CASE SaveDataloader
  <2>1. /\ UNCHANGED <<Allowed, tracker, current_param_version>> /\ Lost' = Lost /\ EndLoss' = EndLoss
        /\ pc \in Saving /\ pc # "collect"
    <3>1. (pc' \in Ending <=> pc \in Ending) /\ pc \in Saving /\ pc # "collect"
      BY <1>8 DEF SaveDataloader, Ending, Saving
    <3> QED
      BY <1>8, <3>1, KeptInFlight DEF SaveDataloader, Allowed, Lost, EndLoss
  <2>2. current_param_version # tracker /\ current_param_version \in 1 .. MaxVersion
    <3>1. current_param_version # tracker /\ tracker <= current_param_version
      BY <2>1 DEF BoundInv
    <3> QED
      BY <1>0, <3>1
  <2>3. tracker # NoTracker => saved'[tracker] = saved[tracker]
    BY <1>0, <1>8, <2>2 DEF SaveDataloader
  <2>4. Missing(saved'[current_param_version]) = Lost \cup InFlight
    <3>1. /\ saved'[current_param_version].trained = saved[current_param_version].trained
          /\ saved'[current_param_version].position = position
      BY <1>0, <1>8, <2>2 DEF SaveDataloader, Folder
    <3>2. saved[current_param_version].trained = trained
      BY <2>1 DEF SavedInv
    <3> QED
      BY <3>1, <3>2, NotTrained DEF Missing
  <2>5. Cardinality(Lost \cup InFlight) <= Allowed + MaxInFlight
    <3> DEFINE l == Cardinality(Lost)
               f == Cardinality(InFlight)
    <3>1. l \in Nat /\ f \in Nat /\ Cardinality(Lost \cup InFlight) = l + f /\ l <= Allowed + EndLoss
      BY NotTrained DEF LossInv
    <3>2. CASE pc \in Ending
      <4>1. f = 0
        BY <3>2, FS_EmptySet DEF PipeInv
      <4> HIDE DEF l, f
      <4> QED
        BY <1>n, <3>1, <4>1
    <3>3. CASE pc \notin Ending
      <4>1. EndLoss = 0
        BY <3>3 DEF EndLoss
      <4>2. Cardinality(batch) = 0
        BY <2>1, FS_EmptySet DEF PipeInv
      <4>3. f <= MaxInFlight
        BY <4>2, PipeSize, RequiredType
      <4> HIDE DEF l, f
      <4> QED
        BY <1>n, <3>1, <4>1, <4>3
    <3> QED
      BY <3>2, <3>3
  <2>6. tracker' # NoTracker => Cardinality(Missing(saved'[tracker'])) <= Allowed' + MaxInFlight
    BY <2>1, <2>3 DEF LossInv
  <2>7. Cardinality(Missing(saved'[current_param_version'])) <= Allowed' + MaxInFlight
    BY <2>1, <2>4, <2>5
  <2>8. Cardinality(Lost') <= Allowed' + EndLoss'
    BY <2>1 DEF LossInv
  <2> QED
    BY <2>6, <2>7, <2>8 DEF LossInv, Missing
<1>9. CASE Restart
  <2>1. /\ pc' \notin Ending /\ pc' \notin Written /\ InFlight' = {}
        /\ UNCHANGED <<saved, tracker>>
    BY <1>9, EmptyInFlight DEF Restart, Ending, Written
  <2>2. Allowed' = Allowed + MaxInFlight /\ EndLoss' = 0
    <3>1. crashes' = crashes + 1 /\ earlier' = earlier + dropped /\ dropped' = 0
      BY <1>9 DEF Restart
    <3>2. crashes \in Nat /\ earlier \in Nat /\ dropped \in Nat
      BY RequiredType DEF TypeInv
    <3>3. (crashes + 1) * MaxInFlight = crashes * MaxInFlight + MaxInFlight
          /\ crashes * MaxInFlight \in Nat
      BY <1>n, <3>2, Successor
    <3>4. Allowed' = (crashes + 1) * MaxInFlight + (earlier + dropped) + 0
      BY <3>1 DEF Allowed
    <3>5. Allowed' = Allowed + MaxInFlight
      BY <1>n, <3>2, <3>3, <3>4 DEF Allowed
    <3> QED
      BY <2>1, <3>5 DEF EndLoss
  <2>3. Cardinality(Lost') <= Allowed + MaxInFlight
    <3>1. CASE tracker = NoTracker
      <4>1. position' = 0
        BY <1>9, <3>1 DEF Restart, PositionOf
      <4>2. Lost' = {}
        BY <4>1 DEF Lost
      <4> QED
        BY <1>n, <4>2, FS_EmptySet
    <3>2. CASE tracker # NoTracker
      <4>1. position' = saved[tracker].position /\ trained' = saved[tracker].trained
        BY <1>9, <3>2 DEF Restart, PositionOf
      <4>2. Lost' = Missing(saved[tracker])
        BY <2>1, <4>1 DEF Lost, Missing
      <4> QED
        BY <3>2, <4>2 DEF LossInv
    <3> QED
      BY <3>1, <3>2
  <2>4. tracker # NoTracker => Cardinality(Missing(saved[tracker])) <= Allowed' + MaxInFlight
    <3> SUFFICES ASSUME tracker # NoTracker
                 PROVE  Cardinality(Missing(saved[tracker])) <= Allowed' + MaxInFlight
      OBVIOUS
    <3>1. Cardinality(Missing(saved[tracker])) <= Allowed + MaxInFlight
      BY DEF LossInv
    <3>2. Cardinality(Missing(saved[tracker])) \in Nat
      BY <1>0, MissingType
    <3> QED
      BY <1>n, <2>2, <3>1, <3>2
  <2>5. Cardinality(Lost') <= Allowed' + EndLoss'
    BY <1>n, <2>2, <2>3
  <2> QED
    BY <2>1, <2>4, <2>5 DEF LossInv, Missing
<1>10. CASE UNCHANGED vars
  <2>1. UNCHANGED <<saved, tracker, current_param_version, pc, Lost, Allowed, EndLoss>>
    BY <1>10, KeptInFlight DEF vars, Lost, Allowed, EndLoss
  <2> QED
    BY <1>n, <2>1, LossKept
<1> QED
  BY <1>1, <1>2, <1>3, <1>4, <1>5, <1>6, <1>7, <1>8, <1>9, <1>10 DEF Next, Rollout, Fit, Drops, Takes

-----------------------------------------------------------------------------
\* The samples of a version.

\* No version, no samples.
LEMMA CountInit == Init => CountInv
<1> SUFFICES ASSUME Init PROVE CountInv
  OBVIOUS
<1>1. Cardinality(trained) = 0
  BY FS_EmptySet DEF Init
<1>2. current_param_version * Required = 0 /\ (local_trigger_step - 1) * RequiredSamples = 0
  BY RequiredType DEF Init
<1> QED
  BY <1>1, <1>2 DEF Init, CountInv, VersionCountsSamples, NoTracker

\* Every step, where each training step publishes a version.
LEMMA CountStep ==
  ASSUME TriggerParameterSyncStep = 1,
         TypeInv, BoundInv, SavedInv, NoPromptTwice, CountInv, [Next]_vars
  PROVE  CountInv'
<1> USE DEF rollVars, feedVars, trainVars, diskVars
<1>0. /\ current_param_version \in 0 .. MaxVersion /\ tracker \in 0 .. MaxVersion
      /\ saved \in [1 .. MaxVersion -> Folder]
      /\ tracker # NoTracker => tracker \in 1 .. MaxVersion
  BY VersionBound DEF TypeInv, NoTracker
<1>1. /\ local_trigger_step = 1 /\ Required = RequiredSamples
      /\ current_param_version * Required \in Nat
      /\ Cardinality(trained) = current_param_version * Required
  <2>1. local_trigger_step = 1 /\ Required = RequiredSamples
    BY RequiredType DEF TypeInv, Required
  <2>2. current_param_version * Required \in Nat
    BY RequiredType DEF TypeInv
  <2>3. (local_trigger_step - 1) * RequiredSamples = 0
    BY <2>1, RequiredType
  <2> QED
    BY <2>1, <2>2, <2>3 DEF CountInv, VersionCountsSamples
<1>2. CASE Rollout \/ Takes \/ QueueEnds \/ NoSave \/ UNCHANGED vars
  <2>1. UNCHANGED <<trained, current_param_version, local_trigger_step, saved, tracker>>
    BY <1>2 DEF Rollout, Feed, FeedEnds, Start, ProcessorRaises, Displace, GenerationFails, Drop,
                Takes, Take, QueueEnds, NoSave, vars
  <2> QED
    BY <2>1 DEF CountInv, VersionCountsSamples
<1>3. CASE TrainStep
  <2>1. Cardinality(trained') = Cardinality(trained) + RequiredSamples
    <3>1. /\ position \in Nat /\ trained \in SUBSET (1 .. position)
          /\ batch \in SUBSET (1 .. position) /\ trained \cap batch = {}
      BY Fed DEF TypeInv, NoPromptTwice
    <3>2. Cardinality(trained \cup batch) = Cardinality(trained) + Cardinality(batch)
      BY <3>1, Together
    <3> QED
      BY <1>3, <3>2 DEF TrainStep, Full
  <2>2. local_trigger_step' = 1 /\ current_param_version' = current_param_version + 1
    BY <1>1, <1>3 DEF TrainStep
  <2>3. current_param_version' * Required = current_param_version * Required + RequiredSamples
    BY <1>1, <2>2, Successor, RequiredType DEF TypeInv
  <2>4. (local_trigger_step' - 1) * RequiredSamples = 0
    BY <2>2, RequiredType
  <2>5. VersionCountsSamples'
    BY <1>1, <2>1, <2>3, <2>4, RequiredType DEF VersionCountsSamples
  <2>6. UNCHANGED <<saved, tracker>>
    BY <1>3 DEF TrainStep
  <2> QED
    BY <2>5, <2>6 DEF CountInv
<1>4. CASE SaveWeights \/ SaveDataloader
  <2>1. current_param_version # tracker /\ current_param_version \in 1 .. MaxVersion
    <3>1. current_param_version # tracker /\ tracker <= current_param_version
      BY <1>4 DEF SaveWeights, SaveDue, SaveDataloader, Saving, BoundInv
    <3> QED
      BY <1>0, <3>1
  <2>2. tracker # NoTracker => saved'[tracker] = saved[tracker]
    BY <1>0, <1>4, <2>1 DEF SaveWeights, SaveDataloader
  <2>3. UNCHANGED <<trained, current_param_version, local_trigger_step, tracker>>
    BY <1>4 DEF SaveWeights, SaveDataloader
  <2> QED
    BY <2>2, <2>3 DEF CountInv, VersionCountsSamples
<1>5. CASE SaveTracker
  <2>1. /\ tracker' = current_param_version
        /\ UNCHANGED <<trained, current_param_version, local_trigger_step, saved>>
    BY <1>5 DEF SaveTracker
  <2>2. saved[current_param_version].trained = trained
    BY <1>5 DEF SaveTracker, SavedInv, Saving
  <2> QED
    BY <1>1, <2>1, <2>2 DEF CountInv, VersionCountsSamples
<1>6. CASE Restart
  <2>1. /\ trained' = IF tracker = NoTracker THEN {} ELSE saved[tracker].trained
        /\ current_param_version' = tracker /\ local_trigger_step' = 1
        /\ UNCHANGED <<saved, tracker>>
    BY <1>6 DEF Restart
  <2>2. Cardinality(trained') = tracker * Required
    <3>1. CASE tracker = NoTracker
      <4>1. Cardinality(trained') = 0
        BY <2>1, <3>1, FS_EmptySet
      <4> QED
        BY <3>1, <4>1, RequiredType DEF NoTracker
    <3>2. CASE tracker # NoTracker
      BY <2>1, <3>2 DEF CountInv
    <3> QED
      BY <3>1, <3>2
  <2>3. (local_trigger_step' - 1) * RequiredSamples = 0 /\ tracker * Required \in Nat
    BY <1>0, <2>1, RequiredType
  <2>4. VersionCountsSamples'
    BY <2>1, <2>2, <2>3 DEF VersionCountsSamples
  <2> QED
    BY <2>1, <2>4 DEF CountInv
<1> QED
  BY <1>2, <1>3, <1>4, <1>5, <1>6 DEF Next, Fit, Takes

-----------------------------------------------------------------------------
\* The theorems.

\* The invariant of checkpoint, crash and resumption: types, the bound on versions, what
\* the folders of save_checkpoint hold, what the pipeline can hold, and what is lost.
THEOREM ResumeInv ==
  Spec => [](TypeInv /\ BoundInv /\ SavedInv /\ NoPromptTwice /\ PipeInv /\ LossInv)
<1> DEFINE Inv == TypeInv /\ BoundInv /\ SavedInv /\ NoPromptTwice /\ PipeInv /\ LossInv
<1>1. Init => Inv
  <2>1. Init => NoPromptTwice
    BY DEF Init, NoPromptTwice
  <2> QED
    BY <2>1, TypeInit, BoundInit, SavedInit, PipeInit, LossInit
<1>2. Inv /\ [Next]_vars => Inv'
  <2> SUFFICES ASSUME Inv, [Next]_vars PROVE Inv'
    OBVIOUS
  <2>1. TypeInv'
    BY TypeStep
  <2> QED
    BY <2>1, BoundStep, SavedStep, TwiceStep, PipeStep, LossStep
<1> QED
  BY <1>1, <1>2, PTL DEF Spec

\* However often the program crashes between any two steps of _save_checkpoint, and
\* whatever the pipeline holds then, load_checkpoint never resumes the data loader behind
\* the weights: no prompt of a pass is trained on twice.
THEOREM PromptsOnce == Spec => []NoPromptTwice
BY ResumeInv, PTL

\* "directly saving the state of the dataloader will result in losing these samples", and
\* besides those displaced from a full MessageQueue or failed no others: every crash loses at
\* most what pending_queue, the throttle and a batch can hold, for every size of them; the
\* end of the stream loses less than a batch, and after a failure what the pipeline holds.
THEOREM LossesBounded == Spec => []OnlyInFlightLost
<1>1. LossInv => OnlyInFlightLost
  <2>1. StreamOver <=> pc \in Ending
    BY DEF StreamOver, Ending
  <2> QED
    BY <2>1 DEF LossInv, OnlyInFlightLost, Lost, Allowed, EndLoss
<1> QED
  BY <1>1, ResumeInv, PTL

\* Where each training step publishes a version (trigger_parameter_sync_step = 1), the
\* version a checkpoint is named for counts the samples of its weights, so that
\* load_checkpoint may compute global_steps from it.
THEOREM VersionsCount ==
  ASSUME TriggerParameterSyncStep = 1
  PROVE  Spec => []VersionCountsSamples
<1>1. Init => CountInv
  BY CountInit
<1>2. TypeInv /\ BoundInv /\ SavedInv /\ NoPromptTwice /\ CountInv /\ [Next]_vars => CountInv'
  BY CountStep
<1>3. CountInv => VersionCountsSamples
  BY DEF CountInv
<1> QED
  BY <1>1, <1>2, <1>3, ResumeInv, PTL DEF Spec

\* Both actors and the disk keep their types, whatever crashes: no version goes beyond the
\* folders of the model, and the data loader never passes the end of its last pass.
THEOREM ResumeTypeCorrect == Spec => []TypeOK
<1>1. Init => position <= lastPosition
  BY PassAhead DEF Init
<1>2. ASSUME TypeInv, BoundInv, position <= lastPosition, [Next]_vars
      PROVE  (position <= lastPosition)'
  <2> USE DEF TypeInv, rollVars, feedVars
  <2>1. CASE Feed
    BY <1>2, <2>1 DEF Feed
  <2>2. CASE Restart
    <3>1. position' \in Nat /\ lastPosition' = PassEnd(position')
      <4>1. tracker \in 0 .. MaxVersion
        BY <1>2, VersionBound
      <4>2. tracker # NoTracker => saved[tracker].position \in Nat
        BY <1>2, <4>1 DEF NoTracker, Folder
      <4> QED
        BY <2>2, <4>2 DEF Restart, PositionOf
    <3> QED
      BY <3>1, PassAhead
  <2>3. CASE FeedEnds \/ Start \/ ProcessorRaises \/ Drops \/ Takes \/ TrainStep \/ QueueEnds \/ NoSave \/ SaveWeights \/ SaveDataloader
             \/ SaveTracker \/ UNCHANGED vars
    BY <1>2, <2>3 DEF FeedEnds, Start, ProcessorRaises, Drops, Displace, GenerationFails, Drop,
                      Takes, Take, TrainStep, QueueEnds, NoSave, SaveWeights, SaveDataloader,
                      SaveTracker, vars
  <2> QED
    BY <1>2, <2>1, <2>2, <2>3 DEF Next, Rollout, Fit, Drops, Takes
<1>3. TypeInv /\ BoundInv /\ position <= lastPosition => TypeOK
  BY VersionBound DEF TypeInv, BoundInv, TypeOK, Pc
<1> QED
  BY <1>1, <1>2, <1>3, ResumeInv, PTL DEF Spec
=============================================================================
