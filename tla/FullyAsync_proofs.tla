------------------------- MODULE FullyAsync_proofs -------------------------
(***************************************************************************)
(* Theorems about the fully asynchronous pipeline, for every number of     *)
(* samples, batch size, staleness threshold and number of task slots, and  *)
(* whichever generations fail.                                             *)
(*                                                                         *)
(* The argument has layers.  TypeInv types the state.  HandInv says when   *)
(* the processor holds a sample and that every task that has not ended is  *)
(* in active.  CountInv bounds the outstanding samples by the staleness    *)
(* count, through the recount of reset_staleness.  FlowInv and EndInv say  *)
(* where a sample and the end signal can be, and TrainInv what version and *)
(* local step count; with them every step is one of SampleFlow.  SlotInv   *)
(* and SignalInv bound what is put behind the end signal, LossInv counts   *)
(* what the queue displaced, and WaitInv bounds a sample's wait.  MoveInv  *)
(* says who uses the lock, the event loop and the calls, so that nobody    *)
(* waits for somebody who waits for him, and RecountInv that the recount   *)
(* of reset_staleness does not starve the Trainer.                         *)
(***************************************************************************)
EXTENDS FullyAsync, FiniteSetTheorems, SequenceTheorems, TLAPS

\* The batch under way is never larger than a step needs, and what the processor
\* is about to dispatch is a sample.
TypeInv ==
  /\ TypeOK
  /\ trainPc # "step" => Len(batch) < RequiredSamples
  /\ procPc \in {"cap", "dispatch"} => held \in Samples

Unfinished == {"generating", "putting", "stored", "displaced"}

\* The processor holds a sample between taking it and creating its task, a task is
\* in active until it has ended, and a sleeping processor has reaped all its tasks.
HandInv ==
  /\ procPc \notin {"cap", "dispatch", "failed"} => held = EndSignal
  /\ \A s \in Samples : task[s] \in Unfinished => s \in active
  /\ procPc \in {"idle", "asleep"} => active = {}

\* The staleness count misses at most the sample in hand; while reset_staleness
\* recounts, it holds the lock and its sum covers every started task and queued
\* sample; a processor that passed the pause test finds room for one more sample.
CountInv ==
  /\ Outstanding <= staleness_samples + 1
  /\ Outstanding <= MaxRequiredSamples + 1
  /\ procPc = "take" => Outstanding <= MaxRequiredSamples
  /\ resetPc \in {"query", "reply"} => lock = "reset"
  /\ resetPc = "query" => Cardinality(Unput) <= resetCount
  /\ resetPc = "reply" => Cardinality(Unput \cup Queued) <= resetCount

-----------------------------------------------------------------------------
\* The configuration.

\* A product of positive numbers is at least each of them.
LEMMA ProductAtLeast ==
  ASSUME NEW m \in Nat \ {0}, NEW n \in Nat \ {0}
  PROVE  m * n \in Nat /\ m * n >= n
<1>1. (m - 1) * n \in Nat /\ m * n = (m - 1) * n + n
  OBVIOUS
<1> QED
  BY <1>1

\* The budget of the rollouter, int() included, is at least one sample.
LEMMA MaxRequiredType == MaxRequiredSamples \in Nat \ {0}
<1> DEFINE F == 100 + StalenessPct
           P == RequiredSamples * F
<1>1. F \in Nat \ {0} /\ F >= 100
  BY ConfigAssumption
<1>2. P \in Nat /\ P >= 100
  <2> HIDE DEF F
  <2> QED
    BY <1>1, ProductAtLeast, ConfigAssumption
<1>3. P * TriggerParameterSyncStep \in Nat /\ P * TriggerParameterSyncStep >= 100
  <2> HIDE DEF P
  <2>1. TriggerParameterSyncStep * P \in Nat /\ TriggerParameterSyncStep * P >= 100
    BY <1>2, ProductAtLeast, ConfigAssumption
  <2>2. TriggerParameterSyncStep * P = P * TriggerParameterSyncStep
    BY <1>2, ConfigAssumption
  <2> QED
    BY <2>1, <2>2
<1> QED
  <2> DEFINE Q == P * TriggerParameterSyncStep
  <2>1. MaxRequiredSamples = Q \div 100
    BY DEF MaxRequiredSamples
  <2> HIDE DEF Q
  <2> QED
    BY <1>3, <2>1 DEF Q

\* The samples are finitely many positive numbers, and the end signal is none of them.
LEMMA SamplesFinite ==
  /\ Samples \subseteq Nat \ {0}
  /\ EndSignal \notin Samples
  /\ \A S \in SUBSET Samples : IsFiniteSet(S) /\ Cardinality(S) \in Nat
<1>1. IsFiniteSet(Samples)
  BY ConfigAssumption, FS_Interval DEF Samples
<1>2. ASSUME NEW S \in SUBSET Samples
      PROVE  IsFiniteSet(S) /\ Cardinality(S) \in Nat
  BY <1>1, FS_Subset, FS_CardinalityType
<1> QED
  BY <1>2, ConfigAssumption DEF Samples, EndSignal

-----------------------------------------------------------------------------
\* Layer 1: types.

\* A put leaves a queue of items and takes none but the oldest away.
LEMMA PutType ==
  ASSUME NEW i \in Items, queue \in Seq(Items), MQ!PutSample(i),
         total_produced \in Nat, dropped_samples \in Nat,
         getter \in [{"trainer"} -> MQ!GetterState]
  PROVE  /\ queue' \in Seq(Items)
         /\ total_produced' \in Nat /\ dropped_samples' \in Nat
         /\ total_consumed' = total_consumed
         /\ getter' \in [{"trainer"} -> MQ!GetterState]
<1>1. CASE MQ!Full
  <2>1. queue # <<>>
    BY <1>1, MaxRequiredType, EmptySeq DEF MQ!Full
  <2> QED
    BY <1>1, <2>1, HeadTailProperties, AppendProperties
       DEF MQ!PutSample, MQ!NotifyAll, MQ!GetterState
<1>2. CASE ~MQ!Full
  BY <1>2, AppendProperties DEF MQ!PutSample, MQ!NotifyAll, MQ!GetterState
<1> QED
  BY <1>1, <1>2

\* Taking the head of a queue of items.
LEMMA TailType ==
  ASSUME NEW q \in Seq(Items), q # <<>>
  PROVE  Head(q) \in Items /\ Tail(q) \in Seq(Items)
BY HeadTailProperties

\* What a queue carries is a sample or the None that ends the stream.
LEMMA ItemsType == Items = Samples \cup {EndSignal} /\ EndSignal = 0
BY DEF Items, EndSignal

\* self.lock: handing it over and joining its line keep the types.
LEMMA LockType ==
  ASSUME lock \in {"free"} \cup LockUsers, lockQueue \in Seq(LockUsers)
  PROVE  /\ Release => lock' \in {"free"} \cup LockUsers /\ lockQueue' \in Seq(LockUsers)
         /\ \A c \in LockUsers : JoinLine(c) => lockQueue' \in Seq(LockUsers)
<1>1. ASSUME Release
      PROVE  lock' \in {"free"} \cup LockUsers /\ lockQueue' \in Seq(LockUsers)
  BY <1>1, HeadTailProperties DEF Release
<1>2. ASSUME NEW c \in LockUsers, JoinLine(c)
      PROVE  lockQueue' \in Seq(LockUsers)
  BY <1>2, AppendProperties DEF JoinLine
<1> QED
  BY <1>1, <1>2

\* __init__ of the three actors leaves well-typed state.
LEMMA TypeInit == Init => TypeInv
<1> SUFFICES ASSUME Init PROVE TypeInv
  OBVIOUS
<1>1. /\ <<>> \in Seq(Items) /\ <<>> \in Seq(Samples) /\ <<>> \in Seq(LockUsers)
      /\ Len(<<>>) = 0
  BY EmptySeq
<1>2. RolloutTypeOK
  <2>1. 1 \in Samples
    BY ConfigAssumption DEF Samples
  <2>2. /\ task \in [Samples -> TaskState]
        /\ queuedAt \in [Samples -> Nat]
    BY DEF Init, RolloutInit, TaskState
  <2>3. paused \in BOOLEAN /\ r_running \in BOOLEAN
    BY DEF Init, RolloutInit
  <2> QED
    BY <1>1, <2>1, <2>2, <2>3, ItemsType
       DEF Init, RolloutInit, RolloutTypeOK, ProcPc, ReapLoops, LockUsers
<1>3. TrainTypeOK /\ Len(batch) < RequiredSamples
  BY <1>1, ConfigAssumption DEF Init, TrainInit, TrainTypeOK, TrainPc
<1>4. /\ queue \in Seq(Items)
      /\ total_produced \in Nat /\ total_consumed \in Nat /\ dropped_samples \in Nat
      /\ getter \in [{"trainer"} -> MQ!GetterState]
      /\ resetPc \in ResetPc /\ server_version \in Nat
      /\ driverPc \in {"run", "done"}
  BY <1>1 DEF Init, ChannelInit, MQ!Init, MQ!GetterState, ResetPc
<1>5. procPc = "top"
  BY DEF Init, RolloutInit
<1> QED
  BY <1>2, <1>3, <1>4, <1>5 DEF TypeInv, TypeOK

\* _feed_samples keeps the types: global_steps never exceeds total_rollout_steps.
LEMMA TypeFeeder ==
  ASSUME TypeInv, Rollout(Feeder)
  PROVE  TypeInv'
<1> USE DEF TypeInv, TypeOK, RolloutTypeOK, TrainTypeOK
<1>1. /\ pending' \in Seq(Items)
      /\ global_steps' \in Samples
      /\ feedPc' \in {"feed", "end", "done", "cancelled"}
      /\ eventLoop' \in {"free", "feeder", "processor"}
  <2>1. CASE FeedSample
    BY <2>1, ItemsType, AppendProperties, ConfigAssumption
       DEF Rollout, Feeder, FeedSample, Samples
  <2>2. CASE FeedEnd
    BY <2>2, ItemsType, AppendProperties DEF Rollout, Feeder, FeedEnd
  <2> QED
    BY <2>1, <2>2 DEF Rollout, Feeder
<1> QED
  BY <1>1 DEF Rollout, Feeder, procVars, putVars, lockVars, lifeVars, mqVars, trainVars

\* What the Processor leaves alone stays typed; the rest is shown per step.
LEMMA TypeProcessor ==
  ASSUME TypeInv, Rollout(Processor)
  PROVE  TypeInv'
<1> USE DEF TypeInv, TypeOK, RolloutTypeOK, TrainTypeOK
<1> DEFINE Typed ==
       /\ pending \in Seq(Items)
       /\ procPc \in ProcPc
       /\ held \in Items
       /\ procPc \in {"cap", "dispatch"} => held \in Samples
       /\ active \subseteq Samples
       /\ staleness_samples \in Nat
       /\ task \in [Samples -> TaskState]
       /\ paused \in BOOLEAN
       /\ lock \in {"free"} \cup LockUsers
       /\ lockQueue \in Seq(LockUsers)
<1>1. Typed'
  <2>1. CASE LoopTop
    BY <2>1 DEF LoopTop, ProcPc, lockVars
  <2>2. CASE SetPaused
    <3>1. lock' \in {"free"} \cup LockUsers /\ lockQueue' \in Seq(LockUsers)
      BY <2>2, LockType DEF SetPaused
    <3>2. paused' \in BOOLEAN
      BY <2>2 DEF SetPaused
    <3> QED
      BY <2>2, <3>1, <3>2 DEF SetPaused, ProcPc, ReapLoops
  <2>3. CASE AcquireToReap
    BY <2>3 DEF AcquireToReap, procVars, LockUsers
  <2>4. CASE Reap
    <3>1. lock' \in {"free"} \cup LockUsers /\ lockQueue' \in Seq(LockUsers)
      BY <2>4, LockType DEF Reap
    <3> QED
      BY <2>4, <3>1 DEF Reap, ProcPc
  <2>5. CASE LeaveReapLoop
    BY <2>5 DEF LeaveReapLoop, ReapLoops, ProcPc, lockVars
  <2>6. CASE WaitUnpaused
    <3>1. lock' \in {"free"} \cup LockUsers /\ lockQueue' \in Seq(LockUsers)
      BY <2>6, LockType DEF WaitUnpaused
    <3> QED
      BY <2>6, <3>1 DEF WaitUnpaused, ProcPc
  <2>7. CASE TakePending
    BY <2>7, TailType, ItemsType DEF TakePending, ProcPc, ReapLoops, lockVars
  <2>8. CASE Dispatch
    <3>1. lock' \in {"free"} \cup LockUsers /\ lockQueue' \in Seq(LockUsers)
      BY <2>8, LockType DEF Dispatch
    <3> QED
      BY <2>8, <3>1, ItemsType DEF Dispatch, ProcPc, TaskState
  <2>9. CASE ProcJoinsLine
    <3>1. lockQueue' \in Seq(LockUsers)
      BY <2>9, LockType DEF ProcJoinsLine, LockUsers
    <3> QED
      BY <2>9, <3>1 DEF ProcJoinsLine, procVars
  <2> QED
    BY <2>1, <2>2, <2>3, <2>4, <2>5, <2>6, <2>7, <2>8, <2>9 DEF Rollout, Processor
<1>2. eventLoop' \in {"free", "feeder", "processor"}
  BY DEF Rollout, Processor
<1>3. r_running' \in BOOLEAN
  BY DEF Rollout, Processor, lifeVars
<1> HIDE DEF Typed
<1> QED
  BY <1>1, <1>2, <1>3
     DEF Typed, Rollout, Processor, feedVars, putVars, lifeVars, mqVars, trainVars

\* _process_single_sample_streaming keeps the types, whatever the queue drops.
LEMMA TypeTask ==
  ASSUME TypeInv, NEW s \in Samples, Rollout(TaskStep(s))
  PROVE  TypeInv'
<1> USE DEF TypeInv, TypeOK, RolloutTypeOK, TrainTypeOK
<1>1. /\ task' \in [Samples -> TaskState]
      /\ queuedAt' \in [Samples -> Nat]
      /\ total_generated_samples' \in Nat /\ dropped_stale_samples' \in Nat
      /\ queue' \in Seq(Items)
      /\ total_produced' \in Nat /\ total_consumed' \in Nat /\ dropped_samples' \in Nat
      /\ getter' \in [{"trainer"} -> MQ!GetterState]
  <2>1. CASE Generated(s) \/ GenerationFails(s)
    BY <2>1 DEF Generated, GenerationFails, TaskState, putVars, mqVars
  <2>2. CASE PutArrives(s)
    <3>1. s \in Items
      BY ItemsType
    <3>2. MQ!PutSample(s)
      BY <2>2 DEF PutArrives
    <3> QED
      BY <2>2, <3>1, <3>2, PutType DEF PutArrives, TaskState
  <2>3. CASE PutReturned(s)
    BY <2>3 DEF PutReturned, TaskState, mqVars
  <2> QED
    BY <2>1, <2>2, <2>3 DEF Rollout, TaskStep
<1>2. paused' \in BOOLEAN /\ r_running' \in BOOLEAN
  BY DEF Rollout, TaskStep, lifeVars
<1> QED
  BY <1>1, <1>2
     DEF Rollout, TaskStep, feedVars, procVars, lockVars, lifeVars, trainVars

\* reset_staleness keeps the types.
LEMMA TypeReset ==
  ASSUME TypeInv, Rollout(ResetStaleness)
  PROVE  TypeInv'
<1> USE DEF TypeInv, TypeOK, RolloutTypeOK, TrainTypeOK
<1>1. /\ procPc' \in ProcPc
      /\ procPc' \in {"cap", "dispatch"} => procPc \in {"cap", "dispatch"}
      /\ staleness_samples' \in Nat
      /\ resetCount' \in Nat
      /\ resetPc' \in ResetPc
      /\ lock' \in {"free"} \cup LockUsers
      /\ lockQueue' \in Seq(LockUsers)
  <2>1. CASE ResetAcquire
    BY <2>1, SamplesFinite
       DEF ResetAcquire, NotifyAll, ProcPc, ResetPc, LockUsers
  <2>2. CASE ResetQuery
    <3>1. MQ!QueueSize \in Nat
      BY LenProperties DEF MQ!QueueSize
    <3> QED
      BY <2>2, <3>1 DEF ResetQuery, ResetPc, lockVars
  <2>3. CASE ResetAssign
    BY <2>3, LockType DEF ResetAssign, ResetPc
  <2>4. CASE ResetJoinsLine
    <3>1. lockQueue' \in Seq(LockUsers)
      BY <2>4, LockType DEF ResetJoinsLine, LockUsers
    <3> QED
      BY <2>4, <3>1 DEF ResetJoinsLine
  <2> QED
    BY <2>1, <2>2, <2>3, <2>4 DEF Rollout, ResetStaleness
<1>2. paused' \in BOOLEAN /\ r_running' \in BOOLEAN
  BY DEF Rollout, ResetStaleness, ResetAcquire, ResetQuery, ResetAssign, ResetJoinsLine,
         lifeVars
<1> QED
  BY <1>1, <1>2
     DEF Rollout, ResetStaleness, feedVars, putVars, lifeVars, mqVars, trainVars

\* _async_monitor_loop keeps the types.
LEMMA TypeMonitor ==
  ASSUME TypeInv, Rollout(Monitor)
  PROVE  TypeInv'
<1> USE DEF TypeInv, TypeOK, RolloutTypeOK, TrainTypeOK
<1>1. /\ procPc' \in ProcPc
      /\ procPc' \in {"cap", "dispatch"} => procPc \in {"cap", "dispatch"}
      /\ monPc' \in {"check", "sleep", "wake", "done"}
      /\ lock' \in {"free"} \cup LockUsers
      /\ lockQueue' \in Seq(LockUsers)
  <2>1. CASE MonitorCheck
    BY <2>1, LockType DEF MonitorCheck
  <2>2. CASE MonitorTest
    BY <2>2 DEF MonitorTest, lockVars
  <2>3. CASE MonitorWake
    BY <2>3, LockType DEF MonitorWake, NotifyAll, ProcPc
  <2>4. CASE MonitorJoinsLine
    <3>1. lockQueue' \in Seq(LockUsers)
      BY <2>4, LockType DEF MonitorJoinsLine, LockUsers
    <3> QED
      BY <2>4, <3>1 DEF MonitorJoinsLine
  <2> QED
    BY <2>1, <2>2, <2>3, <2>4 DEF Rollout, Monitor
<1>2. paused' \in BOOLEAN /\ r_running' \in BOOLEAN
  BY DEF Rollout, Monitor, MonitorCheck, MonitorTest, MonitorWake, MonitorJoinsLine
<1> QED
  BY <1>1, <1>2 DEF Rollout, Monitor, feedVars, putVars, mqVars, trainVars

\* _streaming_generation_main keeps the types.
LEMMA TypeMain ==
  ASSUME TypeInv, Rollout(Main)
  PROVE  TypeInv'
<1> USE DEF TypeInv, TypeOK, RolloutTypeOK, TrainTypeOK
<1>1. /\ feedPc' \in {"feed", "end", "done", "cancelled"}
      /\ mainPc' \in {"await", "sendEnd", "sendEndThenRaise", "stop", "done", "raised"}
      /\ lock' \in {"free"} \cup LockUsers
      /\ lockQueue' \in Seq(LockUsers)
      /\ queue' \in Seq(Items)
      /\ total_produced' \in Nat /\ total_consumed' \in Nat /\ dropped_samples' \in Nat
      /\ getter' \in [{"trainer"} -> MQ!GetterState]
  <2>1. CASE MainFail \/ MainComplete
    BY <2>1 DEF MainFail, MainComplete, lockVars, mqVars
  <2>2. CASE SendEndSignal
    BY <2>2, PutType, ItemsType DEF SendEndSignal, lockVars
  <2>3. CASE ClearRunning
    BY <2>3, LockType DEF ClearRunning, mqVars
  <2>4. CASE MainJoinsLine
    <3>1. lockQueue' \in Seq(LockUsers)
      BY <2>4, LockType DEF MainJoinsLine, LockUsers
    <3> QED
      BY <2>4, <3>1 DEF MainJoinsLine, mqVars
  <2> QED
    BY <2>1, <2>2, <2>3, <2>4 DEF Rollout, Main
<1>2. paused' \in BOOLEAN /\ r_running' \in BOOLEAN
  BY DEF Rollout, Main, MainFail, MainComplete, SendEndSignal, ClearRunning, MainJoinsLine
<1> QED
  BY <1>1, <1>2 DEF Rollout, Main, procVars, putVars, trainVars

\* The trainer keeps the types: the batch is full only while it is trained on.
LEMMA TypeTrain ==
  ASSUME TypeInv, Train(TrainNext)
  PROVE  TypeInv'
<1> USE DEF TypeInv, TypeOK, RolloutTypeOK, TrainTypeOK
<1> DEFINE Typed ==
       /\ trainPc \in TrainPc
       /\ batch \in Seq(Samples) /\ Len(batch) <= RequiredSamples
       /\ trainPc # "step" => Len(batch) < RequiredSamples
       /\ trained \subseteq Samples
       /\ local_trigger_step \in 1 .. TriggerParameterSyncStep
       /\ current_param_version \in Nat
       /\ last_ckpt_version \in Nat
       /\ queue \in Seq(Items)
       /\ total_produced \in Nat /\ total_consumed \in Nat /\ dropped_samples \in Nat
       /\ getter \in [{"trainer"} -> MQ!GetterState]
       /\ resetPc \in ResetPc
       /\ server_version \in Nat
<1>1. <<>> \in Seq(Samples) /\ Len(<<>>) = 0
  BY EmptySeq
<1>2. Len(batch) \in Nat
  BY LenProperties
<1>3. RequiredSamples \in Nat \ {0} /\ TriggerParameterSyncStep \in Nat \ {0}
  BY ConfigAssumption
<1>4. Typed'
  <2>1. CASE TakeSample
    <3>1. /\ queue' \in Seq(Items)
          /\ Head(queue) \in Items
          /\ total_produced' \in Nat /\ total_consumed' \in Nat /\ dropped_samples' \in Nat
          /\ getter' \in [{"trainer"} -> MQ!GetterState]
      BY <2>1, TailType DEF TakeSample, MQ!GetSample, MQ!GetterState
    <3>2. CASE Head(queue) = EndSignal
      BY <2>1, <3>1, <3>2, <1>1, <1>3 DEF TakeSample, TrainPc
    <3>3. CASE Head(queue) # EndSignal
      <4>1. Head(queue) \in Samples
        BY <3>1, <3>3, ItemsType
      <4>2. /\ batch' = Append(batch, Head(queue))
            /\ trainPc' = IF Len(batch) + 1 < RequiredSamples THEN "collect" ELSE "step"
            /\ trainPc = "collect"
        BY <2>1, <3>3 DEF TakeSample
      <4>3. batch' \in Seq(Samples) /\ Len(batch') = Len(batch) + 1
        BY <4>1, <4>2, AppendProperties
      <4> QED
        BY <2>1, <3>1, <4>2, <4>3, <1>2, <1>3 DEF TakeSample, TrainPc
    <3> QED
      BY <3>2, <3>3
  <2>2. CASE WaitSample
    BY <2>2 DEF WaitSample, MQ!GetWait, MQ!GetterState, MQ!counters, trainVars
  <2>3. CASE TrainStep
    <3>1. {batch[i] : i \in DOMAIN batch} \subseteq Samples
      BY LenProperties
    <3>2. trained' \subseteq Samples /\ batch' = <<>>
      BY <2>3, <3>1 DEF TrainStep
    <3>3. /\ local_trigger_step' \in 1 .. TriggerParameterSyncStep
          /\ current_param_version' \in Nat
          /\ trainPc' \in TrainPc
      BY <2>3, <1>3 DEF TrainStep, TrainPc
    <3> QED
      BY <2>3, <3>2, <3>3, <1>1, <1>3 DEF TrainStep, mqVars
  <2>4. CASE UpdateWeights \/ ResetReturns
    BY <2>4 DEF UpdateWeights, ResetReturns, TrainPc, ResetPc, mqVars
  <2>5. CASE FitSaveCheckpoint
    <3>1. last_ckpt_version' \in Nat
      BY <2>5 DEF FitSaveCheckpoint
    <3> QED
      BY <2>5, <3>1 DEF FitSaveCheckpoint, TrainPc, mqVars
  <2>6. CASE AfterLoop
    BY <2>6 DEF AfterLoop, TrainPc, mqVars
  <2> QED
    BY <2>1, <2>2, <2>3, <2>4, <2>5, <2>6 DEF Train, TrainNext
<1>5. paused' \in BOOLEAN /\ r_running' \in BOOLEAN
  BY DEF Train, rolloutVars, lifeVars
<1> HIDE DEF Typed
<1> QED
  BY <1>4, <1>5
     DEF Typed, Train, rolloutVars, feedVars, procVars, putVars, lockVars, lifeVars

\* The driver's clear_queue keeps the types.
LEMMA TypeDriver ==
  ASSUME TypeInv, DriverEnds
  PROVE  TypeInv'
<1> USE DEF TypeInv, TypeOK, RolloutTypeOK, TrainTypeOK
<1>1. /\ queue' \in Seq(Items)
      /\ UNCHANGED <<total_produced, total_consumed, dropped_samples, getter>>
  BY EmptySeq DEF DriverEnds, MQ!ClearQueue, MQ!counters
<1>2. paused' \in BOOLEAN /\ r_running' \in BOOLEAN
  BY DEF DriverEnds, rolloutVars, lifeVars
<1> QED
  BY <1>1, <1>2
     DEF DriverEnds, rolloutVars, feedVars, procVars, putVars, lockVars, lifeVars, trainVars

\* A step of the pipeline is a step of one of its actors.
LEMMA StepCases ==
  ASSUME [Next]_vars
  PROVE  \/ Rollout(Feeder)
         \/ Rollout(Processor)
         \/ \E s \in Samples : Rollout(TaskStep(s))
         \/ Rollout(ResetStaleness)
         \/ Rollout(Monitor)
         \/ Rollout(Main)
         \/ Train(TrainNext)
         \/ DriverEnds
         \/ UNCHANGED vars
BY DEF Next, RolloutNext, Rollout, Train

\* Every step of the pipeline keeps the types.
LEMMA TypeStep ==
  ASSUME TypeInv, [Next]_vars
  PROVE  TypeInv'
<1>1. CASE UNCHANGED vars
  <2> USE <1>1 DEF TypeInv, TypeOK, RolloutTypeOK, TrainTypeOK, vars, rolloutVars,
          feedVars, procVars, putVars, lockVars, lifeVars, trainVars, mqVars
  <2>1. paused' \in BOOLEAN /\ r_running' \in BOOLEAN
    OBVIOUS
  <2> QED
    BY <2>1
<1> QED
  BY <1>1, StepCases, TypeFeeder, TypeProcessor, TypeTask, TypeReset, TypeMonitor,
     TypeMain, TypeTrain, TypeDriver

\* Type correctness of the whole pipeline, with the strengthening TypeInv.
LEMMA TypeInvariant == Spec => []TypeInv
BY TypeInit, TypeStep, PTL DEF Spec

\* TypeOK holds in every reachable state.
THEOREM PipelineTypeCorrect == Spec => []TypeOK
<1>1. TypeInv => TypeOK
  BY DEF TypeInv
<1> QED
  BY <1>1, TypeInvariant, PTL

-----------------------------------------------------------------------------
\* Layer 2: the sample in hand and the tasks that run.

\* At the start nothing is in hand and no task exists.
LEMMA HandInit == Init => HandInv
BY DEF Init, RolloutInit, HandInv, Unfinished

\* Who does not create or end tasks, and moves the processor at most from "asleep"
\* to "idle", preserves HandInv.
LEMMA HandFrame ==
  ASSUME HandInv,
         UNCHANGED <<held, active, task>>,
         procPc' = procPc \/ (procPc = "asleep" /\ procPc' = "idle")
  PROVE  HandInv'
BY DEF HandInv, Unfinished

\* _processor_worker: a task enters active when it is created and leaves it only
\* when it has ended; the drain loop ends with active empty.
LEMMA HandProcessor ==
  ASSUME TypeInv, HandInv, Rollout(Processor)
  PROVE  HandInv'
<1> USE DEF HandInv, Unfinished
<1>1. task \in [Samples -> TaskState] /\ active \subseteq Samples
  BY DEF TypeInv, TypeOK, RolloutTypeOK
<1>2. CASE LoopTop
  BY <1>2 DEF LoopTop
<1>3. CASE SetPaused
  BY <1>3 DEF SetPaused
<1>4. CASE AcquireToReap \/ ProcJoinsLine
  BY <1>4 DEF AcquireToReap, ProcJoinsLine, procVars
<1>5. CASE Reap
  BY <1>5 DEF Reap, Finished, ReapLoops
<1>6. CASE LeaveReapLoop
  <2>1. procPc = "drain" => active = {} /\ held = EndSignal
    BY <1>6 DEF LeaveReapLoop, KeepsReaping
  <2> QED
    BY <1>6, <2>1 DEF LeaveReapLoop, ReapLoops
<1>7. CASE WaitUnpaused
  BY <1>7 DEF WaitUnpaused
<1>8. CASE TakePending
  BY <1>8 DEF TakePending
<1>9. CASE Dispatch
  BY <1>1, <1>9 DEF Dispatch
<1> QED
  BY <1>2, <1>3, <1>4, <1>5, <1>6, <1>7, <1>8, <1>9 DEF Rollout, Processor

\* A task that goes on is in active: it was there before and its own steps do not
\* remove it.
LEMMA HandTask ==
  ASSUME TypeInv, HandInv, NEW s \in Samples, Rollout(TaskStep(s))
  PROVE  HandInv'
<1>1. task \in [Samples -> TaskState]
  BY DEF TypeInv, TypeOK, RolloutTypeOK
<1>2. UNCHANGED <<procPc, held, active>>
  BY DEF Rollout, TaskStep, procVars
<1>3. task[s] \in Unfinished
  BY DEF Rollout, TaskStep, Generated, GenerationFails, PutArrives, PutReturned, Unfinished
<1>4. \A t \in Samples : t # s => task'[t] = task[t]
  BY <1>1 DEF Rollout, TaskStep, Generated, GenerationFails, PutArrives, PutReturned
<1> QED
  BY <1>2, <1>3, <1>4 DEF HandInv

\* Every step of the pipeline keeps HandInv.
LEMMA HandStep ==
  ASSUME TypeInv, HandInv, [Next]_vars
  PROVE  HandInv'
<1>1. CASE \/ Rollout(Feeder)
           \/ Rollout(ResetStaleness)
           \/ Rollout(Monitor)
           \/ Rollout(Main)
           \/ Train(TrainNext)
           \/ DriverEnds
           \/ UNCHANGED vars
  <2>1. UNCHANGED <<held, active, task>>
    BY <1>1 DEF Rollout, Feeder, ResetStaleness, Monitor, Main, Train, DriverEnds, vars,
                rolloutVars, procVars
  <2>2. procPc' = procPc \/ (procPc = "asleep" /\ procPc' = "idle")
    <3>1. CASE Rollout(ResetStaleness)
      BY <3>1 DEF Rollout, ResetStaleness, ResetAcquire, ResetQuery, ResetAssign,
                  ResetJoinsLine, NotifyAll
    <3>2. CASE Rollout(Monitor)
      BY <3>2 DEF Rollout, Monitor, MonitorCheck, MonitorTest, MonitorWake,
                  MonitorJoinsLine, NotifyAll
    <3> QED
      BY <1>1, <3>1, <3>2 DEF Rollout, Feeder, Main, Train, DriverEnds, vars,
                              rolloutVars, procVars
  <2> QED
    BY <2>1, <2>2, HandFrame
<1> QED
  BY <1>1, StepCases, HandProcessor, HandTask

\* HandInv holds of every behaviour.
LEMMA HandInvariant == Spec => []HandInv
BY HandInit, HandStep, TypeInvariant, PTL DEF Spec

\* Line 445-459: a processor that waits to be woken has no task running and holds no
\* sample, whatever happened before.
THEOREM PausedIsDrained == Spec => []DrainedWhenPaused
<1>1. HandInv => DrainedWhenPaused
  BY DEF HandInv, DrainedWhenPaused, Unput, InHand, Unfinished
<1> QED
  BY <1>1, HandInvariant, PTL

-----------------------------------------------------------------------------
\* Layer 3: the staleness count.

OutstandingSet == InHand \cup Unput \cup Queued

\* The places of outstanding samples are sets of samples, and the counts are numbers.
LEMMA SetTypes ==
  ASSUME TypeInv
  PROVE  /\ InHand \in SUBSET Samples
         /\ Unput \in SUBSET Samples
         /\ Queued \in SUBSET Samples
         /\ Outstanding = Cardinality(OutstandingSet)
         /\ staleness_samples \in Nat
         /\ resetCount \in Nat
         /\ active \in SUBSET Samples
<1>1. held \in Items /\ queue \in Seq(Items)
  BY DEF TypeInv, TypeOK, RolloutTypeOK
<1>2. Queued \subseteq Samples
  BY <1>1, LenProperties, ItemsType DEF Queued, SamplesIn
<1> QED
  BY <1>1, <1>2, ItemsType
     DEF InHand, Unput, Outstanding, OutstandingSet, TypeInv, TypeOK, RolloutTypeOK

\* A set of samples has at least as many members as its subsets.
LEMMA CardSubset ==
  ASSUME NEW T \in SUBSET Samples, NEW S \in SUBSET T
  PROVE  /\ Cardinality(S) \in Nat /\ Cardinality(T) \in Nat
         /\ Cardinality(S) <= Cardinality(T)
BY SamplesFinite, FS_Subset

\* A union of sets of samples is no larger than the two together.
LEMMA CardUnion ==
  ASSUME NEW S \in SUBSET Samples, NEW T \in SUBSET Samples
  PROVE  /\ S \cup T \in SUBSET Samples
         /\ Cardinality(S \cup T) <= Cardinality(S) + Cardinality(T)
<1>1. IsFiniteSet(S) /\ IsFiniteSet(T) /\ S \cap T \in SUBSET Samples
  BY SamplesFinite
<1>2. Cardinality(S) \in Nat /\ Cardinality(T) \in Nat /\ Cardinality(S \cap T) \in Nat
  BY <1>1, SamplesFinite
<1>3. Cardinality(S \cup T) = Cardinality(S) + Cardinality(T) - Cardinality(S \cap T)
  BY <1>1, FS_Union
<1> QED
  BY <1>2, <1>3

\* The processor holds at most one sample.
LEMMA CardInHand ==
  ASSUME TypeInv
  PROVE  Cardinality(InHand) \in Nat /\ Cardinality(InHand) <= 1
<1>1. InHand = {} \/ InHand = {held}
  BY DEF InHand
<1>2. Cardinality({}) = 0 /\ Cardinality({held}) = 1
  BY FS_EmptySet, FS_Singleton
<1> QED
  BY <1>1, <1>2

\* A queue holds at most as many samples as it has entries.
LEMMA CardQueued ==
  ASSUME TypeInv
  PROVE  Cardinality(Queued) <= Len(queue)
<1> DEFINE all == {queue[i] : i \in DOMAIN queue}
<1>1. queue \in Seq(Items)
  BY DEF TypeInv, TypeOK
<1>2. Len(queue) \in Nat /\ DOMAIN queue = 1 .. Len(queue) /\ queue \in [1 .. Len(queue) -> Items]
  BY <1>1, LenProperties
<1>3. queue \in Surjection(1 .. Len(queue), all)
  BY <1>2 DEF Surjection
<1>4. IsFiniteSet(1 .. Len(queue)) /\ Cardinality(1 .. Len(queue)) = Len(queue)
  BY <1>2, FS_Interval
<1>5. IsFiniteSet(all) /\ Cardinality(all) <= Len(queue)
  BY <1>3, <1>4, FS_Surjection
<1>6. Queued \in SUBSET all
  BY DEF Queued, SamplesIn
<1>7. Cardinality(Queued) <= Cardinality(all)
  BY <1>5, <1>6, FS_Subset
<1>8. Cardinality(Queued) \in Nat /\ Cardinality(all) \in Nat
  BY <1>5, <1>6, FS_Subset, FS_CardinalityType
<1> QED
  BY <1>2, <1>5, <1>7, <1>8

\* get_sample adds no sample to the queue.
LEMMA QueuedAfterTake ==
  ASSUME TypeInv, queue # <<>>, queue' = Tail(queue)
  PROVE  Queued' \subseteq Queued
<1>1. queue \in Seq(Items)
  BY DEF TypeInv, TypeOK
<1>2. /\ Tail(queue) \in Seq(Items)
      /\ Len(Tail(queue)) = Len(queue) - 1
      /\ \A i \in 1 .. Len(Tail(queue)) : Tail(queue)[i] = queue[i + 1]
  BY <1>1, HeadTailProperties
<1>3. DOMAIN Tail(queue) = 1 .. Len(Tail(queue)) /\ DOMAIN queue = 1 .. Len(queue)
      /\ Len(queue) \in Nat
  BY <1>1, <1>2, LenProperties
<1>4. ASSUME NEW i \in DOMAIN Tail(queue)
      PROVE  i + 1 \in DOMAIN queue /\ Tail(queue)[i] = queue[i + 1]
  BY <1>2, <1>3
<1> QED
  BY <1>4 DEF Queued, SamplesIn

\* put_sample adds at most the sample it is called with.
LEMMA QueuedAfterPut ==
  ASSUME TypeInv, NEW s \in Items, MQ!PutSample(s)
  PROVE  Queued' \subseteq Queued \cup ({s} \ {EndSignal})
<1>1. queue \in Seq(Items)
  BY DEF TypeInv, TypeOK
<1> DEFINE q == IF MQ!Full THEN Tail(queue) ELSE queue
<1>2. q \in Seq(Items) /\ \A i \in DOMAIN q : \E j \in DOMAIN queue : q[i] = queue[j]
  <2>1. CASE MQ!Full
    <3>1. queue # <<>>
      BY <2>1, MaxRequiredType, EmptySeq DEF MQ!Full
    <3>2. /\ Tail(queue) \in Seq(Items)
          /\ Len(Tail(queue)) = Len(queue) - 1
          /\ \A i \in 1 .. Len(Tail(queue)) : Tail(queue)[i] = queue[i + 1]
      BY <1>1, <3>1, HeadTailProperties
    <3>3. DOMAIN Tail(queue) = 1 .. Len(Tail(queue)) /\ DOMAIN queue = 1 .. Len(queue)
          /\ Len(queue) \in Nat
      BY <1>1, <3>2, LenProperties
    <3>4. ASSUME NEW i \in DOMAIN Tail(queue)
          PROVE  i + 1 \in DOMAIN queue /\ Tail(queue)[i] = queue[i + 1]
      BY <3>2, <3>3
    <3> QED
      BY <2>1, <3>2, <3>4
  <2>2. CASE ~MQ!Full
    BY <1>1, <2>2
  <2> QED
    BY <2>1, <2>2
<1>3. queue' = Append(q, s)
  BY DEF MQ!PutSample
<1> HIDE DEF q
<1>4. /\ Append(q, s) \in Seq(Items)
      /\ Len(Append(q, s)) = Len(q) + 1
      /\ \A i \in 1 .. Len(q) : Append(q, s)[i] = q[i]
      /\ Append(q, s)[Len(q) + 1] = s
  BY <1>2, AppendProperties
<1>5. Len(q) \in Nat /\ DOMAIN q = 1 .. Len(q) /\ DOMAIN Append(q, s) = 1 .. Len(q) + 1
  <2>1. Len(q) \in Nat /\ DOMAIN q = 1 .. Len(q)
    BY <1>2, LenProperties
  <2>2. DOMAIN Append(q, s) = 1 .. Len(Append(q, s))
    BY <1>4, LenProperties
  <2> QED
    BY <2>1, <2>2, <1>4
<1>6. ASSUME NEW i \in DOMAIN Append(q, s)
      PROVE  \/ Append(q, s)[i] = s
             \/ \E j \in DOMAIN queue : Append(q, s)[i] = queue[j]
  <2>1. CASE i = Len(q) + 1
    BY <2>1, <1>4
  <2>2. CASE i # Len(q) + 1
    <3>1. i \in DOMAIN q /\ Append(q, s)[i] = q[i]
      BY <2>2, <1>4, <1>5
    <3> QED
      BY <3>1, <1>2
  <2> QED
    BY <2>1, <2>2
<1> QED
  BY <1>3, <1>6 DEF Queued, SamplesIn

\* At the start nothing is outstanding and the count is zero.
LEMMA CountInit == Init => CountInv
<1> SUFFICES ASSUME Init PROVE CountInv
  OBVIOUS
<1>1. /\ held = EndSignal /\ queue = <<>> /\ resetPc = "none" /\ procPc = "top"
      /\ staleness_samples = 0
      /\ \A s \in Samples : task[s] = "none"
  BY DEF Init, RolloutInit, ChannelInit, MQ!Init
<1>2. InHand = {} /\ Unput = {} /\ Queued = {}
  BY <1>1, EmptySeq DEF InHand, Unput, Queued, SamplesIn
<1>3. Outstanding = 0
  BY <1>2, FS_EmptySet DEF Outstanding
<1> QED
  BY <1>1, <1>3, MaxRequiredType DEF CountInv

\* A step that adds no outstanding sample and does not touch the recount.
LEMMA CountFrame ==
  ASSUME TypeInv, TypeInv', CountInv,
         OutstandingSet' \subseteq OutstandingSet,
         staleness_samples' = staleness_samples,
         procPc' = "take" => Outstanding <= MaxRequiredSamples,
         resetPc' \in {"query", "reply"} =>
            /\ resetPc' = resetPc /\ resetCount' = resetCount /\ lock' = "reset"
            /\ Unput' \subseteq Unput /\ Unput' \cup Queued' \subseteq Unput \cup Queued
  PROVE  CountInv'
<1>1. /\ Unput \in SUBSET Samples /\ Unput \cup Queued \in SUBSET Samples
      /\ OutstandingSet \in SUBSET Samples
      /\ Outstanding = Cardinality(OutstandingSet)
      /\ Outstanding' = Cardinality(OutstandingSet')
      /\ staleness_samples \in Nat /\ resetCount \in Nat
  <2>1. Outstanding' = Cardinality(OutstandingSet')
    BY DEF Outstanding, OutstandingSet
  <2> QED
    BY <2>1, SetTypes DEF OutstandingSet
<1>2. /\ Outstanding' \in Nat /\ Outstanding \in Nat /\ Outstanding' <= Outstanding
  BY <1>1, CardSubset
<1>3. ASSUME resetPc' = "query"
      PROVE  Cardinality(Unput') <= resetCount'
  <2>1. Unput' \in SUBSET Unput /\ Cardinality(Unput) <= resetCount
    BY <1>3 DEF CountInv
  <2>2. Cardinality(Unput') \in Nat /\ Cardinality(Unput) \in Nat
        /\ Cardinality(Unput') <= Cardinality(Unput)
    BY <1>1, <2>1, CardSubset
  <2> QED
    BY <1>1, <1>3, <2>1, <2>2
<1>4. ASSUME resetPc' = "reply"
      PROVE  Cardinality(Unput' \cup Queued') <= resetCount'
  <2> DEFINE S == Unput' \cup Queued'
             T == Unput \cup Queued
  <2>1. S \in SUBSET T /\ Cardinality(T) <= resetCount
    BY <1>4 DEF CountInv
  <2>2. T \in SUBSET Samples
    BY <1>1
  <2> HIDE DEF S, T
  <2>3. Cardinality(S) \in Nat /\ Cardinality(T) \in Nat /\ Cardinality(S) <= Cardinality(T)
    BY <2>1, <2>2, CardSubset
  <2>4. Cardinality(S) <= resetCount'
    BY <1>1, <1>4, <2>1, <2>3
  <2> QED
    BY <2>4 DEF S
<1> QED
  BY <1>1, <1>2, <1>3, <1>4, MaxRequiredType DEF CountInv

\* _processor_worker keeps CountInv: it takes a sample only after the pause test, and
\* counts it when it creates its task.
LEMMA CountProcessor ==
  ASSUME TypeInv, TypeInv', HandInv, CountInv, Rollout(Processor)
  PROVE  CountInv'
<1>1. UNCHANGED <<queue, resetPc, resetCount>>
  BY DEF Rollout, Processor, mqVars
<1>2. Queued' = Queued
  BY <1>1 DEF Queued, SamplesIn
<1>3. HasLock("processor") => resetPc \notin {"query", "reply"}
  BY DEF HasLock, CountInv
<1>4. CASE LoopTop
  <2>1. UNCHANGED <<held, task, staleness_samples, lock>>
    BY <1>4 DEF LoopTop, lockVars
  <2>2. Unput' = Unput /\ InHand' = InHand
    BY <2>1 DEF Unput, InHand
  <2>3. procPc' = "take" => Outstanding <= MaxRequiredSamples
    <3>1. ASSUME procPc' = "take"
          PROVE  ~(staleness_samples >= MaxRequiredSamples)
      BY <1>4, <3>1 DEF LoopTop, ShouldPause
    <3>2. Outstanding \in Nat
      BY SetTypes, SamplesFinite DEF OutstandingSet
    <3> QED
      BY <3>1, <3>2, SetTypes, MaxRequiredType DEF CountInv
  <2> QED
    BY <1>1, <1>2, <2>1, <2>2, <2>3, CountFrame DEF OutstandingSet, CountInv
<1>5. CASE SetPaused \/ AcquireToReap \/ Reap \/ LeaveReapLoop \/ WaitUnpaused \/ ProcJoinsLine
  <2>1. UNCHANGED <<held, task, staleness_samples>>
    BY <1>5 DEF SetPaused, AcquireToReap, Reap, LeaveReapLoop, WaitUnpaused,
                ProcJoinsLine, procVars
  <2>2. Unput' = Unput /\ InHand' = InHand
    BY <2>1 DEF Unput, InHand
  <2>3. procPc' = "take" => procPc = "take"
    BY <1>5 DEF SetPaused, AcquireToReap, Reap, LeaveReapLoop, WaitUnpaused,
                ProcJoinsLine, procVars, ReapLoops
  <2>4. lock = "reset" => lock' = "reset"
    BY <1>5 DEF SetPaused, AcquireToReap, Reap, LeaveReapLoop, WaitUnpaused,
                ProcJoinsLine, HasLock, lockVars
  <2> QED
    BY <1>1, <1>2, <2>1, <2>2, <2>3, <2>4, CountFrame DEF OutstandingSet, CountInv
<1>6. CASE Dispatch
  <2>1. held \in Samples /\ task \in [Samples -> TaskState]
    BY <1>6 DEF TypeInv, TypeOK, RolloutTypeOK, Dispatch
  <2>2. InHand = {held} /\ InHand' = {}
    BY <1>6, <2>1, SamplesFinite DEF Dispatch, InHand
  <2>3. Unput' \subseteq Unput \cup {held}
    BY <1>6, <2>1 DEF Dispatch, Unput
  <2>4. OutstandingSet' \subseteq OutstandingSet
    BY <1>2, <2>2, <2>3 DEF OutstandingSet
  <2>5. procPc' # "take" /\ staleness_samples' = staleness_samples
        /\ resetPc \notin {"query", "reply"}
    BY <1>3, <1>6 DEF Dispatch
  <2> QED
    BY <1>1, <2>4, <2>5, CountFrame
<1>7. CASE TakePending
  <2>1. /\ procPc = "take" /\ procPc' # "take"
        /\ staleness_samples' = staleness_samples + 1
        /\ UNCHANGED <<task, lock>>
    BY <1>7 DEF TakePending, lockVars
  <2>2. InHand = {}
    BY <2>1 DEF HandInv, InHand
  <2>3. Unput' = Unput
    BY <2>1 DEF Unput
  <2> DEFINE S == Unput \cup Queued
  <2>4. S \in SUBSET Samples /\ OutstandingSet = S /\ OutstandingSet' = InHand' \cup S
    BY <1>2, <2>2, <2>3, SetTypes DEF OutstandingSet
  <2>5. InHand' \in SUBSET Samples /\ Cardinality(InHand') \in Nat /\ Cardinality(InHand') <= 1
    <3>1. held' \in Items
      BY DEF TypeInv, TypeOK, RolloutTypeOK
    <3>2. InHand' \in SUBSET Samples /\ (InHand' = {} \/ InHand' = {held'})
      BY <3>1, ItemsType DEF InHand
    <3>3. Cardinality({}) = 0 /\ Cardinality({held'}) = 1
      BY FS_EmptySet, FS_Singleton
    <3> QED
      BY <3>2, <3>3
  <2>6. Outstanding = Cardinality(S) /\ Outstanding' = Cardinality(InHand' \cup S)
    <3>1. Outstanding' = Cardinality(OutstandingSet')
      BY DEF Outstanding, OutstandingSet
    <3> QED
      BY <2>4, <3>1, SetTypes
  <2> HIDE DEF S
  <2>7. Cardinality(S) \in Nat /\ Cardinality(InHand' \cup S) \in Nat
    BY <2>4, <2>5, SamplesFinite
  <2>8. Outstanding' <= Outstanding + 1
    BY <2>4, <2>5, <2>6, <2>7, CardUnion
  <2>9. /\ Outstanding' <= staleness_samples' + 1
        /\ Outstanding' <= MaxRequiredSamples + 1
    BY <2>1, <2>6, <2>7, <2>8, MaxRequiredType, SetTypes DEF CountInv
  <2> QED
    BY <1>1, <1>2, <2>1, <2>3, <2>9 DEF CountInv
<1> QED
  BY <1>4, <1>5, <1>6, <1>7 DEF Rollout, Processor

\* A task that goes on moves its sample from being generated into the queue, and so
\* makes neither the outstanding samples nor the sum of a recount larger.
LEMMA CountTask ==
  ASSUME TypeInv, TypeInv', HandInv, CountInv, NEW s \in Samples, Rollout(TaskStep(s))
  PROVE  CountInv'
<1>1. UNCHANGED <<held, procPc, staleness_samples, resetPc, resetCount, lock>>
  BY DEF Rollout, TaskStep, procVars, lockVars
<1>2. task \in [Samples -> TaskState]
  BY DEF TypeInv, TypeOK, RolloutTypeOK
<1>3. InHand' = InHand
  BY <1>1 DEF InHand
<1>4. Unput' \subseteq Unput /\ Unput' \cup Queued' \subseteq Unput \cup Queued
  <2>1. CASE Generated(s) \/ GenerationFails(s) \/ PutReturned(s)
    <3>1. queue' = queue
      BY <2>1 DEF Generated, GenerationFails, PutReturned, mqVars
    <3>2. Queued' = Queued
      BY <3>1 DEF Queued, SamplesIn
    <3>3. Unput' \subseteq Unput
      BY <1>2, <2>1 DEF Generated, GenerationFails, PutReturned, Unput
    <3> QED
      BY <3>2, <3>3
  <2>2. CASE PutArrives(s)
    <3>1. s \in Unput /\ Unput' \subseteq Unput
      BY <1>2, <2>2 DEF PutArrives, Unput
    <3>2. Queued' \subseteq Queued \cup {s}
      <4>1. s \in Items /\ MQ!PutSample(s)
        BY <2>2, ItemsType DEF PutArrives
      <4> QED
        BY <4>1, QueuedAfterPut
    <3> QED
      BY <3>1, <3>2
  <2> QED
    BY <2>1, <2>2 DEF Rollout, TaskStep
<1>5. OutstandingSet' \subseteq OutstandingSet
  BY <1>3, <1>4 DEF OutstandingSet
<1> QED
  BY <1>1, <1>4, <1>5, CountFrame DEF CountInv

\* The recount: the tasks at the time of the call, then the queue, then the sum.
LEMMA CountReset ==
  ASSUME TypeInv, TypeInv', HandInv, CountInv, Rollout(ResetStaleness)
  PROVE  CountInv'
<1>1. UNCHANGED <<held, task, queue>>
  BY DEF Rollout, ResetStaleness, mqVars
<1>2. InHand' = InHand /\ Unput' = Unput /\ Queued' = Queued
  BY <1>1 DEF InHand, Unput, Queued, SamplesIn
<1>3. OutstandingSet' = OutstandingSet /\ Outstanding' = Outstanding
  BY <1>2 DEF OutstandingSet, Outstanding
<1>4. procPc' = "take" => procPc = "take"
  BY DEF Rollout, ResetStaleness, ResetAcquire, ResetQuery, ResetAssign, ResetJoinsLine,
         NotifyAll
<1>5. CASE ResetAcquire
  <2>1. Unput \in SUBSET active /\ active \in SUBSET Samples
    BY SetTypes DEF HandInv, Unput, Unfinished
  <2>2. Cardinality(Unput) <= Cardinality(active)
    BY <2>1, CardSubset
  <2> QED
    BY <1>2, <1>3, <1>4, <1>5, <2>2 DEF ResetAcquire, CountInv
<1>6. CASE ResetQuery
  <2>1. Cardinality(Unput \cup Queued) <= Cardinality(Unput) + Cardinality(Queued)
    BY SetTypes, CardUnion
  <2>2. Cardinality(Queued) <= Len(queue) /\ Len(queue) \in Nat
    BY CardQueued, LenProperties DEF TypeInv, TypeOK
  <2>3. /\ Cardinality(Unput) \in Nat /\ Cardinality(Queued) \in Nat
        /\ Cardinality(Unput \cup Queued) \in Nat
    BY SetTypes, SamplesFinite
  <2>4. Cardinality(Unput) <= resetCount /\ resetCount' = resetCount + Len(queue)
    BY <1>6 DEF ResetQuery, CountInv, MQ!QueueSize
  <2>5. Cardinality(Unput \cup Queued) <= resetCount'
    BY <2>1, <2>2, <2>3, <2>4, SetTypes
  <2> QED
    BY <1>2, <1>3, <1>4, <1>6, <2>5 DEF ResetQuery, CountInv, lockVars
<1>7. CASE ResetAssign
  <2> DEFINE S == Unput \cup Queued
  <2>1. S \in SUBSET Samples /\ OutstandingSet = InHand \cup S
    BY SetTypes DEF OutstandingSet
  <2>2. Cardinality(S) <= resetCount
    BY <1>7 DEF ResetAssign, CountInv
  <2> HIDE DEF S
  <2>3. Cardinality(InHand \cup S) <= Cardinality(InHand) + Cardinality(S)
    BY <2>1, SetTypes, CardUnion
  <2>4. /\ Cardinality(InHand) \in Nat /\ Cardinality(InHand) <= 1
        /\ Cardinality(S) \in Nat /\ Cardinality(InHand \cup S) \in Nat
    BY <2>1, SetTypes, SamplesFinite, CardInHand
  <2>5. Outstanding <= resetCount + 1
    BY <2>1, <2>2, <2>3, <2>4, SetTypes
  <2> QED
    BY <1>3, <1>4, <1>7, <2>5 DEF ResetAssign, CountInv
<1>8. CASE ResetJoinsLine
  BY <1>2, <1>3, <1>4, <1>8 DEF ResetJoinsLine, CountInv
<1> QED
  BY <1>5, <1>6, <1>7, <1>8 DEF Rollout, ResetStaleness

\* Every step of the pipeline keeps CountInv.
LEMMA CountStep ==
  ASSUME TypeInv, TypeInv', HandInv, CountInv, [Next]_vars
  PROVE  CountInv'
<1>1. CASE Rollout(Feeder) \/ Rollout(Monitor) \/ UNCHANGED vars
  <2>1. UNCHANGED <<held, task, queue, staleness_samples, resetPc, resetCount>>
    BY <1>1 DEF Rollout, Feeder, Monitor, vars, rolloutVars, procVars, mqVars
  <2>2. InHand' = InHand /\ Unput' = Unput /\ Queued' = Queued
    BY <2>1 DEF InHand, Unput, Queued, SamplesIn
  <2>3. procPc' = "take" => procPc = "take"
    BY <1>1 DEF Rollout, Feeder, Monitor, MonitorCheck, MonitorTest, MonitorWake,
                MonitorJoinsLine, NotifyAll, vars, rolloutVars, procVars
  <2>4. lock = "reset" => lock' = "reset"
    BY <1>1 DEF Rollout, Feeder, Monitor, MonitorCheck, MonitorTest, MonitorWake,
                MonitorJoinsLine, HasLock, vars, rolloutVars, lockVars
  <2> QED
    BY <2>1, <2>2, <2>3, <2>4, CountFrame DEF OutstandingSet, CountInv
<1>2. CASE Rollout(Main)
  <2>1. UNCHANGED <<held, task, procPc, staleness_samples, resetPc, resetCount>>
    BY <1>2 DEF Rollout, Main, procVars
  <2>2. InHand' = InHand /\ Unput' = Unput
    BY <2>1 DEF InHand, Unput
  <2>3. Queued' \subseteq Queued
    <3>1. CASE SendEndSignal
      <4>1. EndSignal \in Items /\ MQ!PutSample(EndSignal)
        BY <3>1, ItemsType DEF SendEndSignal
      <4>2. Queued' \subseteq Queued \cup ({EndSignal} \ {EndSignal})
        BY <4>1, QueuedAfterPut
      <4> QED
        BY <4>2
    <3>2. CASE ~SendEndSignal
      <4>1. queue' = queue
        BY <1>2, <3>2 DEF Rollout, Main, MainFail, MainComplete, ClearRunning,
                          MainJoinsLine, mqVars
      <4> QED
        BY <4>1 DEF Queued, SamplesIn
    <3> QED
      BY <3>1, <3>2
  <2>4. lock = "reset" => lock' = "reset"
    BY <1>2 DEF Rollout, Main, MainFail, MainComplete, SendEndSignal, ClearRunning,
                MainJoinsLine, HasLock, lockVars
  <2> QED
    BY <2>1, <2>2, <2>3, <2>4, CountFrame DEF OutstandingSet, CountInv
<1>3. CASE Train(TrainNext) \/ DriverEnds
  <2>1. UNCHANGED <<held, task, procPc, staleness_samples, resetCount, lock>>
    BY <1>3 DEF Train, DriverEnds, rolloutVars, procVars, lockVars
  <2>2. InHand' = InHand /\ Unput' = Unput
    BY <2>1 DEF InHand, Unput
  <2>3. Queued' \subseteq Queued
    <3>1. CASE TakeSample
      <4>1. queue # <<>> /\ queue' = Tail(queue)
        BY <3>1 DEF TakeSample, MQ!GetSample
      <4> QED
        BY <4>1, QueuedAfterTake
    <3>2. CASE DriverEnds
      <4>1. queue' = <<>>
        BY <3>2 DEF DriverEnds, MQ!ClearQueue
      <4>2. Queued' = {}
        BY <4>1, EmptySeq DEF Queued, SamplesIn
      <4> QED
        BY <4>2
    <3>3. CASE Train(TrainNext) /\ ~TakeSample
      <4>1. queue' = queue
        BY <3>3 DEF Train, TrainNext, WaitSample, MQ!GetWait, TrainStep, UpdateWeights,
                    ResetReturns, FitSaveCheckpoint, AfterLoop, mqVars
      <4> QED
        BY <4>1 DEF Queued, SamplesIn
    <3> QED
      BY <1>3, <3>1, <3>2, <3>3
  <2>4. resetPc' \in {"query", "reply"} => resetPc' = resetPc
    BY <1>3 DEF Train, TrainNext, TakeSample, WaitSample, TrainStep, UpdateWeights,
                ResetReturns, FitSaveCheckpoint, AfterLoop, DriverEnds
  <2> QED
    BY <2>1, <2>2, <2>3, <2>4, CountFrame DEF OutstandingSet, CountInv
<1> QED
  BY <1>1, <1>2, <1>3, StepCases, CountProcessor, CountTask, CountReset

\* CountInv holds of every behaviour.
LEMMA CountInvariant == Spec => []CountInv
<1>1. TypeInv /\ HandInv /\ CountInv /\ TypeInv' /\ [Next]_vars => CountInv'
  BY CountStep
<1> QED
  BY <1>1, CountInit, TypeInvariant, HandInvariant, PTL DEF Spec

\* _should_pause_generation and reset_staleness: staleness_samples never misses more
\* than one of the samples that are in flight or queued.
THEOREM StalenessIsCounted == Spec => []StalenessCounted
<1>1. CountInv => StalenessCounted
  BY DEF CountInv, StalenessCounted
<1> QED
  BY <1>1, CountInvariant, PTL

\* The budget of max_required_samples is exceeded by at most one sample, for every
\* staleness threshold, batch size, number of servers and pattern of failures.
THEOREM BudgetOverrunByOne == Spec => []OverrunByOne
<1>1. CountInv => OverrunByOne
  BY DEF CountInv, OverrunByOne
<1> QED
  BY <1>1, CountInvariant, PTL

-----------------------------------------------------------------------------
\* Layer 4: where a sample is.

Entries(q) == {q[i] : i \in DOMAIN q}
Once(q) == \A i, j \in DOMAIN q : q[i] = q[j] => i = j

\* One by one a sample is fed, pending, in hand, a task, queued, in the batch, trained on.
StageInv(s) ==
  /\ feedPc = "feed" /\ s >= global_steps =>
       s \notin Entries(pending) /\ s # held /\ task[s] = "none"
  /\ s \in Entries(pending) \/ s = held => task[s] = "none"
  /\ s \notin Entries(pending) \/ s # held
  /\ s \in Entries(queue) \/ s \in Entries(batch) \/ s \in trained =>
       task[s] \in {"stored", "displaced", "done"}
  /\ s \in Entries(queue) => s \notin Entries(batch) /\ s \notin trained
  /\ s \in Entries(batch) => s \notin trained
FlowInv ==
  /\ Once(pending) /\ Once(queue) /\ Once(batch)
  /\ EndSignal \in Entries(pending) => feedPc = "done"
  /\ EndSignal \in Entries(queue) => mainPc \in {"stop", "done", "raised"}
  /\ \A s \in Samples : StageInv(s)

\* The end signal comes last in pending_queue, and, unless a generation failed, in the
\* MessageQueue; the processor that has taken it has nothing to do any more.
EndInv ==
  /\ \A i \in DOMAIN pending : pending[i] = EndSignal => i = Len(pending)
  /\ \A i \in DOMAIN queue : queue[i] = EndSignal => i = Len(queue) \/ mainPc = "raised"
  /\ procPc \in {"end", "done"} => pending = <<>> /\ feedPc = "done"
  /\ procPc = "done" => active = {}
  /\ mainPc \in {"sendEnd", "stop", "done"} => procPc = "done"

\* A put at the end.
LEMMA EntriesAppended ==
  ASSUME NEW S, NEW q \in Seq(S), NEW x \in S
  PROVE  /\ Append(q, x) \in Seq(S) /\ Entries(Append(q, x)) = Entries(q) \cup {x}
         /\ Once(q) /\ x \notin Entries(q) => Once(Append(q, x))
         /\ \A i \in DOMAIN Append(q, x) :
              (i = Len(Append(q, x)) /\ Append(q, x)[i] = x) \/ (i \in DOMAIN q /\ Append(q, x)[i] = q[i])
<1> DEFINE n == Len(q)
           t == Append(q, x)
<1>1. n \in Nat /\ DOMAIN q = 1 .. n
  BY LenProperties
<1>2. /\ t \in Seq(S) /\ Len(t) = n + 1 /\ DOMAIN t = 1 .. n + 1 /\ t[n + 1] = x
      /\ \A i \in 1 .. n : t[i] = q[i]
  BY AppendProperties, LenProperties
<1>3. \A i \in 1 .. n + 1 : i = n + 1 \/ i \in 1 .. n
  BY <1>1
<1>4. n + 1 \in 1 .. n + 1 /\ \A i \in 1 .. n : i \in 1 .. n + 1
  BY <1>1
<1> HIDE DEF n, t
<1>5. Entries(t) = Entries(q) \cup {x}
  BY <1>1, <1>2, <1>3, <1>4 DEF Entries
<1>6. ASSUME Once(q), x \notin Entries(q) PROVE Once(t)
  <2>1. \A i \in 1 .. n : q[i] # x
    BY <1>1, <1>6 DEF Entries
  <2> QED
    BY <1>1, <1>2, <1>3, <1>6, <2>1 DEF Once
<1> QED
  BY <1>1, <1>2, <1>3, <1>5, <1>6 DEF t

\* A take at the front.
LEMMA EntriesTaken ==
  ASSUME NEW S, NEW q \in Seq(S), q # <<>>
  PROVE  /\ Tail(q) \in Seq(S) /\ Head(q) \in Entries(q) /\ Entries(Tail(q)) \subseteq Entries(q)
         /\ Once(q) => Once(Tail(q)) /\ Head(q) \notin Entries(Tail(q))
         /\ \A i \in DOMAIN Tail(q) :
              /\ i + 1 \in DOMAIN q /\ Tail(q)[i] = q[i + 1]
              /\ i + 1 = Len(q) => i = Len(Tail(q))
         /\ Head(q) = q[1] /\ 1 \in DOMAIN q /\ (Len(q) = 1 => Tail(q) = <<>>)
<1> DEFINE n == Len(q)
           t == Tail(q)
<1>1. n \in Nat /\ DOMAIN q = 1 .. n /\ n # 0
  BY LenProperties, EmptySeq
<1>2. /\ t \in Seq(S) /\ Len(t) = n - 1 /\ Head(q) = q[1]
      /\ \A i \in 1 .. n - 1 : t[i] = q[i + 1]
  BY HeadTailProperties
<1>3. DOMAIN t = 1 .. n - 1 /\ (n = 1 => t = <<>>)
  <2>1. t \in Seq(S) /\ Len(t) = n - 1
    BY <1>2
  <2> HIDE DEF n, t
  <2>2. DOMAIN t = 1 .. n - 1
    BY <2>1, LenProperties
  <2>3. ASSUME n = 1 PROVE t = <<>>
    <3>1. Len(t) = 0
      BY <2>1, <2>3
    <3> QED
      BY <2>1, <3>1, EmptySeq
  <2> QED
    BY <2>2, <2>3
<1>4. 1 \in 1 .. n /\ \A i \in 1 .. n - 1 : i + 1 \in 1 .. n /\ i + 1 # 1 /\ (i + 1 = n => i = n - 1)
  <2>1. n \in Nat /\ n # 0
    BY <1>1
  <2> HIDE DEF n
  <2> QED
    BY <2>1
<1>5. \A i, j \in 1 .. n - 1 : i + 1 = j + 1 => i = j
  BY <1>1
<1> HIDE DEF n, t
<1>6. Head(q) \in Entries(q) /\ Entries(t) \subseteq Entries(q)
  BY <1>1, <1>2, <1>3, <1>4 DEF Entries
<1>7. ASSUME Once(q) PROVE Once(t) /\ Head(q) \notin Entries(t)
  <2>1. Once(t)
    <3> SUFFICES ASSUME NEW i \in 1 .. n - 1, NEW j \in 1 .. n - 1, t[i] = t[j]
                 PROVE  i = j
      BY <1>3 DEF Once
    <3>1. q[i + 1] = q[j + 1] /\ i + 1 \in 1 .. n /\ j + 1 \in 1 .. n
      BY <1>2, <1>4
    <3>2. i + 1 = j + 1
      BY <1>1, <1>7, <3>1 DEF Once
    <3> QED
      BY <1>5, <3>2
  <2>2. \A i \in 1 .. n - 1 : t[i] # q[1]
    BY <1>1, <1>2, <1>4, <1>7 DEF Once
  <2> QED
    BY <1>2, <1>3, <2>1, <2>2 DEF Entries
<1> QED
  BY <1>1, <1>2, <1>3, <1>4, <1>6, <1>7 DEF t, n

\* What put_sample leaves of the queue, before it appends.
LEMMA QueuePut ==
  ASSUME TypeInv, NEW x \in Items, MQ!PutSample(x)
  PROVE  /\ Entries(queue') \subseteq Entries(queue) \cup {x}
         /\ Once(queue) /\ x \notin Entries(queue) => Once(queue')
         /\ \A i \in DOMAIN queue' : queue'[i] = EndSignal =>
              \/ i = Len(queue') /\ x = EndSignal
              \/ \E j \in DOMAIN queue : queue[j] = EndSignal
<1> DEFINE q == IF MQ!Full THEN Tail(queue) ELSE queue
<1>1. queue \in Seq(Items) /\ queue' = Append(q, x)
  BY DEF TypeInv, TypeOK, MQ!PutSample
<1>2. /\ q \in Seq(Items) /\ Entries(q) \subseteq Entries(queue) /\ (Once(queue) => Once(q))
      /\ \A i \in DOMAIN q : q[i] \in Entries(queue)
  <2>1. CASE MQ!Full
    <3>1. queue # <<>>
      BY <2>1, MaxRequiredType, EmptySeq DEF MQ!Full
    <3>2. q = Tail(queue)
      BY <2>1
    <3>3. Tail(queue) \in Seq(Items) /\ Entries(Tail(queue)) \subseteq Entries(queue)
          /\ (Once(queue) => Once(Tail(queue)))
      BY <1>1, <3>1, EntriesTaken
    <3> QED
      BY <3>2, <3>3 DEF Entries
  <2>2. CASE ~MQ!Full
    BY <1>1, <2>2 DEF Entries
  <2> QED
    BY <2>1, <2>2
<1> HIDE DEF q
<1>3. /\ Entries(queue') = Entries(q) \cup {x}
      /\ Once(q) /\ x \notin Entries(q) => Once(queue')
      /\ \A i \in DOMAIN queue' :
           (i = Len(queue') /\ queue'[i] = x) \/ (i \in DOMAIN q /\ queue'[i] = q[i])
  BY <1>1, <1>2, EntriesAppended
<1>4. \A e \in Entries(queue) : \E j \in DOMAIN queue : queue[j] = e
  BY DEF Entries
<1> QED
  BY <1>2, <1>3, <1>4

\* At the start nothing is anywhere.
LEMMA FlowInit == Init => FlowInv /\ EndInv
<1> SUFFICES ASSUME Init PROVE FlowInv /\ EndInv
  OBVIOUS
<1>1. /\ pending = <<>> /\ queue = <<>> /\ batch = <<>> /\ trained = {} /\ held = EndSignal
      /\ procPc = "top" /\ mainPc = "await"
      /\ \A s \in Samples : task[s] = "none"
  BY DEF Init, RolloutInit, TrainInit, ChannelInit, MQ!Init
<1>2. Entries(<<>>) = {} /\ Once(<<>>) /\ \A i \in DOMAIN <<>> : FALSE
  BY EmptySeq DEF Entries, Once
<1>3. ASSUME NEW s \in Samples PROVE StageInv(s)
  BY <1>1, <1>2, SamplesFinite DEF StageInv
<1> QED
  BY <1>1, <1>2, <1>3 DEF FlowInv, EndInv

Ended == {"stop", "done", "raised"}

\* A step that moves no sample.
LEMMA FlowFrame ==
  ASSUME FlowInv, UNCHANGED <<pending, held, task, queue, batch, trained, global_steps>>,
         feedPc' = "feed" => feedPc = "feed", feedPc = "done" => feedPc' = "done",
         mainPc \in Ended => mainPc' \in Ended
  PROVE  FlowInv'
<1>1. ASSUME NEW s \in Samples PROVE StageInv(s)'
  BY DEF FlowInv, StageInv
<1> QED
  BY <1>1 DEF FlowInv, Ended

\* _feed_samples puts global_steps, which it has not put before.
LEMMA FlowFeeder ==
  ASSUME TypeInv, FlowInv, Rollout(Feeder)
  PROVE  FlowInv'
<1>1. UNCHANGED <<held, task, queue, batch, trained, mainPc>>
  BY DEF Rollout, Feeder, procVars, lifeVars, mqVars, trainVars
<1>2. pending \in Seq(Items) /\ global_steps \in Samples /\ global_steps \in Nat
  BY SamplesFinite DEF TypeInv, TypeOK, RolloutTypeOK
<1>3. CASE FeedSample
  <2>1. /\ feedPc = "feed" /\ pending' = Append(pending, global_steps) /\ feedPc' # "done"
        /\ feedPc' = "feed" => global_steps' = global_steps + 1
    BY <1>3 DEF FeedSample
  <2>2. StageInv(global_steps) /\ global_steps >= global_steps
    BY <1>2 DEF FlowInv
  <2>3. /\ global_steps \notin Entries(pending) /\ global_steps # held
        /\ task[global_steps] = "none"
    BY <2>1, <2>2 DEF StageInv
  <2>4. Entries(pending') = Entries(pending) \cup {global_steps} /\ Once(pending')
    BY <1>2, <2>1, <2>3, EntriesAppended, ItemsType DEF FlowInv
  <2>5. EndSignal \notin Entries(pending')
    BY <1>2, <2>1, <2>4, SamplesFinite DEF FlowInv
  <2>6. ASSUME NEW s \in Samples PROVE StageInv(s)'
    <3>1. s \in Nat
      BY SamplesFinite
    <3>2. feedPc' = "feed" /\ s >= global_steps' => s # global_steps /\ s >= global_steps
      BY <1>2, <2>1, <3>1
    <3>3. StageInv(s)
      BY DEF FlowInv
    <3> QED
      BY <1>1, <2>1, <2>3, <2>4, <3>2, <3>3 DEF StageInv
  <2> QED
    BY <1>1, <2>4, <2>5, <2>6 DEF FlowInv
<1>4. CASE FeedEnd
  <2>1. /\ feedPc = "end" /\ pending' = Append(pending, EndSignal) /\ feedPc' = "done"
    BY <1>4 DEF FeedEnd
  <2>2. Entries(pending') = Entries(pending) \cup {EndSignal} /\ Once(pending')
    BY <1>2, <2>1, EntriesAppended, ItemsType DEF FlowInv
  <2>3. ASSUME NEW s \in Samples PROVE StageInv(s)'
    <3>1. StageInv(s) /\ s # EndSignal
      BY SamplesFinite DEF FlowInv
    <3> QED
      BY <1>1, <2>1, <2>2, <3>1 DEF StageInv
  <2> QED
    BY <1>1, <2>1, <2>2, <2>3 DEF FlowInv
<1> QED
  BY <1>3, <1>4 DEF Rollout, Feeder

\* _processor_worker takes the first pending sample in hand and makes a task of it.
LEMMA FlowProcessor ==
  ASSUME TypeInv, HandInv, FlowInv, Rollout(Processor)
  PROVE  FlowInv'
<1>1. UNCHANGED <<feedPc, global_steps, queue, batch, trained, mainPc>>
  BY DEF Rollout, Processor, feedVars, lifeVars, mqVars, trainVars
<1>2. CASE TakePending
  <2> DEFINE h == Head(pending)
             t == Tail(pending)
  <2>1. /\ procPc = "take" /\ pending # <<>> /\ pending' = t /\ held' = h /\ task' = task
    BY <1>2 DEF TakePending
  <2>2. held = EndSignal
    BY <2>1 DEF HandInv
  <2>3. pending \in Seq(Items)
    BY DEF TypeInv, TypeOK, RolloutTypeOK
  <2>4. /\ h \in Entries(pending) /\ Entries(t) \subseteq Entries(pending)
        /\ Once(t) /\ h \notin Entries(t)
    BY <2>1, <2>3, EntriesTaken DEF FlowInv
  <2> HIDE DEF h, t
  <2>5. ASSUME NEW s \in Samples PROVE StageInv(s)'
    <3>1. StageInv(s)
      BY DEF FlowInv
    <3> QED
      BY <1>1, <2>1, <2>4, <3>1 DEF StageInv
  <2> QED
    BY <1>1, <2>1, <2>4, <2>5 DEF FlowInv
<1>3. CASE Dispatch
  <2>1. held \in Samples /\ task \in [Samples -> TaskState]
    BY <1>3 DEF TypeInv, TypeOK, RolloutTypeOK, Dispatch
  <2>2. /\ pending' = pending /\ held' = EndSignal
        /\ task' = [task EXCEPT ![held] = "generating"]
    BY <1>3 DEF Dispatch
  <2>3. StageInv(held)
    BY <2>1 DEF FlowInv
  <2>4. ASSUME NEW s \in Samples PROVE StageInv(s)'
    <3>1. StageInv(s) /\ s # EndSignal
      BY SamplesFinite DEF FlowInv
    <3>2. CASE s = held
      <4>1. task'[s] = "generating" /\ s # held'
        BY <2>1, <2>2, <3>1, <3>2
      <4> QED
        BY <1>1, <2>2, <3>1, <3>2, <4>1 DEF StageInv
    <3>3. CASE s # held
      <4>1. task'[s] = task[s] /\ s # held'
        BY <2>1, <2>2, <3>1, <3>3
      <4> QED
        BY <1>1, <2>2, <3>1, <3>3, <4>1 DEF StageInv
    <3> QED
      BY <3>2, <3>3
  <2> QED
    BY <1>1, <2>2, <2>4 DEF FlowInv
<1>4. CASE LoopTop \/ SetPaused \/ AcquireToReap \/ Reap \/ LeaveReapLoop \/ WaitUnpaused
           \/ ProcJoinsLine
  <2>1. UNCHANGED <<pending, held, task>>
    BY <1>4 DEF LoopTop, SetPaused, AcquireToReap, Reap, LeaveReapLoop, WaitUnpaused,
                ProcJoinsLine, procVars
  <2> QED
    BY <1>1, <2>1, FlowFrame
<1> QED
  BY <1>2, <1>3, <1>4 DEF Rollout, Processor

\* A task puts its sample once, and only then does the sample count as queued.
LEMMA FlowTask ==
  ASSUME TypeInv, FlowInv, NEW s \in Samples, Rollout(TaskStep(s))
  PROVE  FlowInv'
<1>1. UNCHANGED <<feedPc, global_steps, pending, held, batch, trained, mainPc>>
  BY DEF Rollout, TaskStep, feedVars, procVars, lifeVars, trainVars
<1>2. task \in [Samples -> TaskState] /\ s # EndSignal /\ s \in Items
  BY SamplesFinite, ItemsType DEF TypeInv, TypeOK, RolloutTypeOK
<1> DEFINE After == {"stored", "displaced", "done"}
<1>3. /\ task[s] # "none" /\ task'[s] # "none" /\ (task[s] \in After => task'[s] \in After)
      /\ \A r \in Samples : r # s => task'[r] = task[r]
      /\ \/ queue' = queue
         \/ task[s] = "putting" /\ task'[s] \in After /\ MQ!PutSample(s)
  <2>1. CASE Generated(s)
    BY <1>2, <2>1 DEF Generated, mqVars
  <2>2. CASE GenerationFails(s)
    BY <1>2, <2>2 DEF GenerationFails, mqVars
  <2>3. CASE PutArrives(s)
    BY <1>2, <2>3 DEF PutArrives
  <2>4. CASE PutReturned(s)
    BY <1>2, <2>4 DEF PutReturned, mqVars
  <2> QED
    BY <2>1, <2>2, <2>3, <2>4 DEF Rollout, TaskStep
<1>4. StageInv(s)
  BY DEF FlowInv
<1>5. /\ Once(queue') /\ Entries(queue') \subseteq Entries(queue) \cup {s}
      /\ s \in Entries(queue') /\ s \notin Entries(queue) =>
            task[s] = "putting" /\ task'[s] \in After
  <2>1. CASE queue' = queue
    BY <2>1 DEF FlowInv
  <2>2. CASE queue' # queue
    <3>1. task[s] = "putting" /\ task'[s] \in After /\ MQ!PutSample(s)
      BY <1>3, <2>2
    <3>2. s \notin Entries(queue)
      BY <1>4, <3>1 DEF StageInv
    <3>3. Entries(queue') \subseteq Entries(queue) \cup {s} /\ (Once(queue) => Once(queue'))
      BY <1>2, <3>1, <3>2, QueuePut
    <3> QED
      BY <3>1, <3>3 DEF FlowInv
  <2> QED
    BY <2>1, <2>2
<1>6. ASSUME NEW r \in Samples PROVE StageInv(r)'
  <2>1. StageInv(r)
    BY DEF FlowInv
  <2>2. CASE r = s
    BY <1>1, <1>3, <1>4, <1>5, <2>2 DEF StageInv
  <2>3. CASE r # s
    <3>1. task'[r] = task[r] /\ (r \in Entries(queue') => r \in Entries(queue))
      BY <1>3, <1>5, <2>3
    <3> QED
      BY <1>1, <2>1, <3>1 DEF StageInv
  <2> QED
    BY <2>2, <2>3
<1> QED
  BY <1>1, <1>2, <1>5, <1>6 DEF FlowInv

\* The end signal is put once.
LEMMA FlowMain ==
  ASSUME TypeInv, FlowInv, Rollout(Main)
  PROVE  FlowInv'
<1>1. UNCHANGED <<global_steps, pending, held, task, batch, trained>>
  BY DEF Rollout, Main, procVars, trainVars
<1>2. CASE SendEndSignal
  <2>1. /\ mainPc \notin Ended /\ mainPc' \in Ended /\ feedPc' = feedPc
        /\ MQ!PutSample(EndSignal) /\ EndSignal \in Items
    BY <1>2, ItemsType DEF SendEndSignal, Ended
  <2>2. EndSignal \notin Entries(queue)
    BY <2>1 DEF FlowInv, Ended
  <2>3. Once(queue') /\ Entries(queue') \subseteq Entries(queue) \cup {EndSignal}
    BY <2>1, <2>2, QueuePut DEF FlowInv
  <2>4. ASSUME NEW s \in Samples PROVE StageInv(s)'
    <3>1. StageInv(s) /\ s # EndSignal
      BY SamplesFinite DEF FlowInv
    <3> QED
      BY <1>1, <2>1, <2>3, <3>1 DEF StageInv
  <2> QED
    BY <1>1, <2>1, <2>3, <2>4 DEF FlowInv, Ended
<1>3. CASE MainFail \/ MainComplete \/ ClearRunning \/ MainJoinsLine
  <2>1. /\ queue' = queue /\ (feedPc' = "feed" => feedPc = "feed")
        /\ (feedPc = "done" => feedPc' = "done") /\ (mainPc \in Ended => mainPc' \in Ended)
    BY <1>3 DEF MainFail, MainComplete, ClearRunning, MainJoinsLine, mqVars, Ended
  <2> QED
    BY <1>1, <2>1, FlowFrame
<1> QED
  BY <1>2, <1>3 DEF Rollout, Main

\* The trainer moves the head of the queue into the batch and the batch into the
\* trained samples; the driver empties the queue.
LEMMA FlowTrain ==
  ASSUME TypeInv, FlowInv, Train(TrainNext) \/ DriverEnds
  PROVE  FlowInv'
<1>1. UNCHANGED <<feedPc, global_steps, pending, held, task, mainPc>>
  BY DEF Train, DriverEnds, rolloutVars, feedVars, procVars, lifeVars
<1>2. queue \in Seq(Items) /\ batch \in Seq(Samples)
  BY DEF TypeInv, TypeOK, TrainTypeOK
<1>3. Entries(<<>>) = {} /\ Once(<<>>)
  BY EmptySeq DEF Entries, Once
<1>4. CASE TakeSample
  <2> DEFINE h == Head(queue)
             t == Tail(queue)
  <2>1. /\ queue # <<>> /\ queue' = t /\ trained' = trained
        /\ (h = EndSignal /\ batch' = <<>>) \/ (h # EndSignal /\ batch' = Append(batch, h))
    BY <1>4 DEF TakeSample, MQ!GetSample
  <2>2. /\ h \in Entries(queue) /\ Entries(t) \subseteq Entries(queue)
        /\ Once(t) /\ h \notin Entries(t)
    BY <1>2, <2>1, EntriesTaken DEF FlowInv
  <2>3. h # EndSignal => h \in Samples
    BY <1>2, <2>1, TailType, ItemsType
  <2> HIDE DEF h, t
  <2>4. Once(batch') /\ Entries(batch') \subseteq Entries(batch) \cup {h}
    <3>1. CASE h = EndSignal
      BY <1>3, <2>1, <3>1
    <3>2. CASE h # EndSignal
      <4>1. StageInv(h) /\ h \in Samples
        BY <2>3, <3>2 DEF FlowInv
      <4>2. h \notin Entries(batch) /\ batch' = Append(batch, h)
        BY <2>1, <2>2, <3>2, <4>1 DEF StageInv
      <4> QED
        BY <1>2, <4>1, <4>2, EntriesAppended DEF FlowInv
    <3> QED
      BY <3>1, <3>2
  <2>5. ASSUME NEW s \in Samples PROVE StageInv(s)'
    <3>1. StageInv(s)
      BY DEF FlowInv
    <3> QED
      BY <1>1, <2>1, <2>2, <2>4, <3>1 DEF StageInv
  <2> QED
    BY <1>1, <2>1, <2>2, <2>4, <2>5 DEF FlowInv
<1>5. CASE TrainStep
  <2>1. queue' = queue /\ batch' = <<>> /\ trained' = trained \cup Entries(batch)
    BY <1>5 DEF TrainStep, mqVars, Entries
  <2>2. ASSUME NEW s \in Samples PROVE StageInv(s)'
    <3>1. StageInv(s)
      BY DEF FlowInv
    <3> QED
      BY <1>1, <1>3, <2>1, <3>1 DEF StageInv
  <2> QED
    BY <1>1, <1>3, <2>1, <2>2 DEF FlowInv
<1>6. CASE DriverEnds
  <2>1. queue' = <<>> /\ batch' = batch /\ trained' = trained
    BY <1>6 DEF DriverEnds, MQ!ClearQueue, trainVars
  <2>2. ASSUME NEW s \in Samples PROVE StageInv(s)'
    <3>1. StageInv(s)
      BY DEF FlowInv
    <3> QED
      BY <1>1, <1>3, <2>1, <3>1 DEF StageInv
  <2> QED
    BY <1>1, <1>3, <2>1, <2>2 DEF FlowInv
<1>7. CASE WaitSample \/ UpdateWeights \/ ResetReturns \/ FitSaveCheckpoint \/ AfterLoop
  <2>1. UNCHANGED <<queue, batch, trained>>
    BY <1>7 DEF WaitSample, UpdateWeights, ResetReturns, FitSaveCheckpoint, AfterLoop,
                MQ!GetWait, mqVars, trainVars
  <2> QED
    BY <1>1, <2>1, FlowFrame
<1> QED
  BY <1>4, <1>5, <1>6, <1>7 DEF Train, TrainNext

\* Every step of the pipeline keeps FlowInv.
LEMMA FlowStep ==
  ASSUME TypeInv, HandInv, FlowInv, [Next]_vars
  PROVE  FlowInv'
<1>1. CASE Rollout(ResetStaleness) \/ Rollout(Monitor) \/ UNCHANGED vars
  <2>1. UNCHANGED <<pending, held, task, queue, batch, trained, global_steps, feedPc, mainPc>>
    BY <1>1 DEF Rollout, ResetStaleness, Monitor, vars, rolloutVars, feedVars, procVars,
                lifeVars, mqVars, trainVars
  <2> QED
    BY <2>1, FlowFrame
<1> QED
  BY <1>1, StepCases, FlowFeeder, FlowProcessor, FlowTask, FlowMain, FlowTrain

\* A step that leaves the two queues and the processor's tasks alone.
LEMMA EndFrame ==
  ASSUME EndInv, UNCHANGED <<pending, queue, active>>,
         feedPc = "done" => feedPc' = "done",
         procPc = "done" => procPc' = "done",
         procPc' \in {"end", "done"} => procPc' = procPc,
         mainPc = "raised" => mainPc' = "raised",
         mainPc' \in {"sendEnd", "stop", "done"} => mainPc \in {"sendEnd", "stop", "done"}
  PROVE  EndInv'
BY DEF EndInv

\* _feed_samples puts the end signal last.
LEMMA EndFeeder ==
  ASSUME TypeInv, FlowInv, EndInv, Rollout(Feeder)
  PROVE  EndInv'
<1>1. UNCHANGED <<queue, active, procPc, mainPc>>
  BY DEF Rollout, Feeder, procVars, lifeVars, mqVars
<1>2. pending \in Seq(Items) /\ global_steps \in Items /\ global_steps # EndSignal
  BY SamplesFinite, ItemsType DEF TypeInv, TypeOK, RolloutTypeOK
<1>3. feedPc # "done" /\ \E x \in Items : pending' = Append(pending, x)
  BY <1>2, ItemsType DEF Rollout, Feeder, FeedSample, FeedEnd
<1>4. PICK x \in Items : pending' = Append(pending, x)
  BY <1>3
<1>5. \A i \in DOMAIN pending' :
        (i = Len(pending') /\ pending'[i] = x) \/ (i \in DOMAIN pending /\ pending'[i] = pending[i])
  BY <1>2, <1>4, EntriesAppended
<1>6. \A i \in DOMAIN pending : pending[i] # EndSignal
  BY <1>3 DEF FlowInv, Entries
<1> QED
  BY <1>1, <1>3, <1>5, <1>6 DEF EndInv

\* The processor that takes the end signal has taken everything, and is done once its
\* tasks have ended.
LEMMA EndProcessor ==
  ASSUME TypeInv, HandInv, FlowInv, EndInv, Rollout(Processor)
  PROVE  EndInv'
<1>1. UNCHANGED <<feedPc, queue, mainPc>>
  BY DEF Rollout, Processor, feedVars, lifeVars, mqVars
<1>2. CASE TakePending
  <2> DEFINE t == Tail(pending)
  <2>1. /\ procPc = "take" /\ pending # <<>> /\ pending' = t /\ active' = active
        /\ procPc' = IF Head(pending) = EndSignal THEN "end" ELSE "cap"
    BY <1>2 DEF TakePending
  <2>2. pending \in Seq(Items)
    BY DEF TypeInv, TypeOK, RolloutTypeOK
  <2>3. /\ Head(pending) \in Entries(pending)
        /\ \A i \in DOMAIN t : /\ i + 1 \in DOMAIN pending /\ t[i] = pending[i + 1]
                               /\ i + 1 = Len(pending) => i = Len(t)
        /\ Head(pending) = pending[1] /\ 1 \in DOMAIN pending /\ (Len(pending) = 1 => t = <<>>)
    BY <2>1, <2>2, EntriesTaken
  <2> HIDE DEF t
  <2>4. Head(pending) = EndSignal => t = <<>> /\ feedPc = "done"
    BY <2>3 DEF FlowInv, EndInv
  <2>5. \A i \in DOMAIN t : t[i] = EndSignal => i = Len(t)
    BY <2>3 DEF EndInv
  <2> QED
    BY <1>1, <2>1, <2>4, <2>5 DEF EndInv
<1>3. CASE LeaveReapLoop
  <2>1. /\ pending' = pending /\ active' = active /\ procPc' # "end" /\ procPc # "done"
        /\ procPc' = "done" => procPc = "end" /\ active = {}
    BY <1>3 DEF LeaveReapLoop, ReapLoops, KeepsReaping
  <2> QED
    BY <1>1, <2>1 DEF EndInv
<1>4. CASE Reap
  <2>1. /\ pending' = pending /\ procPc # "done" /\ procPc' # "done"
        /\ procPc' = "end" => procPc = "end"
    BY <1>4 DEF Reap, ReapLoops
  <2> QED
    BY <1>1, <2>1 DEF EndInv
<1>5. CASE Dispatch
  <2>1. pending' = pending /\ procPc = "dispatch" /\ procPc' = "top"
    BY <1>5 DEF Dispatch
  <2> QED
    BY <1>1, <2>1 DEF EndInv
<1>6. CASE LoopTop \/ SetPaused \/ AcquireToReap \/ WaitUnpaused \/ ProcJoinsLine
  <2>1. /\ UNCHANGED <<pending, active>> /\ (procPc = "done" => procPc' = "done")
        /\ procPc' \in {"end", "done"} => procPc' = procPc
    BY <1>6 DEF LoopTop, SetPaused, AcquireToReap, WaitUnpaused, ProcJoinsLine, procVars
  <2> QED
    BY <1>1, <2>1, EndFrame
<1> QED
  BY <1>2, <1>3, <1>4, <1>5, <1>6 DEF Rollout, Processor

\* When the end signal is queued without a failure, no task runs that could put a sample.
LEMMA EndTask ==
  ASSUME TypeInv, HandInv, FlowInv, EndInv, NEW s \in Samples, Rollout(TaskStep(s))
  PROVE  EndInv'
<1>1. UNCHANGED <<feedPc, pending, active, procPc, mainPc>>
  BY DEF Rollout, TaskStep, feedVars, procVars, lifeVars
<1>2. CASE PutArrives(s)
  <2>1. task[s] = "putting" /\ MQ!PutSample(s) /\ s \in Items /\ s # EndSignal
    BY <1>2, SamplesFinite, ItemsType DEF PutArrives
  <2>2. s \in active
    BY <2>1 DEF HandInv, Unfinished
  <2>3. \A i \in DOMAIN queue' : queue'[i] = EndSignal => \E j \in DOMAIN queue : queue[j] = EndSignal
    BY <2>1, QueuePut
  <2>4. (\E j \in DOMAIN queue : queue[j] = EndSignal) => mainPc = "raised"
    BY <2>2 DEF FlowInv, EndInv, Entries
  <2> QED
    BY <1>1, <2>3, <2>4 DEF EndInv
<1>3. CASE Generated(s) \/ GenerationFails(s) \/ PutReturned(s)
  <2>1. queue' = queue
    BY <1>3 DEF Generated, GenerationFails, PutReturned, mqVars
  <2> QED
    BY <1>1, <2>1, EndFrame
<1> QED
  BY <1>2, <1>3 DEF Rollout, TaskStep

\* _streaming_generation_main puts the end signal once the processor is done, or after
\* a failure.
LEMMA EndMain ==
  ASSUME TypeInv, FlowInv, EndInv, Rollout(Main)
  PROVE  EndInv'
<1>1. UNCHANGED <<pending, active, procPc>>
  BY DEF Rollout, Main, procVars
<1>2. CASE SendEndSignal
  <2>1. /\ MQ!PutSample(EndSignal) /\ EndSignal \in Items /\ feedPc' = feedPc
        /\ mainPc \in {"sendEnd", "sendEndThenRaise"}
        /\ mainPc' = IF mainPc = "sendEnd" THEN "stop" ELSE "raised"
    BY <1>2, ItemsType DEF SendEndSignal
  <2>2. ~\E j \in DOMAIN queue : queue[j] = EndSignal
    BY <2>1 DEF FlowInv, Entries
  <2>3. \A i \in DOMAIN queue' : queue'[i] = EndSignal => i = Len(queue')
    BY <2>1, <2>2, QueuePut
  <2> QED
    BY <1>1, <2>1, <2>3 DEF EndInv
<1>3. CASE MainFail \/ MainComplete \/ ClearRunning \/ MainJoinsLine
  <2>1. /\ queue' = queue /\ (feedPc = "done" => feedPc' = "done")
        /\ mainPc = "raised" => mainPc' = "raised"
        /\ mainPc' \in {"sendEnd", "stop", "done"} =>
             mainPc \in {"sendEnd", "stop", "done"} \/ procPc = "done"
    BY <1>3 DEF MainFail, MainComplete, ClearRunning, MainJoinsLine, mqVars
  <2> QED
    BY <1>1, <2>1 DEF EndInv
<1> QED
  BY <1>2, <1>3 DEF Rollout, Main

\* Who takes from the queue leaves its last entry the last.
LEMMA EndTrain ==
  ASSUME TypeInv, FlowInv, EndInv, Train(TrainNext) \/ DriverEnds
  PROVE  EndInv'
<1>1. UNCHANGED <<feedPc, pending, active, procPc, mainPc>>
  BY DEF Train, DriverEnds, rolloutVars, feedVars, procVars, lifeVars
<1>2. \A i \in DOMAIN queue' : queue'[i] = EndSignal => i = Len(queue') \/ mainPc = "raised"
  <2>1. CASE TakeSample
    <3>1. queue \in Seq(Items) /\ queue # <<>> /\ queue' = Tail(queue)
      BY <2>1 DEF TypeInv, TypeOK, TakeSample, MQ!GetSample
    <3>2. \A i \in DOMAIN queue' : /\ i + 1 \in DOMAIN queue /\ queue'[i] = queue[i + 1]
                                   /\ i + 1 = Len(queue) => i = Len(queue')
      BY <3>1, EntriesTaken
    <3> QED
      BY <3>2 DEF EndInv
  <2>2. CASE DriverEnds
    <3>1. queue' = <<>>
      BY <2>2 DEF DriverEnds, MQ!ClearQueue
    <3> QED
      BY <3>1, EmptySeq
  <2>3. CASE WaitSample \/ TrainStep \/ UpdateWeights \/ ResetReturns \/ FitSaveCheckpoint
             \/ AfterLoop
    <3>1. queue' = queue
      BY <2>3 DEF WaitSample, TrainStep, UpdateWeights, ResetReturns, FitSaveCheckpoint,
                  AfterLoop, MQ!GetWait, mqVars
    <3> QED
      BY <3>1 DEF EndInv
  <2> QED
    BY <2>1, <2>2, <2>3 DEF Train, TrainNext
<1> QED
  BY <1>1, <1>2 DEF EndInv

\* Every step of the pipeline keeps EndInv.
LEMMA EndStep ==
  ASSUME TypeInv, HandInv, FlowInv, EndInv, [Next]_vars
  PROVE  EndInv'
<1>1. CASE Rollout(ResetStaleness) \/ Rollout(Monitor) \/ UNCHANGED vars
  <2>1. /\ UNCHANGED <<pending, queue, active, feedPc, mainPc>>
        /\ procPc' = procPc \/ (procPc = "asleep" /\ procPc' = "idle")
    BY <1>1 DEF Rollout, ResetStaleness, ResetAcquire, ResetQuery, ResetAssign,
                ResetJoinsLine, Monitor, MonitorCheck, MonitorTest, MonitorWake,
                MonitorJoinsLine, NotifyAll, vars, rolloutVars, feedVars, procVars,
                lifeVars, mqVars
  <2> QED
    BY <2>1, EndFrame
<1> QED
  BY <1>1, StepCases, EndFeeder, EndProcessor, EndTask, EndMain, EndTrain

\* FlowInv and EndInv hold of every behaviour.
LEMMA FlowInvariant == Spec => [](FlowInv /\ EndInv)
<1>1. TypeInv /\ HandInv /\ (FlowInv /\ EndInv) /\ [Next]_vars => (FlowInv /\ EndInv)'
  BY FlowStep, EndStep
<1> QED
  BY <1>1, FlowInit, TypeInvariant, HandInvariant, PTL DEF Spec

\* From pending_queue to the trained samples a sample is in at most one place and at most
\* once there, for every configuration and every pattern of failures.
THEOREM HandedOnOnce == Spec => []NoSampleTwice
<1>1. ASSUME TypeInv, HandInv, FlowInv PROVE NoSampleTwice
  <2>1. \A q \in {pending, queue, batch} : \A i, j \in DOMAIN q : q[i] = q[j] => i = j
    BY <1>1 DEF FlowInv, Once
  <2>2. /\ SamplesIn(pending) = Entries(pending) \ {EndSignal}
        /\ Queued = Entries(queue) \ {EndSignal} /\ InBatch = Entries(batch)
    BY DEF SamplesIn, Queued, InBatch, Entries
  <2>3. /\ SamplesIn(pending) \subseteq Samples /\ InHand \subseteq Samples
        /\ Unput \subseteq Samples /\ Queued \subseteq Samples
        /\ InBatch \subseteq Samples /\ trained \subseteq Samples /\ Failed \subseteq Samples
    <3>1. pending \in Seq(Items) /\ batch \in Seq(Samples)
      BY <1>1 DEF TypeInv, TypeOK, RolloutTypeOK, TrainTypeOK
    <3>2. Entries(pending) \subseteq Items /\ Entries(batch) \subseteq Samples
      BY <3>1, ElementOfSeq, LenProperties DEF Entries
    <3>3. trained \subseteq Samples
      BY <1>1 DEF TypeInv, TypeOK, TrainTypeOK
    <3> QED
      BY <1>1, <2>2, <3>2, <3>3, SetTypes, ItemsType DEF Failed
  <2>4. ASSUME NEW s \in Samples
        PROVE  \A i, j \in DOMAIN Places : s \in Places[i] /\ s \in Places[j] => i = j
    <3>1. StageInv(s) /\ s # EndSignal
      BY <1>1, SamplesFinite DEF FlowInv
    <3>2. /\ s \in SamplesIn(pending) <=> s \in Entries(pending)
          /\ s \in InHand <=> s = held
          /\ s \in Unput <=> task[s] \in {"generating", "putting"}
          /\ s \in Queued <=> s \in Entries(queue)
          /\ s \in InBatch <=> s \in Entries(batch)
          /\ s \in Failed <=> task[s] = "failed"
      BY <2>2, <3>1 DEF InHand, Unput, Failed
    <3> QED
      BY <3>1, <3>2 DEF StageInv, Places
  <2>5. \A i \in DOMAIN Places : Places[i] \subseteq Samples
    BY <2>3 DEF Places
  <2>6. \A i, j \in DOMAIN Places : i # j => Places[i] \cap Places[j] = {}
    BY <2>4, <2>5
  <2> QED
    BY <2>1, <2>6 DEF NoSampleTwice
<1> QED
  BY <1>1, FlowInvariant, TypeInvariant, HandInvariant, PTL

\* Lines 462-506: unless a generation failed, nothing is behind the end signal, whatever
\* the order in which the tasks, the processor and the feeder ran.
THEOREM NothingBehindEndSignal == Spec => []EndSignalLast
<1>1. ASSUME TypeInv, HandInv, FlowInv, EndInv PROVE EndSignalLast
  <2> SUFFICES ASSUME NEW i \in DOMAIN queue, queue[i] = EndSignal, mainPc # "raised"
               PROVE  i = Len(queue) /\ Unput = {} /\ SamplesIn(pending) = {} /\ InHand = {}
    BY DEF EndSignalLast
  <2>1. i = Len(queue) /\ mainPc \in {"stop", "done"}
    BY <1>1 DEF EndInv, FlowInv, Entries
  <2>2. procPc = "done" /\ active = {} /\ pending = <<>> /\ held = EndSignal
    BY <1>1, <2>1 DEF EndInv, HandInv
  <2>3. Unput = {} /\ InHand = {}
    BY <1>1, <2>2 DEF HandInv, Unput, Unfinished, InHand
  <2>4. SamplesIn(pending) = {}
    BY <2>2, EmptySeq DEF SamplesIn
  <2> QED
    BY <2>1, <2>3, <2>4
<1> QED
  BY <1>1, FlowInvariant, TypeInvariant, HandInvariant, PTL

-----------------------------------------------------------------------------
\* Layer 5: the trainer's arithmetic, and the abstract flow.

\* A step is trained on when the batch is complete, and the version and the local step
\* count the batches trained on.
TrainInv ==
  /\ trainPc = "step" => Len(batch) = RequiredSamples
  /\ Cardinality(InBatch) = Len(batch)
  /\ Cardinality(trained) =
       RequiredSamples * (TriggerParameterSyncStep * current_param_version
                          + (local_trigger_step - 1))

\* Multiplying a sum.
LEMMA Distributes ==
  ASSUME NEW a \in Int, NEW b \in Int, NEW c \in Int
  PROVE  a * (b + c) = a * b + a * c /\ a * b \in Int
OBVIOUS

\* The quotient of a number written with remainder.
LEMMA DivUnique ==
  ASSUME NEW d \in Nat \ {0}, NEW v \in Nat, NEW r \in Nat, r < d
  PROVE  (d * v + r) \div d = v
<1> DEFINE x == d * v + r
           q == x \div d
<1>1. x \in Nat
  OBVIOUS
<1>2. q \in Nat /\ d * q <= x /\ x < d * q + d
  BY <1>1
<1>3. x = d * v + r /\ d * v \in Nat /\ d * q \in Nat
  BY <1>2
<1> HIDE DEF x, q
<1>4. ASSUME q > v PROVE FALSE
  <2>1. q - (v + 1) \in Nat
    BY <1>2, <1>4
  <2>2. d * q = d * (v + 1) + d * (q - (v + 1)) /\ d * (v + 1) = d * v + d
    BY <1>2, <2>1, Distributes
  <2>3. d * (q - (v + 1)) \in Nat
    BY <2>1
  <2> QED
    BY <1>1, <1>2, <1>3, <2>2, <2>3
<1>5. ASSUME q < v PROVE FALSE
  <2>1. v - (q + 1) \in Nat
    BY <1>2, <1>5
  <2>2. d * v = d * (q + 1) + d * (v - (q + 1)) /\ d * (q + 1) = d * q + d
    BY <1>2, <2>1, Distributes
  <2>3. d * (v - (q + 1)) \in Nat
    BY <2>1
  <2> QED
    BY <1>1, <1>2, <1>3, <2>2, <2>3
<1>6. q = v
  BY <1>2, <1>4, <1>5
<1> QED
  BY <1>6 DEF q, x

\* The version from the number of samples trained on.
LEMMA VersionOf ==
  ASSUME NEW R \in Nat \ {0}, NEW T \in Nat \ {0}, NEW v \in Nat, NEW k \in 0 .. T - 1
  PROVE  (R * (T * v + k)) \div (R * T) = v
<1> DEFINE d == R * T
           r == R * k
<1>1. d \in Nat \ {0} /\ r \in Nat
  <2>1. T * R \in Nat /\ T * R >= R
    BY ProductAtLeast
  <2>2. T * R = R * T
    OBVIOUS
  <2> QED
    BY <2>1, <2>2
<1>2. r < d
  <2>1. R * T = R * (k + 1) + R * (T - (k + 1)) /\ R * (k + 1) = R * k + R
    BY Distributes
  <2>2. R * (T - (k + 1)) \in Nat /\ R * k \in Nat
    OBVIOUS
  <2> QED
    BY <2>1, <2>2
<1>3. R * (T * v + k) = d * v + r
  <2>1. R * (T * v + k) = R * (T * v) + R * k
    BY Distributes
  <2>2. R * (T * v) = (R * T) * v
    OBVIOUS
  <2> QED
    BY <2>1, <2>2
<1> HIDE DEF d, r
<1>4. (d * v + r) \div d = v
  BY <1>1, <1>2, DivUnique
<1> QED
  BY <1>3, <1>4 DEF d

\* __init__ of the Trainer.
LEMMA TrainInvInit == Init => TrainInv
<1> SUFFICES ASSUME Init PROVE TrainInv
  OBVIOUS
<1>1. /\ batch = <<>> /\ trained = {} /\ trainPc = "collect"
      /\ local_trigger_step = 1 /\ current_param_version = 0
  BY DEF Init, TrainInit
<1>2. InBatch = {} /\ Len(batch) = 0
  BY <1>1, EmptySeq DEF InBatch
<1>3. RequiredSamples * (TriggerParameterSyncStep * 0 + (1 - 1)) = 0
  BY ConfigAssumption
<1> QED
  BY <1>1, <1>2, <1>3, FS_EmptySet DEF TrainInv

\* One batch more.
LEMMA BatchTrained ==
  ASSUME TypeInv, TrainInv, FlowInv, TrainStep
  PROVE  /\ Cardinality(trained') = Cardinality(trained) + RequiredSamples
         /\ InBatch' = {} /\ Len(batch') = 0 /\ trainPc' # "step"
         /\ Cardinality(InBatch) = RequiredSamples
         /\ Cardinality(trained') =
              RequiredSamples * (TriggerParameterSyncStep * current_param_version'
                                 + (local_trigger_step' - 1))
         /\ local_trigger_step' - 1 \in 0 .. TriggerParameterSyncStep - 1
         /\ current_param_version' \in Nat
<1> DEFINE R == RequiredSamples
           T == TriggerParameterSyncStep
           v == current_param_version
           l == local_trigger_step
<1>1. /\ batch \in Seq(Samples) /\ trained \subseteq Samples /\ v \in Nat /\ l \in 1 .. T
      /\ R \in Nat \ {0} /\ T \in Nat \ {0}
  BY ConfigAssumption DEF TypeInv, TypeOK, TrainTypeOK
<1>2. InBatch = Entries(batch) /\ InBatch \in SUBSET Samples
  BY <1>1, LenProperties, ElementOfSeq DEF InBatch, Entries
<1>3. trainPc = "step" /\ batch' = <<>> /\ trained' = trained \cup InBatch
  BY DEF TrainStep, InBatch
<1>4. InBatch' = {} /\ Len(batch') = 0
  BY <1>3, EmptySeq DEF InBatch
<1>5. Cardinality(InBatch) = R
  BY <1>3 DEF TrainInv
<1>6. trained \cap InBatch = {}
  <2>1. \A s \in Samples : s \in Entries(batch) => s \notin trained
    BY DEF FlowInv, StageInv
  <2> QED
    BY <1>1, <1>2, <2>1
<1>7. Cardinality(trained') = Cardinality(trained) + R
  <2>1. IsFiniteSet(trained) /\ IsFiniteSet(InBatch) /\ Cardinality(trained) \in Nat
    BY <1>1, <1>2, SamplesFinite
  <2>2. /\ Cardinality(trained') = Cardinality(trained) + Cardinality(InBatch) - Cardinality({})
    BY <1>3, <1>6, <2>1, FS_Union
  <2> HIDE DEF R
  <2> QED
    BY <1>1, <1>5, <2>1, <2>2, FS_EmptySet
<1>8. Cardinality(trained) = R * (T * v + (l - 1))
  BY DEF TrainInv
<1> DEFINE k == T * v + (l - 1)
<1>9. k \in Nat /\ Cardinality(trained') = R * (k + 1)
  <2>1. k \in Nat
    BY <1>1
  <2> HIDE DEF k
  <2>2. R * (k + 1) = R * k + R /\ R * k \in Nat
    BY <1>1, <2>1
  <2> QED
    BY <1>7, <1>8, <2>1, <2>2 DEF k
<1>10. CASE l < T
  <2>1. l' = l + 1 /\ v' = v /\ trainPc' # "step"
    BY <1>10 DEF TrainStep
  <2>2. k + 1 = T * v + ((l + 1) - 1) /\ (l + 1) - 1 \in 0 .. T - 1
    BY <1>1, <1>10
  <2> QED
    BY <1>1, <1>4, <1>5, <1>7, <1>9, <2>1, <2>2
<1>11. CASE ~(l < T)
  <2>1. l' = 1 /\ v' = v + 1 /\ trainPc' # "step"
    BY <1>11 DEF TrainStep
  <2>2. k + 1 = T * (v + 1) + (1 - 1) /\ 1 - 1 \in 0 .. T - 1
    <3>1. l = T /\ T * (v + 1) = T * v + T
      BY <1>1, <1>11, Distributes
    <3> QED
      BY <1>1, <3>1
  <2> QED
    BY <1>1, <1>4, <1>5, <1>7, <1>9, <2>1, <2>2
<1> QED
  BY <1>10, <1>11

\* What the trainer does with the head of the queue.
LEMMA HeadTaken ==
  ASSUME TypeInv, FlowInv, TakeSample
  PROVE  /\ Head(queue) \in Entries(queue) /\ Entries(queue') \subseteq Entries(queue)
         /\ Head(queue) \notin Entries(queue')
         /\ Entries(queue) \subseteq Entries(queue') \cup {Head(queue)}
         /\ Head(queue) # EndSignal =>
              /\ Head(queue) \in Samples /\ Head(queue) \notin InBatch
              /\ InBatch' = InBatch \cup {Head(queue)} /\ Len(batch') = Len(batch) + 1
         /\ Head(queue) = EndSignal => InBatch' = {} /\ Len(batch') = 0
<1> DEFINE h == Head(queue)
<1>1. queue \in Seq(Items) /\ batch \in Seq(Samples)
  BY DEF TypeInv, TypeOK, TrainTypeOK
<1>2. /\ queue # <<>> /\ queue' = Tail(queue)
      /\ (h = EndSignal /\ batch' = <<>>) \/ (h # EndSignal /\ batch' = Append(batch, h))
  BY DEF TakeSample, MQ!GetSample
<1>3. /\ h \in Entries(queue) /\ Entries(queue') \subseteq Entries(queue)
      /\ h \notin Entries(queue')
  BY <1>1, <1>2, EntriesTaken DEF FlowInv
<1>4. Entries(queue) \subseteq Entries(queue') \cup {h}
  <2> SUFFICES ASSUME NEW i \in DOMAIN queue PROVE queue[i] \in Entries(queue') \cup {h}
    BY DEF Entries
  <2>1. /\ DOMAIN queue = 1 .. Len(queue) /\ Len(queue) \in Nat /\ h = queue[1]
        /\ Len(queue') = Len(queue) - 1 /\ queue' \in Seq(Items)
        /\ \A j \in 1 .. Len(queue) - 1 : queue'[j] = queue[j + 1]
    BY <1>1, <1>2, HeadTailProperties, LenProperties
  <2>2. DOMAIN queue' = 1 .. Len(queue')
    BY <2>1, LenProperties
  <2>3. CASE i = 1
    BY <2>1, <2>3
  <2>4. CASE i # 1
    <3> DEFINE n == Len(queue)
    <3>1. n \in Nat /\ i \in 1 .. n
      BY <2>1
    <3> HIDE DEF n
    <3>2. i - 1 \in 1 .. n - 1 /\ (i - 1) + 1 = i
      BY <2>4, <3>1
    <3>3. queue'[i - 1] = queue[i] /\ i - 1 \in DOMAIN queue'
      BY <2>1, <2>2, <3>2 DEF n
    <3> QED
      BY <3>3 DEF Entries
  <2> QED
    BY <2>3, <2>4
<1>5. ASSUME h # EndSignal
      PROVE  /\ h \in Samples /\ h \notin InBatch
             /\ InBatch' = InBatch \cup {h} /\ Len(batch') = Len(batch) + 1
  <2>1. h \in Samples
    BY <1>1, <1>2, <1>5, TailType, ItemsType
  <2>2. StageInv(h)
    BY <2>1 DEF FlowInv
  <2>3. h \notin Entries(batch) /\ batch' = Append(batch, h)
    BY <1>2, <1>3, <1>5, <2>2 DEF StageInv
  <2>4. Entries(batch') = Entries(batch) \cup {h} /\ Len(batch') = Len(batch) + 1
    BY <1>1, <2>1, <2>3, EntriesAppended, AppendProperties
  <2> QED
    BY <2>1, <2>3, <2>4 DEF InBatch, Entries
<1>6. h = EndSignal => InBatch' = {} /\ Len(batch') = 0
  BY <1>2, EmptySeq DEF InBatch
<1> QED
  BY <1>3, <1>4, <1>5, <1>6

\* Every step of the pipeline keeps TrainInv.
LEMMA TrainInvStep ==
  ASSUME TypeInv, FlowInv, TrainInv, [Next]_vars
  PROVE  TrainInv'
<1>1. batch \in Seq(Samples) /\ Len(batch) \in Nat /\ RequiredSamples \in Nat \ {0}
  BY LenProperties, ConfigAssumption DEF TypeInv, TypeOK, TrainTypeOK
<1>2. CASE UNCHANGED trainVars
  BY <1>2 DEF TrainInv, InBatch, trainVars
<1>3. CASE TakeSample
  <2>1. UNCHANGED <<trained, local_trigger_step, current_param_version>> /\ trainPc = "collect"
    BY <1>3 DEF TakeSample
  <2>2. CASE Head(queue) # EndSignal
    <3>1. /\ InBatch' = InBatch \cup {Head(queue)} /\ Head(queue) \notin InBatch
          /\ Len(batch') = Len(batch) + 1
      BY <1>3, <2>2, HeadTaken
    <3>2. IsFiniteSet(InBatch)
      <4>1. InBatch \in SUBSET Samples
        BY <1>1, LenProperties, ElementOfSeq DEF InBatch
      <4> QED
        BY <4>1, SamplesFinite
    <3>3. Cardinality(InBatch') = Len(batch')
      BY <3>1, <3>2, FS_AddElement DEF TrainInv
    <3>4. trainPc' = "step" => Len(batch') = RequiredSamples
      <4>1. trainPc' = IF Len(batch) + 1 < RequiredSamples THEN "collect" ELSE "step"
        BY <1>3, <2>2 DEF TakeSample
      <4>2. Len(batch) < RequiredSamples
        BY <2>1 DEF TypeInv
      <4> QED
        BY <1>1, <3>1, <4>1, <4>2
    <3> QED
      BY <2>1, <3>3, <3>4 DEF TrainInv
  <2>3. CASE Head(queue) = EndSignal
    <3>1. InBatch' = {} /\ Len(batch') = 0 /\ trainPc' = "stop"
      BY <1>3, <2>3, HeadTaken DEF TakeSample
    <3> QED
      BY <2>1, <3>1, FS_EmptySet DEF TrainInv
  <2> QED
    BY <2>2, <2>3
<1>4. CASE TrainStep
  BY <1>4, BatchTrained, FS_EmptySet DEF TrainInv
<1>5. CASE WaitSample \/ UpdateWeights \/ ResetReturns \/ FitSaveCheckpoint \/ AfterLoop
  <2>1. /\ UNCHANGED <<batch, trained, local_trigger_step, current_param_version>>
        /\ trainPc' # "step" \/ trainPc' = trainPc
    BY <1>5 DEF WaitSample, UpdateWeights, ResetReturns, FitSaveCheckpoint, AfterLoop, trainVars
  <2> QED
    BY <2>1 DEF TrainInv, InBatch
<1>6. \/ UNCHANGED trainVars \/ TakeSample \/ TrainStep
      \/ WaitSample \/ UpdateWeights \/ ResetReturns \/ FitSaveCheckpoint \/ AfterLoop
  <2>1. Rollout(Feeder) \/ Rollout(Processor) \/ Rollout(ResetStaleness) \/ Rollout(Monitor)
        \/ Rollout(Main) \/ DriverEnds \/ UNCHANGED vars => UNCHANGED trainVars
    BY DEF Rollout, DriverEnds, vars
  <2>2. ASSUME NEW s \in Samples, Rollout(TaskStep(s)) PROVE UNCHANGED trainVars
    BY <2>2 DEF Rollout
  <2> QED
    BY <2>1, <2>2, StepCases DEF Train, TrainNext
<1> QED
  BY <1>2, <1>3, <1>4, <1>5, <1>6

\* TrainInv holds of every behaviour.
LEMMA TrainInvariant == Spec => []TrainInv
<1>1. TypeInv /\ (FlowInv /\ EndInv) /\ TrainInv /\ [Next]_vars => TrainInv'
  BY TrainInvStep
<1> QED
  BY <1>1, TrainInvInit, TypeInvariant, FlowInvariant, PTL DEF Spec

\* SampleFlow counts with the same Cardinality.
LEMMA SameCardinality == ASSUME NEW S PROVE Flow!Cardinality(S) = Cardinality(S)
BY DEF Flow!Cardinality, Cardinality

\* The samples the abstract flow calls started.
StartedSet == Started \cup InHand

\* The pipeline starts where the abstract flow starts.
LEMMA SimInit == Init => Flow!Init
<1> SUFFICES ASSUME Init PROVE Flow!Init
  OBVIOUS
<1>1. /\ held = EndSignal /\ queue = <<>> /\ batch = <<>> /\ trained = {}
      /\ current_param_version = 0
      /\ \A s \in Samples : task[s] = "none"
  BY DEF Init, RolloutInit, TrainInit, ChannelInit, MQ!Init
<1>2. InHand = {} /\ Unput = {} /\ Queued = {} /\ Started = {} /\ InBatch = {}
  BY <1>1, EmptySeq DEF InHand, Unput, Queued, SamplesIn, Started, InBatch
<1> QED
  BY <1>1, <1>2 DEF Flow!Init

\* A step after which no sample is outstanding that was not is a loss, of no sample perhaps.
LEMMA SimLose ==
  ASSUME OutstandingSet' \subseteq OutstandingSet, StartedSet' = StartedSet,
         InBatch' = InBatch, UNCHANGED <<trained, current_param_version>>
  PROVE  Flow!Next
<1> DEFINE L == OutstandingSet \ OutstandingSet'
<1>1. L \in SUBSET OutstandingSet /\ OutstandingSet' = OutstandingSet \ L
  OBVIOUS
<1> HIDE DEF L
<1>2. Flow!Lose(L)
  BY <1>1 DEF Flow!Lose, OutstandingSet, StartedSet
<1> QED
  BY <1>1, <1>2 DEF Flow!Next, OutstandingSet

\* The processor starts a sample by taking it in hand.
LEMMA SimProcessor ==
  ASSUME TypeInv, TypeInv', HandInv, CountInv, FlowInv, Rollout(Processor)
  PROVE  Flow!Next
<1>1. UNCHANGED <<queue, batch, trained, current_param_version>>
  BY DEF Rollout, Processor, mqVars, trainVars
<1>2. Queued' = Queued /\ InBatch' = InBatch
  BY <1>1 DEF Queued, SamplesIn, InBatch
<1>3. CASE TakePending
  <2> DEFINE h == Head(pending)
  <2>1. /\ procPc = "take" /\ pending # <<>> /\ held' = h /\ task' = task
    BY <1>3 DEF TakePending
  <2>2. held = EndSignal /\ InHand = {}
    BY <2>1 DEF HandInv, InHand
  <2>3. Unput' = Unput /\ Started' = Started
    BY <2>1 DEF Unput, Started
  <2>4. h \in Items /\ h \in Entries(pending)
    BY <2>1, EntriesTaken DEF TypeInv, TypeOK, RolloutTypeOK
  <2> HIDE DEF h
  <2>5. CASE h = EndSignal
    <3>1. InHand' = {}
      BY <2>1, <2>5 DEF InHand
    <3> QED
      BY <1>1, <1>2, <2>2, <2>3, <3>1, SimLose DEF OutstandingSet, StartedSet
  <2>6. CASE h # EndSignal
    <3>1. h \in Samples /\ InHand' = {h}
      BY <2>1, <2>4, <2>6, ItemsType DEF InHand
    <3>2. task[h] = "none"
      BY <2>4, <3>1 DEF FlowInv, StageInv
    <3>3. h \notin StartedSet
      BY <2>2, <3>2 DEF StartedSet, Started
    <3>4. Cardinality(OutstandingSet) < MaxRequiredSamples + 1
      <4>1. Cardinality(OutstandingSet) <= MaxRequiredSamples
        BY <2>1, SetTypes DEF CountInv
      <4>2. Cardinality(OutstandingSet) \in Nat
        BY SetTypes, SamplesFinite DEF OutstandingSet
      <4> QED
        BY <4>1, <4>2, MaxRequiredType
    <3>5. /\ StartedSet' = StartedSet \cup {h} /\ OutstandingSet' = OutstandingSet \cup {h}
      BY <1>2, <2>2, <2>3, <3>1 DEF StartedSet, OutstandingSet
    <3>6. Flow!Start(h)
      BY <1>1, <1>2, <3>3, <3>4, <3>5, SameCardinality DEF Flow!Start, StartedSet, OutstandingSet
    <3> QED
      BY <3>1, <3>6 DEF Flow!Next
  <2> QED
    BY <2>5, <2>6
<1>4. CASE Dispatch
  <2>1. held \in Samples /\ task \in [Samples -> TaskState]
    BY <1>4 DEF TypeInv, TypeOK, RolloutTypeOK, Dispatch
  <2>2. held' = EndSignal /\ task' = [task EXCEPT ![held] = "generating"]
    BY <1>4 DEF Dispatch
  <2>3. InHand = {held} /\ InHand' = {}
    BY <2>1, <2>2, SamplesFinite DEF InHand
  <2>4. Unput' = Unput \cup {held} /\ Started' = Started \cup {held}
    BY <2>1, <2>2 DEF Unput, Started
  <2> QED
    BY <1>1, <1>2, <2>3, <2>4, SimLose DEF OutstandingSet, StartedSet
<1>5. CASE LoopTop \/ SetPaused \/ AcquireToReap \/ Reap \/ LeaveReapLoop \/ WaitUnpaused
           \/ ProcJoinsLine
  <2>1. UNCHANGED <<held, task>>
    BY <1>5 DEF LoopTop, SetPaused, AcquireToReap, Reap, LeaveReapLoop, WaitUnpaused,
                ProcJoinsLine, procVars
  <2>2. InHand' = InHand /\ Unput' = Unput /\ Started' = Started
    BY <2>1 DEF InHand, Unput, Started
  <2> QED
    BY <1>1, <1>2, <2>2, SimLose DEF OutstandingSet, StartedSet
<1> QED
  BY <1>3, <1>4, <1>5 DEF Rollout, Processor

\* A task hands its sample on, or loses it, or its put displaces another.
LEMMA SimTask ==
  ASSUME TypeInv, NEW s \in Samples, Rollout(TaskStep(s))
  PROVE  Flow!Next
<1>1. UNCHANGED <<held, batch, trained, current_param_version>>
  BY DEF Rollout, TaskStep, procVars, trainVars
<1>2. task \in [Samples -> TaskState]
  BY DEF TypeInv, TypeOK, RolloutTypeOK
<1>3. InHand' = InHand /\ InBatch' = InBatch
  BY <1>1 DEF InHand, InBatch
<1>4. Started' = Started
  <2>1. /\ task[s] # "none" /\ task'[s] # "none"
        /\ \A r \in Samples : r # s => task'[r] = task[r]
    BY <1>2 DEF Rollout, TaskStep, Generated, GenerationFails, PutArrives, PutReturned
  <2> QED
    BY <2>1 DEF Started
<1>5. OutstandingSet' \subseteq OutstandingSet
  <2>1. CASE Generated(s) \/ GenerationFails(s) \/ PutReturned(s)
    <3>1. queue' = queue
      BY <2>1 DEF Generated, GenerationFails, PutReturned, mqVars
    <3>2. Queued' = Queued
      BY <3>1 DEF Queued, SamplesIn
    <3>3. Unput' \subseteq Unput
      BY <1>2, <2>1 DEF Generated, GenerationFails, PutReturned, Unput
    <3> QED
      BY <1>3, <3>2, <3>3 DEF OutstandingSet
  <2>2. CASE PutArrives(s)
    <3>1. s \in Unput /\ Unput' \subseteq Unput
      BY <1>2, <2>2 DEF PutArrives, Unput
    <3>2. s \in Items /\ MQ!PutSample(s)
      BY <2>2, ItemsType DEF PutArrives
    <3>3. Queued' \subseteq Queued \cup {s}
      BY <3>2, QueuedAfterPut
    <3> QED
      BY <1>3, <3>1, <3>3 DEF OutstandingSet
  <2> QED
    BY <2>1, <2>2 DEF Rollout, TaskStep
<1> QED
  BY <1>1, <1>3, <1>4, <1>5, SimLose DEF StartedSet

\* The trainer takes a sample, trains on a complete batch, or throws the last one away.
LEMMA SimTrain ==
  ASSUME TypeInv, HandInv, FlowInv, TrainInv, Train(TrainNext)
  PROVE  Flow!Next \/ UNCHANGED Flow!vars
<1>1. UNCHANGED <<held, task>>
  BY DEF Train, rolloutVars, procVars
<1>2. InHand' = InHand /\ Unput' = Unput /\ Started' = Started /\ StartedSet' = StartedSet
  BY <1>1 DEF InHand, Unput, Started, StartedSet
<1>3. CASE TakeSample
  <2> DEFINE h == Head(queue)
  <2>1. UNCHANGED <<trained, current_param_version>> /\ trainPc = "collect"
    BY <1>3 DEF TakeSample
  <2>2. /\ h \in Entries(queue) /\ Entries(queue') \subseteq Entries(queue) /\ h \notin Entries(queue')
        /\ Entries(queue) \subseteq Entries(queue') \cup {h}
        /\ h # EndSignal => h \in Samples /\ InBatch' = InBatch \cup {h}
        /\ h = EndSignal => InBatch' = {}
    BY <1>3, HeadTaken
  <2>3. Queued = Entries(queue) \ {EndSignal} /\ Queued' = Entries(queue') \ {EndSignal}
    BY DEF Queued, SamplesIn, Entries
  <2> HIDE DEF h
  <2>4. CASE h # EndSignal
    <3>1. h \in Queued /\ Queued' = Queued \ {h}
      BY <2>2, <2>3, <2>4
    <3>2. h \notin InHand /\ h \notin Unput
      <4>1. StageInv(h) /\ h \in Entries(queue)
        BY <2>2, <2>4 DEF FlowInv
      <4> QED
        BY <4>1 DEF StageInv, InHand, Unput
    <3>3. h \in OutstandingSet /\ OutstandingSet' = OutstandingSet \ {h}
      BY <1>2, <3>1, <3>2 DEF OutstandingSet
    <3>4. Cardinality(InBatch) < RequiredSamples
      BY <2>1 DEF TypeInv, TrainInv
    <3>5. Flow!Take(h)
      BY <1>2, <2>1, <2>2, <2>4, <3>3, <3>4, SameCardinality
         DEF Flow!Take, OutstandingSet, StartedSet
    <3> QED
      BY <2>2, <2>4, <3>5 DEF Flow!Next
  <2>5. CASE h = EndSignal
    <3>1. Queued' = Queued
      BY <2>2, <2>3, <2>5
    <3>2. OutstandingSet' = OutstandingSet
      BY <1>2, <3>1 DEF OutstandingSet
    <3>3. Flow!DiscardBatch
      BY <1>2, <2>1, <2>2, <2>5, <3>2 DEF Flow!DiscardBatch, OutstandingSet, StartedSet
    <3> QED
      BY <3>3 DEF Flow!Next
  <2> QED
    BY <2>4, <2>5
<1>4. CASE TrainStep
  <2> DEFINE k == local_trigger_step' - 1
             v == current_param_version'
             c == Cardinality(trained')
  <2>1. /\ InBatch' = {} /\ Cardinality(InBatch) = RequiredSamples
        /\ k \in 0 .. TriggerParameterSyncStep - 1 /\ v \in Nat
        /\ c = RequiredSamples * (TriggerParameterSyncStep * v + k)
    BY <1>4, BatchTrained
  <2>2. /\ trained' = trained \cup InBatch /\ queue' = queue
    BY <1>4 DEF TrainStep, InBatch, mqVars
  <2>3. Queued' = Queued
    BY <2>2 DEF Queued, SamplesIn
  <2>4. OutstandingSet' = OutstandingSet
    BY <1>2, <2>3 DEF OutstandingSet
  <2> HIDE DEF k, v, c
  <2>5. c \div (RequiredSamples * TriggerParameterSyncStep) = v
    BY <2>1, VersionOf, ConfigAssumption
  <2>6. Flow!TrainBatch
    BY <1>2, <2>1, <2>2, <2>4, <2>5, SameCardinality
       DEF Flow!TrainBatch, OutstandingSet, StartedSet, v, c
  <2> QED
    BY <2>6 DEF Flow!Next
<1>5. CASE WaitSample \/ UpdateWeights \/ ResetReturns \/ FitSaveCheckpoint \/ AfterLoop
  <2>1. UNCHANGED <<queue, batch, trained, current_param_version>>
    BY <1>5 DEF WaitSample, UpdateWeights, ResetReturns, FitSaveCheckpoint, AfterLoop,
                MQ!GetWait, mqVars, trainVars
  <2>2. Queued' = Queued /\ InBatch' = InBatch
    BY <2>1 DEF Queued, SamplesIn, InBatch
  <2> QED
    BY <1>2, <2>1, <2>2 DEF Flow!vars
<1> QED
  BY <1>3, <1>4, <1>5 DEF Train, TrainNext

\* The feeder and the monitor move no started sample, _streaming_generation_main's put and
\* the driver's clear_queue lose samples at most.
LEMMA SimOthers ==
  ASSUME TypeInv,
         \/ Rollout(Feeder) \/ Rollout(ResetStaleness) \/ Rollout(Monitor) \/ Rollout(Main)
         \/ DriverEnds \/ UNCHANGED vars
  PROVE  Flow!Next
<1>1. UNCHANGED <<held, task, batch, trained, current_param_version>>
  BY DEF Rollout, Feeder, ResetStaleness, Monitor, Main, DriverEnds, vars, rolloutVars,
         procVars, trainVars
<1>2. InHand' = InHand /\ Unput' = Unput /\ StartedSet' = StartedSet /\ InBatch' = InBatch
  BY <1>1 DEF InHand, Unput, Started, StartedSet, InBatch
<1>3. Queued' \subseteq Queued
  <2>1. CASE SendEndSignal
    <3>1. EndSignal \in Items /\ MQ!PutSample(EndSignal)
      BY <2>1, ItemsType DEF SendEndSignal
    <3>2. Queued' \subseteq Queued \cup ({EndSignal} \ {EndSignal})
      BY <3>1, QueuedAfterPut
    <3> QED
      BY <3>2
  <2>2. CASE DriverEnds
    <3>1. queue' = <<>>
      BY <2>2 DEF DriverEnds, MQ!ClearQueue
    <3>2. Queued' = {}
      BY <3>1, EmptySeq DEF Queued, SamplesIn
    <3> QED
      BY <3>2
  <2>3. CASE ~SendEndSignal /\ ~DriverEnds
    <3>1. queue' = queue
      BY <2>3 DEF Rollout, Feeder, ResetStaleness, Monitor, Main, MainFail, MainComplete,
                  ClearRunning, MainJoinsLine, vars, mqVars
    <3> QED
      BY <3>1 DEF Queued, SamplesIn
  <2> QED
    BY <2>1, <2>2, <2>3
<1>4. OutstandingSet' \subseteq OutstandingSet
  BY <1>2, <1>3 DEF OutstandingSet
<1> QED
  BY <1>1, <1>2, <1>4, SimLose

\* The pipeline implements SampleFlow: every step starts, takes, trains on, discards or
\* loses samples the way the abstract flow allows, or is none of its business.
THEOREM PipelineImplementsFlow == Spec => ImplementsFlow
<1>1. ASSUME TypeInv, TypeInv', HandInv, CountInv, FlowInv, TrainInv, [Next]_vars
      PROVE  [Flow!Next]_(Flow!vars)
  BY <1>1, StepCases, SimProcessor, SimTask, SimTrain, SimOthers
<1> QED
  BY <1>1, SimInit, TypeInvariant, HandInvariant, CountInvariant, FlowInvariant,
     TrainInvariant, PTL DEF Spec, ImplementsFlow, Flow!Spec

-----------------------------------------------------------------------------
\* Layer 6: the end signal in the queue, and the samples that were displaced.

Stopped == {"stop", "lastSync", "lastReset", "lastSave", "done"}
Live == {"collect", "step", "sync", "reset", "save"}
Put == {"stored", "displaced", "done"}

\* There are never more tasks than slots, and fewer once one of them has failed.
SlotInv ==
  /\ Cardinality(active) <= MaxConcurrentSamples
  /\ procPc = "dispatch" => Cardinality(active) < MaxConcurrentSamples
  /\ procPc = "failed" => Cardinality(Unput) < MaxRequiredSamples
  /\ mainPc \in {"sendEndThenRaise", "raised"} => procPc = "failed"

\* The samples behind the end signal and those still to be put do not fill the queue.
SignalAt(p) ==
  queue[p] = EndSignal /\ (Len(queue) - p) + Cardinality(Unput) < MaxRequiredSamples
SignalInv ==
  /\ Len(queue) <= MaxRequiredSamples
  /\ mainPc \in Ended => trainPc \in Stopped \/ \E p \in DOMAIN queue : SignalAt(p)

\* The samples that were put and are nowhere.
Missing == {s \in Samples : task[s] \in Put} \ (Queued \cup InBatch \cup trained)
LossInv == trainPc \in Live => Cardinality(Missing) = dropped_samples

\* The places of a queue after a take.
LEMMA TailPlaces ==
  ASSUME NEW S, NEW q \in Seq(S), q # <<>>
  PROVE  /\ Len(q) \in Nat \ {0} /\ Len(Tail(q)) = Len(q) - 1 /\ Tail(q) \in Seq(S)
         /\ Head(q) = q[1] /\ 1 \in DOMAIN q
         /\ \A p \in DOMAIN q :
              /\ p \in Nat
              /\ p # 1 => p - 1 \in DOMAIN Tail(q) /\ Tail(q)[p - 1] = q[p]
         /\ Entries(q) = Entries(Tail(q)) \cup {Head(q)}
<1> DEFINE n == Len(q)
           t == Tail(q)
<1>1. n \in Nat /\ DOMAIN q = 1 .. n /\ n # 0
  BY LenProperties, EmptySeq
<1>2. /\ t \in Seq(S) /\ Len(t) = n - 1 /\ Head(q) = q[1]
      /\ \A i \in 1 .. n - 1 : t[i] = q[i + 1]
  BY HeadTailProperties
<1>3. DOMAIN t = 1 .. n - 1
  BY <1>2, LenProperties
<1>4. Head(q) \in Entries(q) /\ Entries(t) \subseteq Entries(q) /\ 1 \in DOMAIN q
  BY EntriesTaken
<1> HIDE DEF n, t
<1>5. \A p \in 1 .. n : p \in Nat /\ (p # 1 => p - 1 \in 1 .. n - 1 /\ (p - 1) + 1 = p)
  BY <1>1
<1>6. \A p \in 1 .. n : p # 1 => t[p - 1] = q[p]
  BY <1>2, <1>5
<1>7. Entries(q) \subseteq Entries(t) \cup {Head(q)}
  BY <1>1, <1>2, <1>3, <1>5, <1>6 DEF Entries
<1> QED
  BY <1>1, <1>2, <1>3, <1>4, <1>5, <1>6, <1>7 DEF n, t

\* put_sample in detail: what is where afterwards.
LEMMA PutPlaces ==
  ASSUME TypeInv, NEW x \in Items, MQ!PutSample(x)
  PROVE  /\ Len(queue) \in Nat /\ Len(queue') \in Nat
         /\ Len(queue') \in DOMAIN queue' /\ queue'[Len(queue')] = x
         /\ MQ!Full => /\ Len(queue') = Len(queue) /\ dropped_samples' = dropped_samples + 1
                       /\ Len(queue) >= MaxRequiredSamples
                       /\ queue # <<>> /\ 1 \in DOMAIN queue /\ queue[1] = Head(queue)
                       /\ Head(queue) \in Items
                       /\ \A p \in DOMAIN queue :
                            p # 1 => p - 1 \in DOMAIN queue' /\ queue'[p - 1] = queue[p]
                       /\ Entries(queue') = Entries(Tail(queue)) \cup {x}
                       /\ Entries(queue) = Entries(Tail(queue)) \cup {Head(queue)}
                       /\ Once(queue) => Head(queue) \notin Entries(Tail(queue))
         /\ ~MQ!Full => /\ Len(queue') = Len(queue) + 1 /\ dropped_samples' = dropped_samples
                        /\ Len(queue) < MaxRequiredSamples
                        /\ \A p \in DOMAIN queue : p \in DOMAIN queue' /\ queue'[p] = queue[p]
                        /\ Entries(queue') = Entries(queue) \cup {x}
<1>1. queue \in Seq(Items) /\ Len(queue) \in Nat
  BY LenProperties DEF TypeInv, TypeOK
<1>2. ASSUME NEW q \in Seq(Items)
      PROVE  /\ Append(q, x) \in Seq(Items) /\ Len(Append(q, x)) = Len(q) + 1
             /\ Len(q) + 1 \in DOMAIN Append(q, x) /\ Append(q, x)[Len(q) + 1] = x
             /\ \A p \in DOMAIN q : p \in DOMAIN Append(q, x) /\ Append(q, x)[p] = q[p]
             /\ Entries(Append(q, x)) = Entries(q) \cup {x}
  <2> DEFINE n == Len(q)
             t == Append(q, x)
  <2>1. n \in Nat /\ DOMAIN q = 1 .. n
    BY LenProperties
  <2>2. /\ t \in Seq(Items) /\ Len(t) = n + 1 /\ DOMAIN t = 1 .. n + 1 /\ t[n + 1] = x
        /\ \A i \in 1 .. n : t[i] = q[i]
    BY AppendProperties, LenProperties
  <2>3. Entries(t) = Entries(q) \cup {x}
    BY EntriesAppended
  <2> HIDE DEF n, t
  <2>4. n + 1 \in 1 .. n + 1 /\ \A i \in 1 .. n : i \in 1 .. n + 1
    BY <2>1
  <2> QED
    BY <2>1, <2>2, <2>3, <2>4 DEF n, t
<1>3. CASE MQ!Full
  <2> DEFINE t == Tail(queue)
             h == Head(queue)
  <2>1. queue # <<>> /\ Len(queue) >= MaxRequiredSamples
    BY <1>3, MaxRequiredType, EmptySeq DEF MQ!Full
  <2>2. queue' = Append(t, x) /\ dropped_samples' = dropped_samples + 1
    BY <1>3 DEF MQ!PutSample
  <2>3. /\ Len(queue) \in Nat \ {0} /\ Len(t) = Len(queue) - 1 /\ t \in Seq(Items)
        /\ h = queue[1] /\ 1 \in DOMAIN queue
        /\ \A p \in DOMAIN queue : p # 1 => p - 1 \in DOMAIN t /\ t[p - 1] = queue[p]
        /\ Entries(queue) = Entries(t) \cup {h}
    BY <1>1, <2>1, TailPlaces
  <2>4. h \in Items /\ (Once(queue) => h \notin Entries(t))
    BY <1>1, <2>1, EntriesTaken, TailType
  <2> HIDE DEF t, h
  <2>5. /\ Len(queue') = Len(queue) /\ Len(queue') \in DOMAIN queue' /\ queue'[Len(queue')] = x
        /\ \A p \in DOMAIN t : p \in DOMAIN queue' /\ queue'[p] = t[p]
        /\ Entries(queue') = Entries(t) \cup {x}
    <3>1. Len(t) + 1 = Len(queue)
      BY <2>3
    <3> QED
      BY <1>2, <2>2, <2>3, <3>1
  <2> QED
    BY <1>1, <1>3, <2>1, <2>2, <2>3, <2>4, <2>5 DEF t, h
<1>4. CASE ~MQ!Full
  <2>1. queue' = Append(queue, x) /\ dropped_samples' = dropped_samples
    BY <1>4 DEF MQ!PutSample
  <2>2. Len(queue) < MaxRequiredSamples
    BY <1>1, <1>4, MaxRequiredType DEF MQ!Full
  <2>3. Len(queue) + 1 \in Nat
    BY <1>1
  <2> QED
    BY <1>1, <1>2, <1>4, <2>1, <2>2, <2>3
<1> QED
  BY <1>3, <1>4

\* The number of slots is positive and within the budget.
LEMMA MaxConcurrentType ==
  MaxConcurrentSamples \in Nat \ {0} /\ MaxConcurrentSamples <= MaxRequiredSamples
BY MaxRequiredType, ConfigAssumption DEF MaxConcurrentSamples

\* A task that goes on is at most one sample less to be put.
LEMMA UnputTask ==
  ASSUME TypeInv, NEW s \in Samples, Rollout(TaskStep(s))
  PROVE  /\ Unput' \in SUBSET Unput
         /\ PutArrives(s) => s \in Unput /\ Unput' = Unput \ {s}
<1>1. task \in [Samples -> TaskState]
  BY DEF TypeInv, TypeOK, RolloutTypeOK
<1>2. Unput' \in SUBSET Unput
  BY <1>1 DEF Rollout, TaskStep, Generated, GenerationFails, PutArrives, PutReturned, Unput
<1>3. PutArrives(s) => s \in Unput /\ Unput' = Unput \ {s}
  BY <1>1 DEF PutArrives, Unput
<1> QED
  BY <1>2, <1>3

\* At the start no slot is taken.
LEMMA SlotInit == Init => SlotInv
<1> SUFFICES ASSUME Init PROVE SlotInv
  OBVIOUS
<1>1. active = {} /\ procPc = "top" /\ mainPc = "await"
  BY DEF Init, RolloutInit
<1> QED
  BY <1>1, FS_EmptySet, MaxConcurrentType DEF SlotInv

\* _processor_worker waits for a slot before it creates a task, and reaps the task that
\* failed before it raises.
LEMMA SlotProcessor ==
  ASSUME TypeInv, HandInv, SlotInv, Rollout(Processor)
  PROVE  SlotInv'
<1>1. mainPc' = mainPc /\ procPc # "failed"
  <2>1. mainPc' = mainPc
    BY DEF Rollout, Processor, lifeVars
  <2>2. procPc # "failed"
    BY DEF Rollout, Processor, LoopTop, SetPaused, AcquireToReap, Reap, LeaveReapLoop,
           WaitUnpaused, TakePending, Dispatch, ProcJoinsLine, ProcWantsLock, ReapLoops
  <2> QED
    BY <2>1, <2>2
<1>2. mainPc' \notin {"sendEndThenRaise", "raised"}
  BY <1>1 DEF SlotInv
<1>3. active \in SUBSET Samples /\ Cardinality(active) \in Nat /\ Cardinality(active) <= MaxConcurrentSamples
  BY SetTypes, SamplesFinite DEF SlotInv
<1>4. CASE Dispatch
  <2>1. procPc = "dispatch" /\ procPc' = "top" /\ active' = active \cup {held}
    BY <1>4 DEF Dispatch
  <2>2. Cardinality(active) < MaxConcurrentSamples /\ IsFiniteSet(active)
    BY <1>3, <2>1, SamplesFinite DEF SlotInv
  <2>3. Cardinality(active') <= Cardinality(active) + 1 /\ Cardinality(active') \in Nat
    <3>1. Cardinality(active') = IF held \in active THEN Cardinality(active) ELSE Cardinality(active) + 1
      BY <2>1, <2>2, FS_AddElement
    <3> QED
      BY <1>3, <3>1
  <2>4. Cardinality(active') <= MaxConcurrentSamples
    BY <1>3, <2>2, <2>3, MaxConcurrentType
  <2> QED
    BY <1>2, <2>1, <2>4 DEF SlotInv
<1>5. CASE Reap
  <2>1. /\ active' \in SUBSET active /\ procPc' # "dispatch" /\ task' = task
        /\ procPc' = "failed" => \E t \in active : task[t] = "failed"
    BY <1>1, <1>5 DEF Reap, Finished, ReapLoops
  <2>2. Cardinality(active') <= MaxConcurrentSamples
    <3>1. Cardinality(active') \in Nat /\ Cardinality(active') <= Cardinality(active)
      BY <1>3, <2>1, CardSubset
    <3> QED
      BY <1>3, <3>1, MaxConcurrentType
  <2>3. ASSUME procPc' = "failed" PROVE Cardinality(Unput') < MaxRequiredSamples
    <3>1. PICK t \in active : task[t] = "failed"
      BY <2>1, <2>3
    <3>2. Unput' = Unput /\ Unput \in SUBSET (active \ {t})
      BY <2>1, <3>1 DEF Unput, HandInv, Unfinished
    <3>3. Cardinality(active \ {t}) = Cardinality(active) - 1
      BY <1>3, SamplesFinite, FS_RemoveElement
    <3>4. Cardinality(Unput) <= Cardinality(active \ {t}) /\ Cardinality(Unput) \in Nat
      BY <1>3, <3>2, CardSubset
    <3>5. Cardinality(Unput) < MaxRequiredSamples
      BY <1>3, <3>3, <3>4, MaxConcurrentType, MaxRequiredType
    <3> QED
      BY <3>2, <3>5
  <2> QED
    BY <1>2, <2>1, <2>2, <2>3 DEF SlotInv
<1>6. CASE LeaveReapLoop
  <2>1. active' = active /\ procPc' # "failed"
    BY <1>6 DEF LeaveReapLoop, ReapLoops
  <2>2. procPc' = "dispatch" => ~(Cardinality(active) >= MaxConcurrentSamples)
    BY <1>6 DEF LeaveReapLoop, ReapLoops, KeepsReaping
  <2>3. procPc' = "dispatch" => Cardinality(active) < MaxConcurrentSamples
    BY <1>3, <2>2, MaxConcurrentType
  <2> QED
    BY <1>2, <2>1, <2>3 DEF SlotInv
<1>7. CASE LoopTop \/ SetPaused \/ AcquireToReap \/ WaitUnpaused \/ TakePending \/ ProcJoinsLine
  <2>1. /\ active' = active /\ procPc' # "failed"
        /\ procPc' = "dispatch" => procPc = "dispatch"
    BY <1>1, <1>7 DEF LoopTop, SetPaused, AcquireToReap, WaitUnpaused, TakePending,
                      ProcJoinsLine, procVars
  <2> QED
    BY <1>2, <2>1 DEF SlotInv
<1> QED
  BY <1>4, <1>5, <1>6, <1>7 DEF Rollout, Processor

\* Every step of the pipeline keeps SlotInv.
LEMMA SlotStep ==
  ASSUME TypeInv, HandInv, SlotInv, [Next]_vars
  PROVE  SlotInv'
<1>1. ASSUME NEW s \in Samples, Rollout(TaskStep(s)) PROVE SlotInv'
  <2>1. UNCHANGED <<active, procPc, mainPc>>
    BY <1>1 DEF Rollout, TaskStep, procVars, lifeVars
  <2>2. Unput' \in SUBSET Unput /\ Unput \in SUBSET Samples
    BY <1>1, UnputTask, SetTypes
  <2>3. /\ Cardinality(Unput') \in Nat /\ Cardinality(Unput) \in Nat
        /\ Cardinality(Unput') <= Cardinality(Unput)
    BY <2>2, CardSubset
  <2>4. Cardinality(Unput) < MaxRequiredSamples => Cardinality(Unput') < MaxRequiredSamples
    BY <2>3, MaxRequiredType
  <2> QED
    BY <2>1, <2>4 DEF SlotInv
<1>2. ASSUME \/ Rollout(Feeder) \/ Rollout(ResetStaleness) \/ Rollout(Monitor) \/ Rollout(Main)
             \/ Train(TrainNext) \/ DriverEnds \/ UNCHANGED vars
      PROVE  SlotInv'
  <2>1. UNCHANGED <<active, task>>
    BY <1>2 DEF Rollout, Feeder, ResetStaleness, Monitor, Main, Train, DriverEnds, vars,
                rolloutVars, procVars
  <2>2. Unput' = Unput
    BY <2>1 DEF Unput
  <2>3. procPc' = procPc \/ (procPc = "asleep" /\ procPc' = "idle")
    BY <1>2 DEF Rollout, Feeder, ResetStaleness, ResetAcquire, ResetQuery, ResetAssign,
                ResetJoinsLine, Monitor, MonitorCheck, MonitorTest, MonitorWake,
                MonitorJoinsLine, NotifyAll, Main, Train, DriverEnds, vars, rolloutVars,
                procVars
  <2>4. mainPc' \in {"sendEndThenRaise", "raised"} =>
          mainPc \in {"sendEndThenRaise", "raised"} \/ procPc = "failed"
    BY <1>2 DEF Rollout, Feeder, ResetStaleness, Monitor, Main, MainFail, MainComplete,
                SendEndSignal, ClearRunning, MainJoinsLine, Train, DriverEnds, vars,
                rolloutVars, lifeVars
  <2> QED
    BY <2>1, <2>2, <2>3, <2>4 DEF SlotInv
<1> QED
  BY <1>1, <1>2, StepCases, SlotProcessor

\* The places of a queue are numbers up to its length.
LEMMA QueuePlaces ==
  ASSUME TypeInv
  PROVE  /\ queue \in Seq(Items) /\ Len(queue) \in Nat
         /\ \A p \in DOMAIN queue : p \in Nat /\ 1 <= p /\ p <= Len(queue)
BY LenProperties DEF TypeInv, TypeOK

\* A step that leaves the queue alone.
LEMMA SignalFrame ==
  ASSUME TypeInv, SignalInv, queue' = queue, Unput' \in SUBSET Unput,
         mainPc' \in Ended => mainPc \in Ended,
         trainPc \in Stopped => trainPc' \in Stopped
  PROVE  SignalInv'
<1>1. /\ Cardinality(Unput') \in Nat /\ Cardinality(Unput) \in Nat
      /\ Cardinality(Unput') <= Cardinality(Unput)
  BY SetTypes, CardSubset
<1>2. ASSUME NEW p \in DOMAIN queue, SignalAt(p) PROVE SignalAt(p)'
  <2>1. p \in Nat /\ Len(queue) \in Nat
    BY QueuePlaces
  <2>2. (Len(queue) - p) + Cardinality(Unput') < MaxRequiredSamples
    BY <1>1, <1>2, <2>1, MaxRequiredType DEF SignalAt
  <2> QED
    BY <1>2, <2>2 DEF SignalAt
<1> QED
  BY <1>2 DEF SignalInv

\* A put by a task that a failure left behind: the end signal has room behind it for
\* every sample still to be put.
LEMMA SignalTask ==
  ASSUME TypeInv, SignalInv, NEW s \in Samples, Rollout(TaskStep(s))
  PROVE  SignalInv'
<1>1. UNCHANGED <<mainPc, trainPc>>
  BY DEF Rollout, TaskStep, lifeVars, trainVars
<1>2. CASE PutArrives(s)
  <2>1. MQ!PutSample(s) /\ s \in Items
    BY <1>2, ItemsType DEF PutArrives
  <2>2. s \in Unput /\ Unput' = Unput \ {s} /\ Unput \in SUBSET Samples
    BY <1>2, UnputTask, SetTypes
  <2> DEFINE n == Len(queue)
             u == Cardinality(Unput)
             M == MaxRequiredSamples
  <2>3. u \in Nat /\ u # 0 /\ Cardinality(Unput') = u - 1
    <3>1. IsFiniteSet(Unput) /\ u \in Nat
      BY <2>2, SamplesFinite
    <3>2. Cardinality(Unput') = u - 1
      BY <2>2, <3>1, FS_RemoveElement
    <3>3. Cardinality(Unput') \in Nat
      BY <2>2, SamplesFinite
    <3> HIDE DEF u
    <3> QED
      BY <3>1, <3>2, <3>3
  <2>4. n \in Nat /\ M \in Nat \ {0} /\ n <= M
    BY QueuePlaces, MaxRequiredType DEF SignalInv
  <2>5. /\ MQ!Full => /\ Len(queue') = n /\ n >= M
                      /\ \A p \in DOMAIN queue :
                           p # 1 => p - 1 \in DOMAIN queue' /\ queue'[p - 1] = queue[p]
        /\ ~MQ!Full => /\ Len(queue') = n + 1 /\ n < M
                       /\ \A p \in DOMAIN queue : p \in DOMAIN queue' /\ queue'[p] = queue[p]
    BY <2>1, PutPlaces
  <2> HIDE DEF u, n, M
  <2>6. Len(queue') <= M
    BY <2>4, <2>5
  <2>7. ASSUME NEW p \in DOMAIN queue, SignalAt(p) PROVE \E r \in DOMAIN queue' : SignalAt(r)'
    <3>1. p \in Nat /\ queue[p] = EndSignal /\ (n - p) + u < M
      BY <2>7, QueuePlaces DEF SignalAt, n, u, M
    <3>2. CASE MQ!Full
      <4>1. p # 1 /\ (n - (p - 1)) + (u - 1) < M
        BY <2>3, <2>4, <2>5, <3>1, <3>2
      <4>2. p - 1 \in DOMAIN queue' /\ queue'[p - 1] = EndSignal
        BY <2>5, <3>1, <3>2, <4>1
      <4>3. SignalAt(p - 1)'
        BY <2>3, <2>5, <3>2, <4>1, <4>2 DEF SignalAt, M
      <4> QED
        BY <4>2, <4>3
    <3>3. CASE ~MQ!Full
      <4>1. ((n + 1) - p) + (u - 1) < M
        BY <2>3, <2>4, <3>1
      <4>2. p \in DOMAIN queue' /\ queue'[p] = EndSignal
        BY <2>5, <3>1, <3>3
      <4>3. SignalAt(p)'
        BY <2>3, <2>5, <3>3, <4>1, <4>2 DEF SignalAt, M
      <4> QED
        BY <4>2, <4>3
    <3> QED
      BY <3>2, <3>3
  <2> QED
    BY <1>1, <2>6, <2>7 DEF SignalInv, M
<1>3. CASE Generated(s) \/ GenerationFails(s) \/ PutReturned(s)
  <2>1. queue' = queue
    BY <1>3 DEF Generated, GenerationFails, PutReturned, mqVars
  <2> QED
    BY <1>1, <2>1, UnputTask, SignalFrame
<1> QED
  BY <1>2, <1>3 DEF Rollout, TaskStep

\* The end signal is put when no sample, or after a failure fewer than the queue holds,
\* can follow it.
LEMMA SignalMain ==
  ASSUME TypeInv, HandInv, EndInv, SlotInv, SignalInv, Rollout(Main)
  PROVE  SignalInv'
<1>1. UNCHANGED <<task, trainPc>>
  BY DEF Rollout, Main, trainVars
<1>2. Unput' = Unput
  BY <1>1 DEF Unput
<1>3. CASE SendEndSignal
  <2>1. /\ MQ!PutSample(EndSignal) /\ EndSignal \in Items
        /\ mainPc \in {"sendEnd", "sendEndThenRaise"}
    BY <1>3, ItemsType DEF SendEndSignal
  <2>2. Cardinality(Unput) \in Nat /\ Cardinality(Unput) < MaxRequiredSamples
    <3>1. CASE mainPc = "sendEnd"
      <4>1. active = {}
        BY <3>1 DEF EndInv
      <4>2. Unput = {}
        BY <4>1 DEF HandInv, Unput, Unfinished
      <4> QED
        BY <4>2, FS_EmptySet, MaxRequiredType
    <3>2. CASE mainPc = "sendEndThenRaise"
      BY <3>2, SetTypes, SamplesFinite DEF SlotInv
    <3> QED
      BY <2>1, <3>1, <3>2
  <2>3. /\ Len(queue') \in Nat /\ Len(queue') \in DOMAIN queue'
        /\ queue'[Len(queue')] = EndSignal /\ Len(queue) \in Nat
        /\ MQ!Full => Len(queue') = Len(queue)
        /\ ~MQ!Full => Len(queue') = Len(queue) + 1 /\ Len(queue) < MaxRequiredSamples
    BY <2>1, PutPlaces
  <2>4. Len(queue') <= MaxRequiredSamples
    BY <2>3, MaxRequiredType DEF SignalInv
  <2>5. (Len(queue') - Len(queue')) + Cardinality(Unput') < MaxRequiredSamples
    BY <1>2, <2>2, <2>3
  <2>6. SignalAt(Len(queue))'
    BY <2>3, <2>5 DEF SignalAt
  <2> QED
    BY <2>3, <2>4, <2>6 DEF SignalInv
<1>4. CASE MainFail \/ MainComplete \/ ClearRunning \/ MainJoinsLine
  <2>1. queue' = queue /\ (mainPc' \in Ended => mainPc \in Ended)
    BY <1>4 DEF MainFail, MainComplete, ClearRunning, MainJoinsLine, mqVars, Ended
  <2> QED
    BY <1>1, <1>2, <2>1, SignalFrame
<1> QED
  BY <1>3, <1>4 DEF Rollout, Main

\* The trainer that takes the end signal stops.
LEMMA SignalTrain ==
  ASSUME TypeInv, SignalInv, Train(TrainNext) \/ DriverEnds
  PROVE  SignalInv'
<1>1. UNCHANGED <<mainPc, task>>
  BY DEF Train, DriverEnds, rolloutVars, lifeVars
<1>2. Unput' = Unput
  BY <1>1 DEF Unput
<1>3. CASE TakeSample
  <2>1. queue # <<>> /\ queue' = Tail(queue) /\ (Head(queue) = EndSignal => trainPc' = "stop")
        /\ trainPc = "collect"
    BY <1>3 DEF TakeSample, MQ!GetSample
  <2> DEFINE n == Len(queue)
             u == Cardinality(Unput)
             M == MaxRequiredSamples
  <2>2. /\ n \in Nat \ {0} /\ Len(queue') = n - 1 /\ Head(queue) = queue[1]
        /\ \A p \in DOMAIN queue :
             p \in Nat /\ (p # 1 => p - 1 \in DOMAIN queue' /\ queue'[p - 1] = queue[p])
    BY <2>1, QueuePlaces, TailPlaces
  <2>3. u \in Nat /\ M \in Nat \ {0} /\ n <= M
    BY SetTypes, SamplesFinite, MaxRequiredType DEF SignalInv
  <2> HIDE DEF n, u, M
  <2>4. Len(queue') <= M
    BY <2>2, <2>3
  <2>5. ASSUME mainPc' \in Ended, trainPc' # "stop"
        PROVE  \E r \in DOMAIN queue' : SignalAt(r)'
    <3>1. PICK p \in DOMAIN queue : SignalAt(p)
      BY <1>1, <2>1, <2>5 DEF SignalInv, Stopped
    <3>2. p # 1
      BY <2>1, <2>2, <2>5, <3>1 DEF SignalAt
    <3>3. p - 1 \in DOMAIN queue' /\ queue'[p - 1] = EndSignal
      BY <2>2, <3>1, <3>2 DEF SignalAt
    <3>4. ((n - 1) - (p - 1)) + u < M
      <4>1. (n - p) + u < M /\ p \in Nat
        BY <2>2, <3>1 DEF SignalAt, n, u, M
      <4> QED
        BY <2>2, <2>3, <4>1
    <3>5. SignalAt(p - 1)'
      BY <1>2, <2>2, <3>3, <3>4 DEF SignalAt, u, M
    <3> QED
      BY <3>3, <3>5
  <2> QED
    BY <2>4, <2>5 DEF SignalInv, Stopped, M
<1>4. CASE DriverEnds
  <2>1. queue' = <<>> /\ trainPc' = "done"
    BY <1>4 DEF DriverEnds, MQ!ClearQueue, trainVars
  <2>2. Len(queue') <= MaxRequiredSamples
    BY <2>1, EmptySeq, MaxRequiredType
  <2> QED
    BY <2>1, <2>2 DEF SignalInv, Stopped
<1>5. CASE WaitSample \/ TrainStep \/ UpdateWeights \/ ResetReturns \/ FitSaveCheckpoint
           \/ AfterLoop
  <2>1. queue' = queue /\ (trainPc \in Stopped => trainPc' \in Stopped)
    BY <1>5 DEF WaitSample, TrainStep, UpdateWeights, ResetReturns, FitSaveCheckpoint,
                AfterLoop, MQ!GetWait, mqVars, trainVars, Stopped
  <2> QED
    BY <1>1, <1>2, <2>1, SignalFrame
<1> QED
  BY <1>3, <1>4, <1>5 DEF Train, TrainNext

\* A processor that has ended, or failed, creates no task any more.
LEMMA SignalProcessor ==
  ASSUME TypeInv, EndInv, SlotInv, SignalInv, Rollout(Processor)
  PROVE  SignalInv'
<1>1. UNCHANGED <<queue, mainPc, trainPc>>
  BY DEF Rollout, Processor, lifeVars, mqVars, trainVars
<1>2. CASE Dispatch
  <2>1. procPc = "dispatch"
    BY <1>2 DEF Dispatch
  <2>2. mainPc \notin Ended
    BY <2>1 DEF EndInv, SlotInv, Ended
  <2> QED
    BY <1>1, <2>2 DEF SignalInv
<1>3. CASE LoopTop \/ SetPaused \/ AcquireToReap \/ Reap \/ LeaveReapLoop \/ WaitUnpaused
           \/ TakePending \/ ProcJoinsLine
  <2>1. task' = task
    BY <1>3 DEF LoopTop, SetPaused, AcquireToReap, Reap, LeaveReapLoop, WaitUnpaused,
                TakePending, ProcJoinsLine, procVars
  <2>2. Unput' = Unput
    BY <2>1 DEF Unput
  <2> QED
    BY <1>1, <2>2, SignalFrame
<1> QED
  BY <1>2, <1>3 DEF Rollout, Processor

\* Every step of the pipeline keeps SignalInv.
LEMMA SignalStep ==
  ASSUME TypeInv, HandInv, EndInv, SlotInv, SignalInv, [Next]_vars
  PROVE  SignalInv'
<1>1. CASE Rollout(Feeder) \/ Rollout(ResetStaleness) \/ Rollout(Monitor) \/ UNCHANGED vars
  <2>1. UNCHANGED <<queue, task, mainPc, trainPc>>
    BY <1>1 DEF Rollout, Feeder, ResetStaleness, Monitor, vars, rolloutVars, lifeVars,
                mqVars, trainVars
  <2>2. Unput' = Unput
    BY <2>1 DEF Unput
  <2> QED
    BY <2>1, <2>2, SignalFrame
<1> QED
  BY <1>1, StepCases, SignalProcessor, SignalTask, SignalMain, SignalTrain

\* SlotInv and SignalInv hold of every behaviour.
LEMMA SignalInvariant == Spec => [](SlotInv /\ SignalInv)
<1>1. Init => SignalInv
  <2> SUFFICES ASSUME Init PROVE SignalInv
    OBVIOUS
  <2>1. queue = <<>> /\ mainPc = "await"
    BY DEF Init, RolloutInit, ChannelInit, MQ!Init
  <2>2. Len(queue) <= MaxRequiredSamples
    BY <2>1, EmptySeq, MaxRequiredType
  <2> QED
    BY <2>1, <2>2 DEF SignalInv, Ended
<1>2. TypeInv /\ HandInv /\ (FlowInv /\ EndInv) /\ (SlotInv /\ SignalInv) /\ [Next]_vars
        => (SlotInv /\ SignalInv)'
  BY SlotStep, SignalStep
<1> QED
  BY <1>1, <1>2, SlotInit, TypeInvariant, HandInvariant, FlowInvariant, PTL DEF Spec

\* Lines 571-573, the finally clause: once sent, the end signal is not pushed out of the
\* queue by the tasks that a failure left behind, because they are fewer than its places.
THEOREM EndSignalReachesTrainer == Spec => []EndSignalSurvives
<1>1. SignalInv => EndSignalSurvives
  BY DEF SignalInv, SignalAt, EndSignalSurvives, Ended, Stopped
<1> QED
  BY <1>1, SignalInvariant, PTL

\* Where the samples that were put are.
PutSet == {s \in Samples : task[s] \in Put}
Arrived == Queued \cup InBatch \cup trained

\* A step that keeps the samples put and those still there, while the trainer runs.
LEMMA LossFrame ==
  ASSUME LossInv, trainPc' \in Live => trainPc \in Live /\ PutSet' = PutSet /\ Arrived' = Arrived,
         dropped_samples' = dropped_samples
  PROVE  LossInv'
<1>1. Missing = PutSet \ Arrived /\ Missing' = PutSet' \ Arrived'
  BY DEF Missing, PutSet, Arrived
<1>2. ASSUME trainPc' \in Live PROVE Cardinality(Missing') = dropped_samples'
  <2>1. Missing' = Missing /\ trainPc \in Live
    BY <1>1, <1>2
  <2> QED
    BY <2>1 DEF LossInv
<1> QED
  BY <1>2 DEF LossInv

\* A put by a task or of the end signal loses the oldest sample of a full queue, and
\* counts it.
LEMMA LossPut ==
  ASSUME TypeInv, FlowInv, LossInv, NEW x \in Items, MQ!PutSample(x),
         UNCHANGED <<batch, trained, trainPc>>,
         PutSet' = PutSet \cup ({x} \ {EndSignal}),
         x \notin Entries(queue), x \notin PutSet, x \notin InBatch, x \notin trained,
         MQ!Full /\ trainPc \in Live => Head(queue) # EndSignal
  PROVE  LossInv'
<1> SUFFICES ASSUME trainPc \in Live PROVE Cardinality(Missing') = dropped_samples'
  BY DEF LossInv
<1>1. /\ Missing \in SUBSET Samples /\ IsFiniteSet(Missing) /\ Cardinality(Missing) \in Nat
      /\ Cardinality(Missing) = dropped_samples
  <2>1. Missing \in SUBSET Samples
    BY DEF Missing
  <2> QED
    BY <2>1, SamplesFinite DEF LossInv
<1>2. InBatch' = InBatch /\ trained' = trained
  BY DEF InBatch
<1>3. Queued = Entries(queue) \ {EndSignal} /\ Queued' = Entries(queue') \ {EndSignal}
  BY DEF Queued, SamplesIn, Entries
<1>4. Missing = PutSet \ Arrived /\ Missing' = PutSet' \ Arrived'
  BY DEF Missing, PutSet, Arrived
<1>5. EndSignal \notin PutSet
  BY SamplesFinite DEF PutSet
<1>6. CASE MQ!Full
  <2> DEFINE h == Head(queue)
             t == Tail(queue)
  <2>1. /\ dropped_samples' = dropped_samples + 1
        /\ Entries(queue') = Entries(t) \cup {x} /\ Entries(queue) = Entries(t) \cup {h}
        /\ h \notin Entries(t) /\ h \in Items
    BY <1>6, PutPlaces DEF FlowInv
  <2>2. h # EndSignal /\ h \in Samples
    BY <1>6, <2>1, ItemsType
  <2> HIDE DEF h, t
  <2>3. h \in PutSet /\ h \notin InBatch /\ h \notin trained
    <3>1. StageInv(h) /\ h \in Entries(queue)
      BY <2>1, <2>2 DEF FlowInv
    <3> QED
      BY <2>2, <3>1 DEF StageInv, PutSet, Put, InBatch, Entries
  <2>4. h # x /\ h \notin Missing
    BY <1>3, <1>4, <2>1, <2>2 DEF Arrived
  <2>5. Missing' = Missing \cup {h}
    BY <1>2, <1>3, <1>4, <1>5, <2>1, <2>2, <2>3, <2>4 DEF Arrived
  <2>6. Cardinality(Missing') = Cardinality(Missing) + 1
    BY <1>1, <2>4, <2>5, FS_AddElement
  <2> QED
    BY <1>1, <2>1, <2>6
<1>7. CASE ~MQ!Full
  <2>1. dropped_samples' = dropped_samples /\ Entries(queue') = Entries(queue) \cup {x}
    BY <1>7, PutPlaces
  <2>2. Missing' = Missing
    BY <1>2, <1>3, <1>4, <2>1 DEF Arrived
  <2> QED
    BY <1>1, <2>1, <2>2
<1> QED
  BY <1>6, <1>7

\* While the trainer runs, a task's put never displaces the end signal.
LEMMA HeadIsSample ==
  ASSUME TypeInv, FlowInv, SignalInv, MQ!Full, trainPc \in Live, Unput # {}
  PROVE  Head(queue) # EndSignal
<1> SUFFICES ASSUME Head(queue) = EndSignal PROVE FALSE
  OBVIOUS
<1>1. queue \in Seq(Items) /\ Len(queue) \in Nat /\ Len(queue) >= MaxRequiredSamples
  BY QueuePlaces DEF MQ!Full
<1>2. queue # <<>>
  BY <1>1, MaxRequiredType, EmptySeq
<1>3. 1 \in DOMAIN queue /\ queue[1] = EndSignal
  BY <1>1, <1>2, TailPlaces
<1>4. mainPc \in Ended
  BY <1>3 DEF FlowInv, Entries, Ended
<1>5. PICK p \in DOMAIN queue : SignalAt(p)
  BY <1>4 DEF SignalInv, Live, Stopped
<1>6. p = 1
  BY <1>3, <1>5 DEF SignalAt, FlowInv, Once
<1>7. Cardinality(Unput) \in Nat /\ Cardinality(Unput) # 0
  BY SetTypes, SamplesFinite, FS_EmptySet
<1>8. (Len(queue) - 1) + Cardinality(Unput) < MaxRequiredSamples
  BY <1>5, <1>6 DEF SignalAt
<1> QED
  BY <1>1, <1>7, <1>8, MaxRequiredType

\* Every step of the pipeline keeps LossInv.
LEMMA LossStep ==
  ASSUME TypeInv, HandInv, FlowInv, SignalInv, LossInv, [Next]_vars
  PROVE  LossInv'
<1>1. ASSUME NEW s \in Samples, Rollout(TaskStep(s)) PROVE LossInv'
  <2>1. UNCHANGED <<batch, trained, trainPc>>
    BY <1>1 DEF Rollout, TaskStep, trainVars
  <2>2. task \in [Samples -> TaskState]
    BY DEF TypeInv, TypeOK, RolloutTypeOK
  <2>3. CASE PutArrives(s)
    <3>1. MQ!PutSample(s) /\ s \in Items /\ task[s] = "putting" /\ s # EndSignal
      BY <2>3, ItemsType, SamplesFinite DEF PutArrives
    <3>2. PutSet' = PutSet \cup {s}
      BY <2>2, <2>3 DEF PutArrives, PutSet, Put
    <3>3. /\ s \notin Entries(queue) /\ s \notin PutSet /\ s \notin InBatch /\ s \notin trained
      <4>1. StageInv(s)
        BY DEF FlowInv
      <4> QED
        BY <3>1, <4>1 DEF StageInv, PutSet, Put, InBatch, Entries
    <3>4. s \in Unput
      BY <3>1 DEF Unput
    <3>5. MQ!Full /\ trainPc \in Live => Head(queue) # EndSignal
      BY <3>4, HeadIsSample
    <3>6. PutSet' = PutSet \cup ({s} \ {EndSignal})
      BY <3>1, <3>2
    <3> QED
      BY <2>1, <3>1, <3>3, <3>5, <3>6, LossPut
  <2>4. CASE Generated(s) \/ GenerationFails(s) \/ PutReturned(s)
    <3>1. PutSet' = PutSet /\ UNCHANGED <<queue, dropped_samples>>
      BY <2>2, <2>4 DEF Generated, GenerationFails, PutReturned, PutSet, Put, mqVars
    <3>2. Arrived' = Arrived
      BY <2>1, <3>1 DEF Arrived, Queued, SamplesIn, InBatch
    <3> QED
      BY <2>1, <3>1, <3>2, LossFrame
  <2> QED
    BY <1>1, <2>3, <2>4 DEF Rollout, TaskStep
<1>2. CASE Rollout(Main) /\ SendEndSignal
  <2>1. UNCHANGED <<task, batch, trained, trainPc>> /\ MQ!PutSample(EndSignal)
        /\ EndSignal \in Items /\ mainPc \notin Ended
    BY <1>2, ItemsType DEF Rollout, Main, SendEndSignal, trainVars, Ended
  <2>2. EndSignal \notin Entries(queue)
    BY <2>1 DEF FlowInv, Ended
  <2>3. EndSignal \notin PutSet /\ EndSignal \notin InBatch /\ EndSignal \notin trained
    <3>1. InBatch \subseteq Samples /\ trained \subseteq Samples /\ PutSet \subseteq Samples
      BY LenProperties, ElementOfSeq DEF TypeInv, TypeOK, TrainTypeOK, InBatch, PutSet
    <3> QED
      BY <3>1, SamplesFinite
  <2>4. PutSet' = PutSet \cup ({EndSignal} \ {EndSignal})
    BY <2>1 DEF PutSet
  <2>5. MQ!Full => Head(queue) # EndSignal
    BY <2>1, <2>2, PutPlaces
  <2> QED
    BY <2>1, <2>2, <2>3, <2>4, <2>5, LossPut
<1>3. CASE Rollout(Processor)
  <2>1. UNCHANGED <<queue, dropped_samples, batch, trained, trainPc>>
    BY <1>3 DEF Rollout, Processor, mqVars, trainVars
  <2>2. Arrived' = Arrived
    BY <2>1 DEF Arrived, Queued, SamplesIn, InBatch
  <2>3. PutSet' = PutSet
    <3>1. CASE Dispatch
      <4>1. /\ held \in Samples /\ task \in [Samples -> TaskState]
            /\ task' = [task EXCEPT ![held] = "generating"]
        BY <3>1 DEF TypeInv, TypeOK, RolloutTypeOK, Dispatch
      <4>2. task[held] = "none"
        BY <4>1 DEF FlowInv, StageInv
      <4> QED
        BY <4>1, <4>2 DEF PutSet, Put
    <3>2. CASE ~Dispatch
      <4>1. task' = task
        BY <1>3, <3>2 DEF Rollout, Processor, LoopTop, SetPaused, AcquireToReap, Reap,
                          LeaveReapLoop, WaitUnpaused, TakePending, ProcJoinsLine, procVars
      <4> QED
        BY <4>1 DEF PutSet
    <3> QED
      BY <3>1, <3>2
  <2> QED
    BY <2>1, <2>2, <2>3, LossFrame
<1>4. CASE Train(TrainNext) \/ DriverEnds
  <2>1. task' = task /\ dropped_samples' = dropped_samples
    BY <1>4 DEF Train, TrainNext, TakeSample, WaitSample, TrainStep, UpdateWeights,
                ResetReturns, FitSaveCheckpoint, AfterLoop, MQ!GetSample, MQ!GetWait,
                MQ!counters, DriverEnds, MQ!ClearQueue, rolloutVars, mqVars
  <2>2. PutSet' = PutSet
    BY <2>1 DEF PutSet
  <2>3. trainPc' \in Live => trainPc \in Live
    BY <1>4 DEF Train, TrainNext, TakeSample, WaitSample, TrainStep, UpdateWeights,
                ResetReturns, FitSaveCheckpoint, AfterLoop, DriverEnds, trainVars, Live
  <2>4. ASSUME trainPc' \in Live PROVE Arrived' = Arrived
    <3>1. CASE TakeSample
      <4> DEFINE h == Head(queue)
      <4>1. /\ h \in Entries(queue) /\ Entries(queue') \subseteq Entries(queue)
            /\ Entries(queue) \subseteq Entries(queue') \cup {h}
            /\ h # EndSignal => InBatch' = InBatch \cup {h}
        BY <3>1, HeadTaken
      <4>2. h # EndSignal /\ trained' = trained
        BY <2>4, <3>1 DEF TakeSample, Live
      <4> HIDE DEF h
      <4>3. Queued = Entries(queue) \ {EndSignal} /\ Queued' = Entries(queue') \ {EndSignal}
        BY DEF Queued, SamplesIn, Entries
      <4> QED
        BY <4>1, <4>2, <4>3 DEF Arrived
    <3>2. CASE TrainStep
      <4>1. /\ queue' = queue /\ trained' = trained \cup InBatch /\ batch' = <<>>
        BY <3>2 DEF TrainStep, InBatch, mqVars
      <4>2. Queued' = Queued /\ InBatch' = {}
        BY <4>1, EmptySeq DEF Queued, SamplesIn, InBatch
      <4> QED
        BY <4>1, <4>2 DEF Arrived
    <3>3. CASE DriverEnds
      BY <2>4, <3>3 DEF DriverEnds, trainVars, Live
    <3>4. CASE WaitSample \/ UpdateWeights \/ ResetReturns \/ FitSaveCheckpoint \/ AfterLoop
      <4>1. UNCHANGED <<queue, batch, trained>>
        BY <3>4 DEF WaitSample, UpdateWeights, ResetReturns, FitSaveCheckpoint, AfterLoop,
                    MQ!GetWait, mqVars, trainVars
      <4> QED
        BY <4>1 DEF Arrived, Queued, SamplesIn, InBatch
    <3> QED
      BY <1>4, <3>1, <3>2, <3>3, <3>4 DEF Train, TrainNext
  <2> QED
    BY <2>1, <2>2, <2>3, <2>4, LossFrame
<1>5. CASE \/ Rollout(Feeder) \/ Rollout(ResetStaleness) \/ Rollout(Monitor) \/ UNCHANGED vars
           \/ Rollout(Main) /\ ~SendEndSignal
  <2>1. UNCHANGED <<queue, dropped_samples, task, batch, trained, trainPc>>
    BY <1>5 DEF Rollout, Feeder, ResetStaleness, Monitor, Main, MainFail, MainComplete,
                ClearRunning, MainJoinsLine, vars, rolloutVars, mqVars, trainVars
  <2>2. Arrived' = Arrived /\ PutSet' = PutSet
    BY <2>1 DEF Arrived, Queued, SamplesIn, InBatch, PutSet
  <2> QED
    BY <2>1, <2>2, LossFrame
<1> QED
  BY <1>1, <1>2, <1>3, <1>4, <1>5, StepCases

\* LossInv holds of every behaviour.
LEMMA LossInvariant == Spec => []LossInv
<1>1. Init => LossInv
  <2> SUFFICES ASSUME Init PROVE LossInv
    OBVIOUS
  <2>1. dropped_samples = 0 /\ \A s \in Samples : task[s] = "none"
    BY DEF Init, RolloutInit, ChannelInit, MQ!Init
  <2>2. Missing = {}
    BY <2>1 DEF Missing, Put
  <2> QED
    BY <2>1, <2>2, FS_EmptySet DEF LossInv
<1>2. TypeInv /\ HandInv /\ (FlowInv /\ EndInv) /\ (SlotInv /\ SignalInv) /\ LossInv
        /\ [Next]_vars => LossInv'
  BY LossStep
<1> QED
  BY <1>1, <1>2, TypeInvariant, HandInvariant, FlowInvariant, SignalInvariant, PTL DEF Spec

\* put_sample, lines 66-70: while the trainer runs, the samples that were handed to a task and
\* are nowhere any more are exactly those in dropped_samples; the end signal is not among them.
THEOREM EveryLossCounted == Spec => []LossesCounted
<1>1. ASSUME TypeInv, FlowInv, LossInv PROVE LossesCounted
  <2>1. UNION {Places[i] : i \in DOMAIN Places} =
          SamplesIn(pending) \cup InHand \cup Unput \cup Queued \cup InBatch \cup trained \cup Failed
    BY DEF Places
  <2>2. ASSUME NEW s \in Samples
        PROVE  s \in Started \ UNION {Places[i] : i \in DOMAIN Places} <=> s \in Missing
    <3>1. StageInv(s) /\ s # EndSignal /\ task[s] \in TaskState
      BY <1>1, SamplesFinite DEF FlowInv, TypeInv, TypeOK, RolloutTypeOK
    <3>2. s \in SamplesIn(pending) \/ s \in InHand => task[s] = "none"
      BY <3>1 DEF StageInv, SamplesIn, Entries, InHand
    <3> QED
      BY <2>1, <3>1, <3>2 DEF Started, Unput, Failed, Missing, Put, TaskState
  <2>3. Started \ UNION {Places[i] : i \in DOMAIN Places} = Missing
    <3>1. Started \subseteq Samples /\ Missing \subseteq Samples
      BY DEF Started, Missing
    <3> QED
      BY <2>2, <3>1
  <2> QED
    BY <1>1, <2>3 DEF LossesCounted, LossInv, Live
<1> QED
  BY <1>1, LossInvariant, TypeInvariant, FlowInvariant, PTL

-----------------------------------------------------------------------------
\* Layer 7: how long a sample waits, in parameter versions.

\* Samples taken by the trainer, and samples it takes for each version.
Consumed == Cardinality(trained) + Len(batch)
PerVersion == RequiredSamples * TriggerParameterSyncStep

\* The servers have the trainer's version, but between its update and the transfer.
ServedInv ==
  /\ trainPc = "sync" => /\ server_version + 1 = current_param_version
                         /\ local_trigger_step = 1 /\ Len(batch) = 0
  /\ trainPc # "sync" => server_version = current_param_version

\* The sample at place i of the queue was put when at most MaxRequiredSamples - i samples
\* fewer had been taken than now, and these belong to the version served then.
Waits(i) ==
  queue[i] \in Samples =>
    Consumed + i <= PerVersion * (queuedAt[queue[i]] + 1) + MaxRequiredSamples
WaitInv ==
  /\ \A i \in DOMAIN queue : Waits(i)
  /\ QueueWaitBounded

\* The counts and the queue's version stamps are numbers.
LEMMA WaitTypes ==
  ASSUME TypeInv
  PROVE  /\ Cardinality(trained) \in Nat /\ Len(batch) \in Nat /\ Consumed \in Nat
         /\ PerVersion \in Nat \ {0}
         /\ \A s \in Samples : queuedAt[s] \in Nat /\ PerVersion * (queuedAt[s] + 1) \in Nat
         /\ server_version \in Nat /\ current_param_version \in Nat
<1>1. trained \in SUBSET Samples /\ batch \in Seq(Samples) /\ queuedAt \in [Samples -> Nat]
      /\ server_version \in Nat /\ current_param_version \in Nat
  BY DEF TypeInv, TypeOK, TrainTypeOK, RolloutTypeOK
<1>2. Cardinality(trained) \in Nat /\ Len(batch) \in Nat
  BY <1>1, SamplesFinite, LenProperties
<1>3. PerVersion \in Nat \ {0}
  <2>1. TriggerParameterSyncStep * RequiredSamples \in Nat
        /\ TriggerParameterSyncStep * RequiredSamples >= RequiredSamples
    BY ProductAtLeast, ConfigAssumption
  <2>2. TriggerParameterSyncStep * RequiredSamples = PerVersion
    BY ConfigAssumption DEF PerVersion
  <2> QED
    BY <2>1, <2>2, ConfigAssumption
<1>4. ASSUME NEW s \in Samples PROVE queuedAt[s] \in Nat /\ PerVersion * (queuedAt[s] + 1) \in Nat
  <2>1. queuedAt[s] \in Nat
    BY <1>1
  <2> QED
    BY <1>3, <2>1
<1> QED
  BY <1>1, <1>2, <1>3, <1>4 DEF Consumed

\* What the trainer has taken belongs to the versions up to the one after the one served.
LEMMA ServedBound ==
  ASSUME TypeInv, TrainInv, ServedInv
  PROVE  Consumed <= PerVersion * (server_version + 1)
<1> DEFINE R == RequiredSamples
           T == TriggerParameterSyncStep
           v == current_param_version
           l == local_trigger_step
           b == Len(batch)
           c == Cardinality(trained)
<1>1. /\ R \in Nat \ {0} /\ T \in Nat \ {0} /\ v \in Nat /\ l \in 1 .. T
      /\ b \in Nat /\ b <= R /\ c \in Nat /\ server_version \in Nat
  BY WaitTypes, ConfigAssumption DEF TypeInv, TypeOK, TrainTypeOK
<1>2. c = R * (T * v + (l - 1))
  BY DEF TrainInv
<1>3. Consumed = c + b /\ PerVersion = R * T
  BY DEF Consumed, PerVersion
<1>4. trainPc = "sync" => server_version + 1 = v /\ l = 1 /\ b = 0
  BY DEF ServedInv
<1>5. trainPc # "sync" => server_version = v
  BY DEF ServedInv
<1> HIDE DEF R, T, v, l, b, c
<1>6. CASE trainPc = "sync"
  <2>1. T * v + (1 - 1) = T * v /\ R * (T * v) = (R * T) * v
    BY <1>1
  <2>2. c = (R * T) * (server_version + 1)
    BY <1>2, <1>4, <1>6, <2>1
  <2> QED
    BY <1>1, <1>3, <1>4, <1>6, <2>2
<1>7. CASE trainPc # "sync"
  <2> DEFINE k == T * v + (l - 1)
             m == T - l
  <2>1. k \in Nat /\ m \in Nat /\ T * (v + 1) = (k + 1) + m
    <3>1. T * (v + 1) = T * v + T /\ T * v \in Nat
      BY <1>1, Distributes
    <3> DEFINE x == T * v
    <3> HIDE DEF x
    <3>2. (x + (l - 1)) \in Nat /\ x + T = ((x + (l - 1)) + 1) + m
      BY <1>1, <3>1 DEF x
    <3> QED
      BY <1>1, <3>1, <3>2 DEF x
  <2> HIDE DEF k, m
  <2>2. R * (T * (v + 1)) = R * (k + 1) + R * m /\ R * (k + 1) = R * k + R
    BY <1>1, <2>1, Distributes
  <2>3. R * m \in Nat /\ R * k \in Nat
    BY <1>1, <2>1
  <2>4. R * (T * (v + 1)) = (R * T) * (v + 1)
    BY <1>1
  <2>5. c = R * k
    BY <1>2 DEF k
  <2>6. (R * T) * (v + 1) = (c + R) + R * m
    BY <1>1, <2>2, <2>3, <2>4, <2>5
  <2>7. c + b <= (R * T) * (v + 1)
    <3> DEFINE y == R * m
    <3>1. y \in Nat /\ (R * T) * (v + 1) = (c + R) + y
      BY <2>3, <2>6
    <3> HIDE DEF y
    <3> QED
      BY <1>1, <3>1
  <2> QED
    BY <1>3, <1>5, <1>7, <2>7
<1> QED
  BY <1>6, <1>7

\* From samples to versions.
LEMMA VersionsApart ==
  ASSUME NEW D \in Nat \ {0}, NEW M \in Nat \ {0}, NEW v \in Nat, NEW w \in Nat, NEW c \in Nat,
         D * v <= c, c + 1 <= D * (w + 1) + M
  PROVE  v - w <= 1 + (M - 1) \div D
<1> DEFINE q == (M - 1) \div D
<1>1. q \in Nat /\ M - 1 < D * q + D
  <2>1. M - 1 \in Nat
    OBVIOUS
  <2> QED
    BY <2>1
<1> HIDE DEF q
<1> SUFFICES ASSUME v >= w + q + 2 PROVE FALSE
  <2>1. v < w + q + 2 => v - w <= 1 + q
    BY <1>1
  <2>2. v < w + q + 2 \/ v >= w + q + 2
    BY <1>1
  <2> QED
    BY <2>1, <2>2 DEF q
<1> DEFINE m == v - (w + q + 2)
<1>2. m \in Nat /\ v = ((w + 1) + (q + 1)) + m
  BY <1>1
<1> HIDE DEF m
<1>3. D * v = D * ((w + 1) + (q + 1)) + D * m /\ D * m \in Nat
  BY <1>1, <1>2, Distributes
<1>4. D * ((w + 1) + (q + 1)) = D * (w + 1) + D * (q + 1) /\ D * (q + 1) = D * q + D
  BY <1>1, Distributes
<1>5. D * (w + 1) \in Nat /\ D * q \in Nat /\ D * v \in Nat
  BY <1>1
<1> DEFINE x == D * (w + 1)
           y == D * q
           z == D * m
<1>6. /\ x \in Nat /\ y \in Nat /\ z \in Nat /\ D * v = (x + (y + D)) + z
      /\ D * v <= c /\ c + 1 <= x + M /\ M - 1 < y + D
  BY <1>1, <1>3, <1>4, <1>5
<1> DEFINE u == D * v
<1>7. u \in Nat /\ u = (x + (y + D)) + z /\ u <= c
  BY <1>5, <1>6
<1> HIDE DEF x, y, z, u
<1> QED
  BY <1>6, <1>7

\* Only the trainer moves what ServedInv is about.
LEMMA OthersLeaveTrainer ==
  ASSUME [Next]_vars
  PROVE  Train(TrainNext) \/ UNCHANGED <<trainVars, server_version>>
<1>1. ASSUME NEW s \in Samples, Rollout(TaskStep(s)) PROVE UNCHANGED <<trainVars, server_version>>
  BY <1>1 DEF Rollout
<1>2. ASSUME \/ Rollout(Feeder) \/ Rollout(Processor) \/ Rollout(ResetStaleness)
             \/ Rollout(Monitor) \/ Rollout(Main) \/ DriverEnds \/ UNCHANGED vars
      PROVE  UNCHANGED <<trainVars, server_version>>
  BY <1>2 DEF Rollout, DriverEnds, vars
<1> QED
  BY <1>1, <1>2, StepCases

\* Every step of the pipeline keeps ServedInv.
LEMMA ServedStep ==
  ASSUME TypeInv, ServedInv, [Next]_vars
  PROVE  ServedInv'
<1>1. CASE UNCHANGED <<trainVars, server_version>>
  BY <1>1 DEF ServedInv, trainVars
<1>2. CASE TakeSample
  <2>1. UNCHANGED <<current_param_version, server_version>> /\ trainPc = "collect"
        /\ trainPc' # "sync"
    BY <1>2 DEF TakeSample
  <2> QED
    BY <2>1 DEF ServedInv
<1>3. CASE TrainStep
  <2>1. /\ trainPc = "step" /\ server_version' = server_version /\ batch' = <<>>
        /\ \/ trainPc' = "save" /\ UNCHANGED current_param_version
           \/ /\ trainPc' = "sync" /\ local_trigger_step' = 1
              /\ current_param_version' = current_param_version + 1
    BY <1>3 DEF TrainStep
  <2>2. Len(batch') = 0
    BY <2>1, EmptySeq
  <2> QED
    BY <2>1, <2>2 DEF ServedInv
<1>4. CASE UpdateWeights
  BY <1>4 DEF UpdateWeights, ServedInv
<1>5. CASE WaitSample \/ ResetReturns \/ FitSaveCheckpoint \/ AfterLoop
  <2>1. /\ UNCHANGED <<current_param_version, server_version, local_trigger_step, batch>>
        /\ trainPc' = "sync" <=> trainPc = "sync"
    BY <1>5 DEF WaitSample, ResetReturns, FitSaveCheckpoint, AfterLoop, trainVars
  <2> QED
    BY <2>1 DEF ServedInv
<1> QED
  BY <1>1, <1>2, <1>3, <1>4, <1>5, OthersLeaveTrainer DEF Train, TrainNext

\* A step that moves nothing in queue or batch.
LEMMA WaitFrame ==
  ASSUME TypeInv, WaitInv, UNCHANGED <<queue, batch, trained, current_param_version, queuedAt>>
  PROVE  WaitInv'
BY DEF WaitInv, Waits, QueueWaitBounded, InBatch, Consumed

\* A put: the other samples move to the front if at all, and the new one comes last, with
\* the version served now.
LEMMA WaitPut ==
  ASSUME TypeInv, FlowInv, TrainInv, ServedInv, SignalInv, SignalInv', WaitInv,
         NEW x \in Items, MQ!PutSample(x),
         UNCHANGED <<batch, trained, current_param_version>>,
         \A r \in Samples : r # x => queuedAt'[r] = queuedAt[r],
         x \in Samples => queuedAt'[x] = server_version,
         x \notin Entries(queue), x \notin InBatch
  PROVE  WaitInv'
<1> DEFINE M == MaxRequiredSamples
           n == Len(queue)
<1>1. M \in Nat \ {0} /\ n \in Nat /\ Len(queue') \in Nat /\ Len(queue') <= M
  BY PutPlaces, MaxRequiredType DEF SignalInv
<1>2. InBatch' = InBatch /\ InBatch \subseteq Samples /\ Consumed' = Consumed
  BY LenProperties, ElementOfSeq DEF InBatch, Consumed, TypeInv, TypeOK, TrainTypeOK
<1>3. QueueWaitBounded'
  <2>1. \A r \in InBatch : queuedAt'[r] = queuedAt[r]
    BY <1>2
  <2> QED
    BY <1>2, <2>1 DEF WaitInv, QueueWaitBounded
<1>4. queue \in Seq(Items) /\ queue' \in Seq(Items)
  <2>1. queue \in Seq(Items) /\ queue' = Append(IF MQ!Full THEN Tail(queue) ELSE queue, x)
    BY QueuePlaces DEF MQ!PutSample
  <2>2. CASE MQ!Full
    <3>1. Tail(queue) \in Seq(Items)
      BY <2>1, <2>2, PutPlaces, TailType
    <3> QED
      BY <2>1, <2>2, <3>1, AppendProperties
  <2>3. CASE ~MQ!Full
    BY <2>1, <2>3, AppendProperties
  <2> QED
    BY <2>2, <2>3
<1>5. \A i \in DOMAIN queue' : i \in Nat /\ 1 <= i /\ i <= Len(queue')
  BY <1>4, LenProperties
<1>6. \A i \in DOMAIN queue : i \in Nat /\ 1 <= i /\ i <= n
  BY QueuePlaces
<1>7. \A i \in 1 .. n : i \in DOMAIN queue
  BY <1>4, LenProperties
<1>8. queue'[Len(queue')] = x
  BY PutPlaces
<1>9. /\ MQ!Full => /\ Len(queue') = n
                    /\ \A p \in DOMAIN queue :
                         p # 1 => p - 1 \in DOMAIN queue' /\ queue'[p - 1] = queue[p]
      /\ ~MQ!Full => /\ Len(queue') = n + 1
                     /\ \A p \in DOMAIN queue : p \in DOMAIN queue' /\ queue'[p] = queue[p]
  BY PutPlaces
<1> HIDE DEF M, n
\* Every place but the last holds what was at the same place or the next.
<1>10. ASSUME NEW i \in DOMAIN queue', i # Len(queue')
       PROVE  \E p \in DOMAIN queue : queue'[i] = queue[p] /\ i <= p
  <2>1. i \in Nat /\ 1 <= i /\ i < Len(queue')
    BY <1>1, <1>5, <1>10
  <2>2. CASE MQ!Full
    <3>1. i + 1 \in DOMAIN queue /\ i + 1 # 1 /\ (i + 1) - 1 = i /\ i <= i + 1
      BY <1>1, <1>7, <1>9, <2>1, <2>2
    <3> QED
      BY <1>9, <2>2, <3>1
  <2>3. CASE ~MQ!Full
    <3>1. i \in DOMAIN queue
      BY <1>1, <1>7, <1>9, <2>1, <2>3
    <3> QED
      BY <1>9, <2>1, <2>3, <3>1
  <2> QED
    BY <2>2, <2>3
<1>11. ASSUME NEW i \in DOMAIN queue' PROVE Waits(i)'
  <2> SUFFICES ASSUME queue'[i] \in Samples
               PROVE  Consumed + i <= PerVersion * (queuedAt'[queue'[i]] + 1) + M
    BY <1>2 DEF Waits, M, PerVersion
  <2>1. i \in Nat /\ i <= M /\ Consumed \in Nat
    BY <1>1, <1>5, WaitTypes
  <2>2. CASE i = Len(queue')
    <3>1. queue'[i] = x /\ queuedAt'[queue'[i]] = server_version
      BY <1>8, <2>2
    <3>2. Consumed <= PerVersion * (server_version + 1)
      BY ServedBound
    <3> DEFINE y == PerVersion * (server_version + 1)
    <3>3. y \in Nat
      BY WaitTypes
    <3>4. Consumed <= y /\ y = PerVersion * (queuedAt'[queue'[i]] + 1)
      BY <3>1, <3>2
    <3> HIDE DEF y
    <3>5. Consumed + i <= y + M
      BY <1>1, <2>1, <3>3, <3>4
    <3> QED
      BY <3>4, <3>5
  <2>3. CASE i # Len(queue')
    <3>1. PICK p \in DOMAIN queue : queue'[i] = queue[p] /\ i <= p
      BY <1>10, <2>3
    <3> DEFINE s == queue[p]
               y == PerVersion * (queuedAt[s] + 1)
    <3>2. s \in Samples /\ Consumed + p <= y + M
      BY <3>1 DEF WaitInv, Waits, M
    <3>3. s # x /\ queuedAt'[s] = queuedAt[s]
      BY <3>2 DEF Entries
    <3>4. y \in Nat /\ p \in Nat /\ i <= p
      BY <1>6, <3>1, <3>2, WaitTypes
    <3>5. y = PerVersion * (queuedAt'[queue'[i]] + 1)
      BY <3>1, <3>3
    <3> HIDE DEF s, y
    <3>6. Consumed + i <= y + M
      BY <1>1, <2>1, <3>2, <3>4
    <3> QED
      BY <3>5, <3>6
  <2> QED
    BY <2>2, <2>3
<1> QED
  BY <1>3, <1>11 DEF WaitInv

\* The samples of the versions that are complete have been taken.
LEMMA VersionsTaken ==
  ASSUME TypeInv, TrainInv
  PROVE  PerVersion * current_param_version <= Consumed
<1> DEFINE R == RequiredSamples
           T == TriggerParameterSyncStep
           v == current_param_version
           k == local_trigger_step - 1
           b == Len(batch)
           c == Cardinality(trained)
<1>1. /\ R \in Nat \ {0} /\ T \in Nat \ {0} /\ v \in Nat /\ k \in Nat /\ b \in Nat /\ c \in Nat
  BY WaitTypes, ConfigAssumption DEF TypeInv, TypeOK, TrainTypeOK
<1>2. c = R * (T * v + k) /\ Consumed = c + b /\ PerVersion = R * T
  BY DEF TrainInv, Consumed, PerVersion
<1> HIDE DEF R, T, v, k, b, c
<1>3. R * (T * v + k) = R * (T * v) + R * k /\ R * (T * v) = (R * T) * v
  BY <1>1, Distributes
<1>4. R * k \in Nat /\ (R * T) * v \in Nat
  BY <1>1
<1> DEFINE x == (R * T) * v
           y == R * k
<1>5. c = x + y /\ x \in Nat /\ y \in Nat
  BY <1>2, <1>3, <1>4
<1>6. PerVersion * v = x
  BY <1>2
<1> HIDE DEF x, y
<1>7. x <= c + b
  BY <1>1, <1>5
<1> QED
  BY <1>2, <1>6, <1>7 DEF v

\* The trainer takes the first sample: the others move up by one while one more is taken.
LEMMA WaitTake ==
  ASSUME TypeInv, FlowInv, TrainInv, WaitInv, TakeSample, queuedAt' = queuedAt
  PROVE  WaitInv'
<1> DEFINE M == MaxRequiredSamples
           h == Head(queue)
<1>1. UNCHANGED <<trained, current_param_version>> /\ queue # <<>> /\ queue' = Tail(queue)
  BY DEF TakeSample, MQ!GetSample
<1>2. /\ h = queue[1] /\ 1 \in DOMAIN queue
      /\ \A i \in DOMAIN queue' : i + 1 \in DOMAIN queue /\ queue'[i] = queue[i + 1]
  BY <1>1, QueuePlaces, TailPlaces, EntriesTaken
<1>3. \A i \in DOMAIN queue' : i \in Nat
  <2>1. queue' \in Seq(Items)
    BY <1>1, QueuePlaces, TailType
  <2> QED
    BY <2>1, LenProperties
<1>4. /\ h # EndSignal => h \in Samples /\ InBatch' = InBatch \cup {h} /\ Len(batch') = Len(batch) + 1
      /\ h = EndSignal => InBatch' = {} /\ Len(batch') = 0
  BY HeadTaken
<1>5. Consumed' \in Nat /\ Consumed \in Nat /\ Consumed' <= Consumed + 1
  <2>1. Consumed = Cardinality(trained) + Len(batch) /\ Consumed' = Cardinality(trained) + Len(batch')
    BY <1>1 DEF Consumed
  <2>2. Cardinality(trained) \in Nat /\ Len(batch) \in Nat
    BY WaitTypes
  <2>3. Len(batch') = Len(batch) + 1 \/ Len(batch') = 0
    BY <1>4
  <2> DEFINE c == Cardinality(trained)
             b == Len(batch)
  <2> HIDE DEF c, b
  <2>4. Len(batch') \in Nat /\ Len(batch') <= b + 1
    BY <2>2, <2>3 DEF b
  <2> QED
    BY <2>1, <2>2, <2>4 DEF c, b
<1>6. M \in Nat \ {0}
  BY MaxRequiredType
<1> HIDE DEF M, h
<1>7. ASSUME NEW i \in DOMAIN queue' PROVE Waits(i)'
  <2> DEFINE s == queue'[i]
             y == PerVersion * (queuedAt[s] + 1)
  <2> SUFFICES ASSUME s \in Samples PROVE Consumed' + i <= y + M
    BY DEF Waits, M, PerVersion
  <2>1. i + 1 \in DOMAIN queue /\ s = queue[i + 1] /\ i \in Nat
    BY <1>2, <1>3
  <2>2. Consumed + (i + 1) <= y + M /\ y \in Nat
    BY <2>1, WaitTypes DEF WaitInv, Waits, M
  <2> HIDE DEF s, y
  <2> QED
    BY <1>5, <1>6, <2>1, <2>2
<1>8. QueueWaitBounded'
  <2>1. CASE h # EndSignal
    <3>1. h \in Samples /\ InBatch' = InBatch \cup {h}
      BY <1>4, <2>1
    <3> DEFINE v == current_param_version
               w == queuedAt[h]
    <3>2. Consumed + 1 <= PerVersion * (w + 1) + M /\ PerVersion * v <= Consumed
      BY <1>2, <3>1, VersionsTaken DEF WaitInv, Waits, M
    <3>3. v \in Nat /\ w \in Nat /\ PerVersion \in Nat \ {0}
      BY <3>1, WaitTypes
    <3>4. v - w <= 1 + (M - 1) \div PerVersion
      <4> HIDE DEF v, w
      <4> QED
        BY <1>5, <1>6, <3>2, <3>3, VersionsApart
    <3>5. v - w <= MaxQueueWait
      BY <3>4 DEF MaxQueueWait, PerVersion, M
    <3>6. \A r \in InBatch : v - queuedAt[r] <= MaxQueueWait
      BY DEF WaitInv, QueueWaitBounded
    <3> QED
      BY <1>1, <3>1, <3>5, <3>6 DEF QueueWaitBounded, MaxQueueWait
  <2>2. CASE h = EndSignal
    BY <1>4, <2>2 DEF QueueWaitBounded
  <2> QED
    BY <2>1, <2>2
<1> QED
  BY <1>7, <1>8 DEF WaitInv

\* Every step of the pipeline keeps WaitInv.
LEMMA WaitStep ==
  ASSUME TypeInv, FlowInv, TrainInv, ServedInv, SignalInv, SignalInv', WaitInv, [Next]_vars
  PROVE  WaitInv'
<1>1. ASSUME NEW s \in Samples, Rollout(TaskStep(s)) PROVE WaitInv'
  <2>1. UNCHANGED <<batch, trained, current_param_version>>
    BY <1>1 DEF Rollout, TaskStep, trainVars
  <2>2. CASE PutArrives(s)
    <3>1. MQ!PutSample(s) /\ s \in Items /\ task[s] = "putting"
      BY <2>2, ItemsType DEF PutArrives
    <3>2. queuedAt \in [Samples -> Nat] /\ queuedAt' = [queuedAt EXCEPT ![s] = server_version]
      BY <2>2 DEF TypeInv, TypeOK, RolloutTypeOK, PutArrives
    <3>3. s \notin Entries(queue) /\ s \notin InBatch
      <4>1. StageInv(s)
        BY DEF FlowInv
      <4> QED
        BY <3>1, <4>1 DEF StageInv, InBatch, Entries
    <3>4. queuedAt'[s] = server_version /\ \A r \in Samples : r # s => queuedAt'[r] = queuedAt[r]
      BY <3>2
    <3> QED
      BY <2>1, <3>1, <3>3, <3>4, WaitPut
  <2>3. CASE Generated(s) \/ GenerationFails(s) \/ PutReturned(s)
    <3>1. UNCHANGED <<queue, queuedAt>>
      BY <2>3 DEF Generated, GenerationFails, PutReturned, putVars, mqVars
    <3> QED
      BY <2>1, <3>1, WaitFrame
  <2> QED
    BY <1>1, <2>2, <2>3 DEF Rollout, TaskStep
<1>2. CASE Rollout(Main) /\ SendEndSignal
  <2>1. /\ MQ!PutSample(EndSignal) /\ EndSignal \in Items /\ mainPc \notin Ended
        /\ UNCHANGED <<batch, trained, current_param_version, queuedAt>>
    BY <1>2, ItemsType DEF Rollout, Main, SendEndSignal, putVars, trainVars, Ended
  <2>2. EndSignal \notin Entries(queue) /\ EndSignal \notin Samples
    BY <2>1, SamplesFinite DEF FlowInv, Ended
  <2>3. EndSignal \notin InBatch
    <3>1. InBatch \subseteq Samples
      BY LenProperties, ElementOfSeq DEF TypeInv, TypeOK, TrainTypeOK, InBatch
    <3> QED
      BY <2>2, <3>1
  <2> QED
    BY <2>1, <2>2, <2>3, WaitPut
<1>3. CASE Train(TrainNext)
  <2>1. queuedAt' = queuedAt
    BY <1>3 DEF Train, rolloutVars, putVars
  <2>2. CASE TakeSample
    BY <2>1, <2>2, WaitTake
  <2>3. CASE TrainStep
    <3>1. /\ queue' = queue /\ InBatch' = {} /\ Len(batch') = 0 /\ Len(batch) = RequiredSamples
          /\ Cardinality(trained') = Cardinality(trained) + RequiredSamples
      BY <2>3, BatchTrained DEF TrainStep, TrainInv, mqVars
    <3>2. Consumed' = Consumed
      <4>1. Consumed' = Cardinality(trained') + Len(batch') /\ Consumed = Cardinality(trained) + Len(batch)
        BY DEF Consumed
      <4>2. Cardinality(trained) \in Nat /\ RequiredSamples \in Nat
        BY WaitTypes, ConfigAssumption
      <4> QED
        BY <3>1, <4>1, <4>2
    <3>3. ASSUME NEW i \in DOMAIN queue' PROVE Waits(i)'
      <4>1. Waits(i)
        BY <3>1 DEF WaitInv
      <4> QED
        BY <2>1, <3>1, <3>2, <4>1 DEF Waits
    <3> QED
      BY <3>1, <3>3 DEF WaitInv, QueueWaitBounded
  <2>4. CASE WaitSample \/ UpdateWeights \/ ResetReturns \/ FitSaveCheckpoint \/ AfterLoop
    <3>1. UNCHANGED <<queue, batch, trained, current_param_version>>
      BY <2>4 DEF WaitSample, UpdateWeights, ResetReturns, FitSaveCheckpoint, AfterLoop,
                  MQ!GetWait, mqVars, trainVars
    <3> QED
      BY <2>1, <3>1, WaitFrame
  <2> QED
    BY <1>3, <2>2, <2>3, <2>4 DEF Train, TrainNext
<1>4. CASE DriverEnds
  <2>1. queue' = <<>> /\ UNCHANGED <<batch, current_param_version, queuedAt>>
    BY <1>4 DEF DriverEnds, MQ!ClearQueue, trainVars, rolloutVars, putVars
  <2>2. QueueWaitBounded' /\ \A i \in DOMAIN queue' : FALSE
    BY <2>1, EmptySeq DEF WaitInv, QueueWaitBounded, InBatch
  <2> QED
    BY <2>2 DEF WaitInv
<1>5. CASE \/ Rollout(Feeder) \/ Rollout(Processor) \/ Rollout(ResetStaleness)
           \/ Rollout(Monitor) \/ UNCHANGED vars
           \/ Rollout(Main) /\ ~SendEndSignal
  <2>1. UNCHANGED <<queue, batch, trained, current_param_version, queuedAt>>
    BY <1>5 DEF Rollout, Feeder, Processor, ResetStaleness, Monitor, Main, MainFail,
                MainComplete, ClearRunning, MainJoinsLine, vars, rolloutVars, putVars,
                mqVars, trainVars
  <2> QED
    BY <2>1, WaitFrame
<1> QED
  BY <1>1, <1>2, <1>3, <1>4, <1>5, StepCases

\* A sample is trained on at most MaxQueueWait versions after the one served when it was
\* queued, for every batch size, synchronisation interval and staleness threshold.
THEOREM FreshInQueue == Spec => []QueueWaitBounded
<1>1. Init => ServedInv /\ WaitInv
  <2> SUFFICES ASSUME Init PROVE ServedInv /\ WaitInv
    OBVIOUS
  <2>1. /\ queue = <<>> /\ batch = <<>> /\ trainPc = "collect"
        /\ server_version = 0 /\ current_param_version = 0
    BY DEF Init, TrainInit, ChannelInit, MQ!Init
  <2>2. InBatch = {} /\ \A i \in DOMAIN queue : FALSE
    BY <2>1, EmptySeq DEF InBatch
  <2> QED
    BY <2>1, <2>2 DEF ServedInv, WaitInv, QueueWaitBounded
<1>2. TypeInv /\ (FlowInv /\ EndInv) /\ TrainInv /\ (SlotInv /\ SignalInv) /\ (SlotInv /\ SignalInv)'
        /\ (ServedInv /\ WaitInv) /\ [Next]_vars => (ServedInv /\ WaitInv)'
  BY ServedStep, WaitStep
<1>3. WaitInv => QueueWaitBounded
  BY DEF WaitInv
<1> QED
  BY <1>1, <1>2, <1>3, TypeInvariant, FlowInvariant, TrainInvariant, SignalInvariant, PTL DEF Spec

-----------------------------------------------------------------------------
\* Layer 8: who can go on.  The guards of the actions, written out.

FeederMoves ==
  /\ eventLoop \in {"free", "feeder"}
  /\ feedPc \in {"feed", "end"} /\ Len(pending) < PendingCap
ProcessorMoves ==
  /\ eventLoop \in {"free", "processor"}
  /\ \/ procPc = "top"
     \/ procPc \in {"pause", "idle"} /\ HasLock("processor")
     \/ procPc = "dispatch" /\ HasLock("processor") /\ ~paused
     \/ procPc = "take" /\ pending # <<>>
     \/ procPc \in ReapLoops /\ (~KeepsReaping \/ lock = "free")
     \/ procPc \in ReapLoops /\ lock = "processor" /\ Finished # {}
     \/ ProcWantsLock /\ ~HasLock("processor") /\ ~InLine("processor")
TaskMoves(s) ==
  \/ task[s] = "putting"
  \/ eventLoop = "free" /\ task[s] \in {"generating", "stored", "displaced"}
ResetMoves ==
  \/ resetPc = "query"
  \/ eventLoop = "free" /\ resetPc = "reply"
  \/ eventLoop = "free" /\ resetPc = "called" /\ (HasLock("reset") \/ ~InLine("reset"))
MainMoves ==
  /\ eventLoop = "free"
  /\ \/ mainPc = "await" /\ (procPc = "failed" \/ (procPc = "done" /\ feedPc = "done"))
     \/ mainPc \in {"sendEnd", "sendEndThenRaise"}
     \/ mainPc = "stop" /\ (HasLock("main") \/ ~InLine("main"))
TrainerMoves ==
  \/ trainPc = "collect" /\ getter["trainer"] # "waiting" /\ (queue # <<>> \/ mq_running)
  \/ trainPc \in {"step", "sync", "save", "stop", "lastSync", "lastSave"}
  \/ trainPc \in {"reset", "lastReset"} /\ resetPc = "returned"
DriverMoves == driverPc = "run" /\ FitReturned /\ trainPc = "done"

\* The monitor goes on for as long as the Rollouter runs, mostly to sleep again.  It changes
\* something when it has the lock that others wait for, wakes the processor, or ends.
MonitorMoves ==
  /\ eventLoop = "free"
  /\ \/ monPc = "sleep"
     \/ monPc \in {"check", "wake"} /\ (HasLock("monitor") \/ ~InLine("monitor"))
MonitorHelps ==
  /\ MonitorMoves
  /\ \/ lock = "monitor"
     \/ procPc = "asleep" /\ paused /\ ~ShouldPause
     \/ monPc # "done" /\ ~r_running

SomeoneMoves ==
  \/ FeederMoves \/ ProcessorMoves \/ (\E s \in Samples : TaskMoves(s))
  \/ ResetMoves \/ MonitorHelps \/ MainMoves \/ TrainerMoves \/ DriverMoves

\* A Trainer that waits for a sample, and a processor that sleeps because the count of
\* reset_staleness leaves no sample to start.
Starved ==
  /\ trainPc = "collect" /\ queue = <<>> /\ procPc = "asleep" /\ active = {}
  /\ staleness_samples >= MaxRequiredSamples
Over == trainPc = "done" /\ (driverPc = "done" \/ mainPc = "raised")

\* Who has the lock or is in line for it is about to use it, and is there once.
UsesLock(c) ==
  \/ c = "processor" /\ ProcWantsLock
  \/ c = "reset" /\ resetPc \in {"called", "query", "reply"}
  \/ c = "monitor" /\ monPc \in {"check", "wake"}
  \/ c = "main" /\ mainPc = "stop"
LockInv ==
  /\ lock = "free" => lockQueue = <<>>
  /\ \A c \in LockUsers : lock = c \/ c \in Entries(lockQueue) => UsesLock(c)
  /\ Once(lockQueue) /\ lock \notin Entries(lockQueue)
  /\ "reset" \in Entries(lockQueue) => resetPc = "called"

\* The event loop belongs to a coroutine that has not suspended.
LoopInv ==
  /\ eventLoop = "feeder" => ~FeederSuspended /\ feedPc # "cancelled"
  /\ eventLoop = "processor" => ~ProcSuspended

\* Only the processor pauses, and it sleeps only while paused; a feeder that is done has put
\* the end signal, which stays until the processor takes it; a task that failed is found.
ProcInv ==
  /\ procPc = "asleep" => paused
  /\ procPc \in {"take", "cap", "dispatch"} => ~paused
  /\ feedPc = "done" => EndSignal \in Entries(pending) \/ procPc \in {"end", "done", "failed"}
  /\ feedPc = "cancelled" => procPc = "failed"
  /\ procPc # "failed" => Failed \subseteq active
  /\ \A t \in active : task[t] # "none"

\* The Trainer waits for the answer of a call it has made, and for samples only while there
\* are none; it stops when the end signal has been sent.
CallInv ==
  /\ trainPc \in {"reset", "lastReset"} <=> resetPc # "none"
  /\ getter["trainer"] = "waiting" => queue = <<>>
  /\ mq_running
  /\ trainPc \in Stopped => mainPc \in Ended
  /\ ~r_running <=> mainPc = "done"
  /\ monPc = "done" => ~r_running

MoveInv == LockInv /\ LoopInv /\ ProcInv /\ CallInv

\* Who is in line is an entry of the line.
LEMMA InLineEntry == \A c : InLine(c) <=> c \in Entries(lockQueue)
BY DEF InLine, Entries

\* A release hands the lock to the first in line.
LEMMA LineReleased ==
  ASSUME TypeInv, LockInv, Release
  PROVE  /\ Entries(lockQueue') \subseteq Entries(lockQueue)
         /\ lock' = "free" \/ lock' \in Entries(lockQueue)
         /\ lock' = "free" => lockQueue' = <<>>
         /\ Once(lockQueue') /\ lock' \notin Entries(lockQueue')
<1>1. lockQueue \in Seq(LockUsers)
  BY DEF TypeInv, TypeOK, RolloutTypeOK
<1>2. Entries(<<>>) = {} /\ Once(<<>>)
  BY EmptySeq DEF Entries, Once
<1>3. CASE lockQueue = <<>>
  BY <1>2, <1>3 DEF Release
<1>4. CASE lockQueue # <<>>
  <2>1. lock' = Head(lockQueue) /\ lockQueue' = Tail(lockQueue)
    BY <1>4 DEF Release
  <2>2. /\ Head(lockQueue) \in Entries(lockQueue)
        /\ Entries(Tail(lockQueue)) \subseteq Entries(lockQueue)
        /\ Once(Tail(lockQueue)) /\ Head(lockQueue) \notin Entries(Tail(lockQueue))
    BY <1>1, <1>4, EntriesTaken DEF LockInv
  <2>3. Head(lockQueue) \in LockUsers
    BY <1>1, <1>4, HeadTailProperties
  <2> QED
    BY <2>1, <2>2, <2>3 DEF LockUsers
<1> QED
  BY <1>3, <1>4

\* A step that leaves the lock and its line alone.
LEMMA LockStays ==
  ASSUME LockInv, UNCHANGED <<lock, lockQueue>>,
         \A d \in LockUsers : UsesLock(d) => UsesLock(d)',
         resetPc = "called" => resetPc' = "called"
  PROVE  LockInv'
BY DEF LockInv

\* Whoever has the lock uses it and gives it to the next in line.
LEMMA LockReleased ==
  ASSUME TypeInv, LockInv, NEW c \in LockUsers, HasLock(c), Release,
         \A d \in LockUsers \ {c} : UsesLock(d) => UsesLock(d)',
         c # "reset" => resetPc' = resetPc
  PROVE  LockInv'
<1>1. c \notin Entries(lockQueue)
  <2>1. CASE lock = "free"
    BY <2>1, EmptySeq DEF LockInv, Entries
  <2>2. CASE lock = c
    BY <2>2 DEF LockInv
  <2> QED
    BY <2>1, <2>2 DEF HasLock
<1>2. "free" \notin LockUsers
  BY DEF LockUsers
<1> QED
  BY <1>1, <1>2, LineReleased DEF LockInv

\* A coroutine that finds the lock taken goes to the end of its line.
LEMMA LockJoined ==
  ASSUME TypeInv, LockInv, NEW c \in LockUsers, JoinLine(c), lock' = lock, UsesLock(c)',
         \A d \in LockUsers : UsesLock(d) => UsesLock(d)',
         resetPc' = resetPc, c = "reset" => resetPc = "called"
  PROVE  LockInv'
<1>1. lockQueue \in Seq(LockUsers)
  BY DEF TypeInv, TypeOK, RolloutTypeOK
<1>2. c \notin Entries(lockQueue) /\ lock \notin {"free", c} /\ lockQueue' = Append(lockQueue, c)
  BY InLineEntry DEF JoinLine, HasLock
<1>3. Entries(lockQueue') = Entries(lockQueue) \cup {c} /\ Once(lockQueue')
  BY <1>1, <1>2, EntriesAppended DEF LockInv
<1> QED
  BY <1>2, <1>3 DEF LockInv

\* A coroutine that keeps the lock over a suspension.
LEMMA LockTaken ==
  ASSUME LockInv, NEW c \in LockUsers, HasLock(c), lock' = c, lockQueue' = lockQueue,
         UsesLock(c)', \A d \in LockUsers \ {c} : UsesLock(d) => UsesLock(d)',
         c # "reset" => resetPc' = resetPc
  PROVE  LockInv'
<1>1. c \notin Entries(lockQueue)
  <2>1. CASE lock = "free"
    BY <2>1, EmptySeq DEF LockInv, Entries
  <2>2. CASE lock = c
    BY <2>2 DEF LockInv
  <2> QED
    BY <2>1, <2>2 DEF HasLock
<1>2. "free" \notin LockUsers
  BY DEF LockUsers
<1> QED
  BY <1>1, <1>2 DEF LockInv

\* _processor_worker asks for the lock where it is to pause, to reap, to wait and to
\* create a task.
LEMMA LockProcessor ==
  ASSUME TypeInv, LockInv, Rollout(Processor)
  PROVE  LockInv'
<1>1. UNCHANGED <<resetPc, monPc, mainPc>>
  BY DEF Rollout, Processor, lifeVars
<1>2. \A d \in LockUsers \ {"processor"} : UsesLock(d) => UsesLock(d)'
  BY <1>1 DEF UsesLock
<1>3. "processor" \in LockUsers
  BY DEF LockUsers
<1>4. CASE LoopTop \/ LeaveReapLoop \/ TakePending
  <2>1. ~UsesLock("processor") /\ UNCHANGED <<lock, lockQueue>>
    BY <1>4 DEF LoopTop, LeaveReapLoop, TakePending, UsesLock, ProcWantsLock, ReapLoops, lockVars
  <2> QED
    BY <1>1, <1>2, <2>1, LockStays
<1>5. CASE SetPaused \/ Reap \/ WaitUnpaused \/ Dispatch
  <2>1. HasLock("processor") /\ Release
    BY <1>5 DEF SetPaused, Reap, WaitUnpaused, Dispatch, HasLock
  <2> QED
    BY <1>1, <1>2, <1>3, <2>1, LockReleased
<1>6. CASE AcquireToReap
  <2>1. /\ HasLock("processor") /\ lock' = "processor" /\ lockQueue' = lockQueue
        /\ UNCHANGED <<procPc, active>> /\ procPc \in ReapLoops /\ KeepsReaping
    BY <1>6 DEF AcquireToReap, HasLock, procVars
  <2>2. UsesLock("processor")'
    BY <2>1 DEF UsesLock, ProcWantsLock, KeepsReaping
  <2> QED
    BY <1>1, <1>2, <1>3, <2>1, <2>2, LockTaken
<1>7. CASE ProcJoinsLine
  <2>1. JoinLine("processor") /\ lock' = lock /\ UNCHANGED <<procPc, active>> /\ ProcWantsLock
    BY <1>7 DEF ProcJoinsLine, procVars
  <2>2. UsesLock("processor")'
    BY <2>1 DEF UsesLock, ProcWantsLock, KeepsReaping
  <2> QED
    BY <1>1, <1>2, <1>3, <2>1, <2>2, LockJoined
<1> QED
  BY <1>4, <1>5, <1>6, <1>7 DEF Rollout, Processor

\* reset_staleness has the lock from its first line to its last.
LEMMA LockReset ==
  ASSUME TypeInv, CountInv, LockInv, Rollout(ResetStaleness)
  PROVE  LockInv'
<1>1. UNCHANGED <<monPc, mainPc, active>> /\ (procPc' = procPc \/ procPc = "asleep")
  BY DEF Rollout, ResetStaleness, ResetAcquire, ResetQuery, ResetAssign, ResetJoinsLine,
         NotifyAll, lifeVars
<1>2. \A d \in LockUsers \ {"reset"} : UsesLock(d) => UsesLock(d)'
  BY <1>1 DEF UsesLock, ProcWantsLock, KeepsReaping, ReapLoops
<1>3. "reset" \in LockUsers
  BY DEF LockUsers
<1>4. CASE ResetAcquire
  <2>1. HasLock("reset") /\ lock' = "reset" /\ lockQueue' = lockQueue /\ resetPc' = "query"
    BY <1>4 DEF ResetAcquire
  <2>2. UsesLock("reset")'
    BY <2>1 DEF UsesLock
  <2> QED
    BY <1>2, <1>3, <2>1, <2>2, LockTaken
<1>5. CASE ResetQuery
  <2>1. UNCHANGED <<lock, lockQueue>> /\ resetPc # "called" /\ resetPc' = "reply"
    BY <1>5 DEF ResetQuery, lockVars
  <2>2. UsesLock("reset")'
    BY <2>1 DEF UsesLock
  <2> QED
    BY <1>2, <2>1, <2>2, LockStays
<1>6. CASE ResetAssign
  <2>1. HasLock("reset") /\ Release
    BY <1>6 DEF ResetAssign, CountInv, HasLock
  <2> QED
    BY <1>2, <1>3, <2>1, LockReleased
<1>7. CASE ResetJoinsLine
  <2>1. JoinLine("reset") /\ lock' = lock /\ resetPc = "called" /\ resetPc' = resetPc
    BY <1>7 DEF ResetJoinsLine
  <2>2. UsesLock("reset")'
    BY <2>1 DEF UsesLock
  <2> QED
    BY <1>2, <1>3, <2>1, <2>2, LockJoined
<1> QED
  BY <1>4, <1>5, <1>6, <1>7 DEF Rollout, ResetStaleness

\* _async_monitor_loop uses the lock for one assignment at a time.
LEMMA LockMonitor ==
  ASSUME TypeInv, LockInv, Rollout(Monitor)
  PROVE  LockInv'
<1>1. UNCHANGED <<resetPc, mainPc, active>> /\ (procPc' = procPc \/ procPc = "asleep")
  BY DEF Rollout, Monitor, MonitorCheck, MonitorTest, MonitorWake, MonitorJoinsLine, NotifyAll
<1>2. \A d \in LockUsers \ {"monitor"} : UsesLock(d) => UsesLock(d)'
  BY <1>1 DEF UsesLock, ProcWantsLock, KeepsReaping, ReapLoops
<1>3. "monitor" \in LockUsers
  BY DEF LockUsers
<1>4. CASE MonitorCheck \/ MonitorWake
  <2>1. HasLock("monitor") /\ Release
    BY <1>4 DEF MonitorCheck, MonitorWake
  <2> QED
    BY <1>1, <1>2, <1>3, <2>1, LockReleased
<1>5. CASE MonitorTest
  <2>1. ~UsesLock("monitor") /\ UNCHANGED <<lock, lockQueue>>
    BY <1>5 DEF MonitorTest, UsesLock, lockVars
  <2> QED
    BY <1>1, <1>2, <2>1, LockStays
<1>6. CASE MonitorJoinsLine
  <2>1. JoinLine("monitor") /\ lock' = lock /\ UsesLock("monitor")'
    BY <1>6 DEF MonitorJoinsLine, UsesLock
  <2> QED
    BY <1>1, <1>2, <1>3, <2>1, LockJoined
<1> QED
  BY <1>4, <1>5, <1>6 DEF Rollout, Monitor

\* _streaming_generation_main takes the lock to clear running.
LEMMA LockMain ==
  ASSUME TypeInv, LockInv, Rollout(Main)
  PROVE  LockInv'
<1>1. UNCHANGED <<resetPc, monPc, active, procPc>>
  BY DEF Rollout, Main, procVars
<1>2. \A d \in LockUsers \ {"main"} : UsesLock(d) => UsesLock(d)'
  BY <1>1 DEF UsesLock, ProcWantsLock, KeepsReaping
<1>3. "main" \in LockUsers
  BY DEF LockUsers
<1>4. CASE ClearRunning
  <2>1. HasLock("main") /\ Release
    BY <1>4 DEF ClearRunning
  <2> QED
    BY <1>1, <1>2, <1>3, <2>1, LockReleased
<1>5. CASE MainFail \/ MainComplete \/ SendEndSignal
  <2>1. ~UsesLock("main") /\ UNCHANGED <<lock, lockQueue>>
    BY <1>5 DEF MainFail, MainComplete, SendEndSignal, UsesLock, lockVars
  <2> QED
    BY <1>1, <1>2, <2>1, LockStays
<1>6. CASE MainJoinsLine
  <2>1. JoinLine("main") /\ lock' = lock /\ UsesLock("main")'
    BY <1>6 DEF MainJoinsLine, UsesLock
  <2> QED
    BY <1>1, <1>2, <1>3, <2>1, LockJoined
<1> QED
  BY <1>4, <1>5, <1>6 DEF Rollout, Main

\* Every step keeps the order of the lock.
LEMMA LockStep ==
  ASSUME TypeInv, CountInv, LockInv, CallInv, [Next]_vars
  PROVE  LockInv'
<1>1. CASE \/ Rollout(Feeder) \/ (\E s \in Samples : Rollout(TaskStep(s))) \/ DriverEnds
           \/ UNCHANGED vars
  <2>1. UNCHANGED <<lock, lockQueue, procPc, active, resetPc, monPc, mainPc>>
    BY <1>1 DEF Rollout, Feeder, TaskStep, DriverEnds, vars, rolloutVars, procVars, lockVars,
                lifeVars
  <2>2. \A d \in LockUsers : UsesLock(d) => UsesLock(d)'
    BY <2>1 DEF UsesLock, ProcWantsLock, KeepsReaping
  <2> QED
    BY <2>1, <2>2, LockStays
<1>2. CASE Train(TrainNext)
  <2>1. UNCHANGED <<lock, lockQueue, procPc, active, monPc, mainPc>>
    BY <1>2 DEF Train, rolloutVars, procVars, lockVars, lifeVars
  <2>2. \/ resetPc' = resetPc \/ resetPc' = "called" \/ resetPc = "returned"
    BY <1>2 DEF Train, TrainNext, TakeSample, WaitSample, TrainStep, UpdateWeights,
                ResetReturns, FitSaveCheckpoint, AfterLoop
  <2>3. \A d \in LockUsers : UsesLock(d) => UsesLock(d)'
    BY <2>1, <2>2 DEF UsesLock, ProcWantsLock, KeepsReaping
  <2> QED
    BY <2>1, <2>2, <2>3, LockStays
<1> QED
  BY <1>1, <1>2, StepCases, LockProcessor, LockReset, LockMonitor, LockMain

\* A step of a coroutine while the event loop is free, or one that no coroutine of the
\* Rollouter takes.
LEMMA LoopStep ==
  ASSUME LoopInv, [Next]_vars
  PROVE  LoopInv'
<1>1. CASE Rollout(Feeder)
  BY <1>1 DEF Rollout, Feeder, FeedSample, FeedEnd, LoopInv
<1>2. CASE Rollout(Processor)
  BY <1>2 DEF Rollout, Processor, LoopInv
<1>3. CASE Rollout(Monitor) \/ Rollout(Main)
  BY <1>3 DEF Rollout, Monitor, Main, LoopInv
<1>4. CASE Rollout(ResetStaleness)
  <2>1. eventLoop' = eventLoop /\ UNCHANGED <<feedPc, pending>>
    BY <1>4 DEF Rollout, ResetStaleness, feedVars
  <2>2. eventLoop = "free" \/ UNCHANGED <<procPc, lock, lockQueue>>
    BY <1>4 DEF Rollout, ResetStaleness, ResetAcquire, ResetQuery, ResetAssign,
                ResetJoinsLine, lockVars
  <2> QED
    BY <2>1, <2>2 DEF LoopInv, FeederSuspended, ProcSuspended, InLine
<1>5. CASE \/ (\E s \in Samples : Rollout(TaskStep(s))) \/ Train(TrainNext) \/ DriverEnds
           \/ UNCHANGED vars
  <2>1. UNCHANGED <<eventLoop, feedPc, pending, procPc, lock, lockQueue>>
    BY <1>5 DEF Rollout, TaskStep, Train, DriverEnds, vars, rolloutVars, feedVars, procVars,
                lockVars
  <2> QED
    BY <2>1 DEF LoopInv, FeederSuspended, ProcSuspended, InLine
<1> QED
  BY <1>1, <1>2, <1>3, <1>4, <1>5, StepCases

\* _processor_worker pauses only itself, leaves the end signal in pending_queue until it
\* stops, and raises when it reaps a task that failed.
LEMMA ProcProcessor ==
  ASSUME TypeInv, FlowInv, ProcInv, Rollout(Processor)
  PROVE  ProcInv'
<1>1. UNCHANGED <<feedPc>>
  BY DEF Rollout, Processor, feedVars
<1>2. pending \in Seq(Items) /\ task \in [Samples -> TaskState]
  BY DEF TypeInv, TypeOK, RolloutTypeOK
<1>3. CASE LoopTop
  <2>1. /\ procPc = "top" /\ procPc' \in {"pause", "take"} /\ (procPc' = "take" => ~paused)
        /\ UNCHANGED <<pending, task, active, paused>>
    BY <1>3 DEF LoopTop
  <2> QED
    BY <1>1, <2>1 DEF ProcInv, Failed
<1>4. CASE SetPaused
  <2>1. procPc = "pause" /\ procPc' = "drain" /\ UNCHANGED <<pending, task, active>>
    BY <1>4 DEF SetPaused
  <2> QED
    BY <1>1, <2>1 DEF ProcInv, Failed
<1>5. CASE AcquireToReap \/ ProcJoinsLine
  <2>1. UNCHANGED <<procPc, pending, task, active, paused>>
    BY <1>5 DEF AcquireToReap, ProcJoinsLine, procVars
  <2> QED
    BY <1>1, <2>1 DEF ProcInv, Failed
<1>6. CASE Reap
  <2>1. /\ procPc \in ReapLoops /\ UNCHANGED <<pending, task, paused>>
        /\ procPc' = procPc \/ procPc' = "failed"
        /\ active' = active \ Finished
        /\ procPc' # "failed" => \A t \in Finished : task[t] # "failed"
    BY <1>6 DEF Reap
  <2>2. procPc' # "failed" => Failed' \subseteq active'
    BY <2>1 DEF ProcInv, Failed, ReapLoops
  <2> QED
    BY <1>1, <2>1, <2>2 DEF ProcInv, ReapLoops
<1>7. CASE LeaveReapLoop
  <2>1. /\ procPc \in ReapLoops /\ UNCHANGED <<pending, task, active, paused>>
        /\ procPc = "drain" => procPc' = "idle"
        /\ procPc = "cap" => procPc' = "dispatch"
        /\ procPc = "end" => procPc' = "done"
    BY <1>7 DEF LeaveReapLoop, ReapLoops
  <2> QED
    BY <1>1, <2>1 DEF ProcInv, Failed, ReapLoops
<1>8. CASE WaitUnpaused
  <2>1. /\ procPc = "idle" /\ UNCHANGED <<pending, task, active, paused>>
        /\ procPc' = IF paused THEN "asleep" ELSE "top"
    BY <1>8 DEF WaitUnpaused
  <2> QED
    BY <1>1, <2>1 DEF ProcInv, Failed
<1>9. CASE TakePending
  <2>1. /\ procPc = "take" /\ pending # <<>> /\ pending' = Tail(pending)
        /\ UNCHANGED <<task, active, paused>>
        /\ procPc' = IF Head(pending) = EndSignal THEN "end" ELSE "cap"
    BY <1>9 DEF TakePending
  <2>2. Entries(pending) = Entries(pending') \cup {Head(pending)}
    BY <1>2, <2>1, TailPlaces
  <2> QED
    BY <1>1, <2>1, <2>2 DEF ProcInv, Failed
<1>10. CASE Dispatch
  <2>1. /\ procPc = "dispatch" /\ procPc' = "top" /\ UNCHANGED <<pending, paused>>
        /\ active' = active \cup {held}
        /\ task' = [task EXCEPT ![held] = "generating"]
    BY <1>10 DEF Dispatch
  <2>2. Failed' \subseteq Failed
    BY <1>2, <2>1 DEF Failed
  <2>3. task \in [Samples -> TaskState] /\ active \in SUBSET Samples /\ held \in Samples
    BY <2>1 DEF TypeInv, TypeOK, RolloutTypeOK
  <2>4. \A t \in active' : task'[t] # "none"
    BY <2>1, <2>3 DEF ProcInv
  <2> QED
    BY <1>1, <2>1, <2>2, <2>4 DEF ProcInv
<1> QED
  BY <1>3, <1>4, <1>5, <1>6, <1>7, <1>8, <1>9, <1>10 DEF Rollout, Processor

\* The feeder's last put is the end signal.
LEMMA ProcFeeder ==
  ASSUME TypeInv, ProcInv, Rollout(Feeder)
  PROVE  ProcInv'
<1>1. UNCHANGED <<procPc, active, task, paused>> /\ feedPc' # "cancelled"
  BY DEF Rollout, Feeder, FeedSample, FeedEnd, procVars
<1>2. pending \in Seq(Items) /\ EndSignal \in Items
  BY ItemsType DEF TypeInv, TypeOK, RolloutTypeOK
<1>3. feedPc' = "done" => EndSignal \in Entries(pending')
  <2> SUFFICES ASSUME feedPc' = "done" PROVE EndSignal \in Entries(pending')
    OBVIOUS
  <2>1. pending' = Append(pending, EndSignal)
    BY DEF Rollout, Feeder, FeedSample, FeedEnd
  <2> QED
    BY <1>2, <2>1, EntriesAppended
<1> QED
  BY <1>1, <1>3 DEF ProcInv, Failed

\* A task that fails is still in active_tasks, and a step of another part changes nothing
\* here but to wake the processor with paused cleared.
LEMMA ProcStep ==
  ASSUME TypeInv, HandInv, FlowInv, SlotInv, ProcInv, [Next]_vars
  PROVE  ProcInv'
<1>1. ASSUME NEW s \in Samples, Rollout(TaskStep(s)) PROVE ProcInv'
  <2>1. UNCHANGED <<feedPc, pending, procPc, active, paused>>
    BY <1>1 DEF Rollout, TaskStep, feedVars, procVars
  <2>2. Failed' \subseteq Failed \cup {s} /\ (s \in Failed' => s \in active)
    <3>1. task \in [Samples -> TaskState] /\ task[s] \in Unfinished
          /\ \A t \in Samples \ {s} : task'[t] = task[t]
      BY <1>1 DEF Rollout, TaskStep, Generated, GenerationFails, PutArrives, PutReturned,
                  Unfinished, TypeInv, TypeOK, RolloutTypeOK
    <3> QED
      BY <3>1 DEF Failed, HandInv
  <2>3. \A t \in active : task'[t] # "none"
    <3>1. /\ active \in SUBSET Samples /\ task'[s] # "none"
          /\ \A t \in Samples \ {s} : task'[t] = task[t]
      BY <1>1 DEF Rollout, TaskStep, Generated, GenerationFails, PutArrives, PutReturned,
                  TypeInv, TypeOK, RolloutTypeOK
    <3> QED
      BY <3>1 DEF ProcInv
  <2> QED
    BY <2>1, <2>2, <2>3 DEF ProcInv
<1>2. CASE Rollout(ResetStaleness) \/ Rollout(Monitor)
  <2>1. UNCHANGED <<feedPc, pending, active, task>>
    BY <1>2 DEF Rollout, ResetStaleness, Monitor, feedVars
  <2>2. \/ procPc' = procPc /\ paused' = paused
        \/ paused' = FALSE /\ procPc' = IF procPc = "asleep" THEN "idle" ELSE procPc
    BY <1>2 DEF Rollout, ResetStaleness, ResetAcquire, ResetQuery, ResetAssign, ResetJoinsLine,
                Monitor, MonitorCheck, MonitorTest, MonitorWake, MonitorJoinsLine, NotifyAll
  <2> QED
    BY <2>1, <2>2 DEF ProcInv, Failed
<1>3. CASE Rollout(Main)
  <2>1. UNCHANGED <<pending, procPc, active, task, paused>>
    BY <1>3 DEF Rollout, Main, procVars
  <2>2. feedPc' = feedPc \/ procPc = "failed"
    BY <1>3 DEF Rollout, Main, MainFail, MainComplete, SendEndSignal, ClearRunning, MainJoinsLine
  <2> QED
    BY <2>1, <2>2 DEF ProcInv, Failed
<1>4. CASE Train(TrainNext) \/ DriverEnds \/ UNCHANGED vars
  <2>1. UNCHANGED <<feedPc, pending, procPc, active, task, paused>>
    BY <1>4 DEF Train, DriverEnds, vars, rolloutVars, feedVars, procVars
  <2> QED
    BY <2>1 DEF ProcInv, Failed
<1> QED
  BY <1>1, <1>2, <1>3, <1>4, StepCases, ProcProcessor, ProcFeeder

\* The calls between the three actors.
LEMMA CallStep ==
  ASSUME TypeInv, FlowInv, CallInv, [Next]_vars
  PROVE  CallInv'
<1>1. getter \in [{"trainer"} -> MQ!GetterState]
  BY DEF TypeInv, TypeOK
<1>2. ASSUME NEW x, MQ!PutSample(x)
      PROVE  mq_running' = mq_running /\ getter'["trainer"] # "waiting"
  BY <1>1, <1>2 DEF MQ!PutSample, MQ!NotifyAll
<1>3. CASE \E s \in Samples : Rollout(TaskStep(s))
  <2>1. PICK s \in Samples : Rollout(TaskStep(s))
    BY <1>3
  <2>2. UNCHANGED <<trainPc, resetPc, mainPc, monPc, r_running>>
    BY <2>1 DEF Rollout, TaskStep, lifeVars, trainVars
  <2>3. CASE PutArrives(s)
    BY <1>2, <2>2, <2>3 DEF PutArrives, CallInv
  <2>4. CASE Generated(s) \/ GenerationFails(s) \/ PutReturned(s)
    <3>1. UNCHANGED <<queue, mq_running, getter>>
      BY <2>4 DEF Generated, GenerationFails, PutReturned, mqVars
    <3> QED
      BY <2>2, <3>1 DEF CallInv
  <2> QED
    BY <2>1, <2>3, <2>4 DEF Rollout, TaskStep
<1>4. CASE Rollout(Main)
  <2>1. UNCHANGED <<trainPc, resetPc, monPc>>
    BY <1>4 DEF Rollout, Main, trainVars
  <2>2. CASE SendEndSignal
    <3>1. /\ MQ!PutSample(EndSignal) /\ r_running' = r_running
          /\ mainPc \in {"sendEnd", "sendEndThenRaise"} /\ mainPc' \in {"stop", "raised"}
      BY <2>2 DEF SendEndSignal
    <3> QED
      BY <1>2, <2>1, <3>1 DEF CallInv, Ended
  <2>3. CASE ClearRunning
    <3>1. UNCHANGED <<queue, mq_running, getter>> /\ r_running' = FALSE /\ mainPc' = "done"
      BY <2>3 DEF ClearRunning, mqVars
    <3> QED
      BY <2>1, <3>1 DEF CallInv, Ended
  <2>4. CASE MainFail \/ MainComplete \/ MainJoinsLine
    <3>1. UNCHANGED <<queue, mq_running, getter, r_running>>
          /\ (mainPc' = mainPc \/ (mainPc = "await" /\ mainPc' \in {"sendEnd", "sendEndThenRaise"}))
      BY <2>4 DEF MainFail, MainComplete, MainJoinsLine, mqVars
    <3> QED
      BY <2>1, <3>1 DEF CallInv, Ended
  <2> QED
    BY <1>4, <2>2, <2>3, <2>4 DEF Rollout, Main
<1>5. CASE Rollout(ResetStaleness)
  <2>1. /\ UNCHANGED <<trainPc, mainPc, monPc, r_running, queue, mq_running, getter>>
        /\ resetPc # "none" /\ resetPc' # "none"
    BY <1>5 DEF Rollout, ResetStaleness, ResetAcquire, ResetQuery, ResetAssign, ResetJoinsLine,
                lifeVars, mqVars, trainVars
  <2> QED
    BY <2>1 DEF CallInv
<1>6. CASE Rollout(Monitor)
  <2>1. /\ UNCHANGED <<trainPc, resetPc, mainPc, r_running, queue, mq_running, getter>>
        /\ monPc' = "done" => monPc = "done" \/ ~r_running
    BY <1>6 DEF Rollout, Monitor, MonitorCheck, MonitorTest, MonitorWake, MonitorJoinsLine,
                mqVars, trainVars
  <2> QED
    BY <2>1 DEF CallInv
<1>7. CASE Train(TrainNext)
  <2>1. UNCHANGED <<mainPc, monPc, r_running>>
    BY <1>7 DEF Train, rolloutVars, lifeVars
  <2>2. CASE TakeSample
    <3>1. /\ trainPc = "collect" /\ resetPc' = resetPc /\ mq_running' = mq_running
          /\ getter'["trainer"] = "idle"
          /\ \/ trainPc' = "stop" /\ Head(queue) = EndSignal
             \/ trainPc' \in {"collect", "step"}
      BY <1>1, <2>2 DEF TakeSample, MQ!GetSample
    <3>2. Head(queue) \in Entries(queue)
      BY <2>2, HeadTaken
    <3>3. trainPc' = "stop" => mainPc \in Ended
      BY <3>1, <3>2 DEF FlowInv, Ended
    <3> QED
      BY <2>1, <3>1, <3>3 DEF CallInv, Stopped
  <2>3. CASE WaitSample
    <3>1. UNCHANGED <<trainPc, resetPc, queue, mq_running>> /\ queue = <<>>
      BY <2>3 DEF WaitSample, MQ!GetWait, trainVars
    <3> QED
      BY <2>1, <3>1 DEF CallInv
  <2>4. CASE TrainStep \/ UpdateWeights \/ ResetReturns \/ FitSaveCheckpoint \/ AfterLoop
    <3>1. /\ UNCHANGED <<queue, mq_running, getter>>
          /\ trainPc' \in {"reset", "lastReset"} <=> resetPc' # "none"
      BY <2>4 DEF TrainStep, UpdateWeights, ResetReturns, FitSaveCheckpoint, AfterLoop,
                  mqVars, CallInv
    <3>2. trainPc' \in Stopped => trainPc \in Stopped
      BY <2>4 DEF TrainStep, UpdateWeights, ResetReturns, FitSaveCheckpoint, AfterLoop, Stopped
    <3> QED
      BY <2>1, <3>1, <3>2 DEF CallInv
  <2> QED
    BY <1>7, <2>2, <2>3, <2>4 DEF Train, TrainNext
<1>8. CASE DriverEnds
  <2>1. /\ UNCHANGED <<trainPc, resetPc, mainPc, monPc, r_running, mq_running, getter>>
        /\ queue' = <<>>
    BY <1>8 DEF DriverEnds, MQ!ClearQueue, rolloutVars, lifeVars, trainVars
  <2> QED
    BY <2>1 DEF CallInv
<1>9. CASE Rollout(Feeder) \/ Rollout(Processor) \/ UNCHANGED vars
  <2>1. UNCHANGED <<trainPc, resetPc, mainPc, monPc, r_running, queue, mq_running, getter>>
    BY <1>9 DEF Rollout, Feeder, Processor, vars, rolloutVars, lifeVars, trainVars, mqVars
  <2> QED
    BY <2>1 DEF CallInv
<1> QED
  BY <1>3, <1>4, <1>5, <1>6, <1>7, <1>8, <1>9, StepCases

\* MoveInv holds of every behaviour.
LEMMA MoveInvariant == Spec => []MoveInv
<1>1. Init => MoveInv
  <2> SUFFICES ASSUME Init PROVE MoveInv
    OBVIOUS
  <2>1. /\ lock = "free" /\ lockQueue = <<>> /\ eventLoop = "free" /\ procPc = "top"
        /\ feedPc = "feed" /\ trainPc = "collect" /\ resetPc = "none" /\ mq_running
        /\ getter["trainer"] = "idle" /\ mainPc = "await" /\ monPc = "check" /\ r_running
        /\ active = {} /\ \A s \in Samples : task[s] = "none"
    BY DEF Init, RolloutInit, TrainInit, ChannelInit, MQ!Init
  <2>2. Entries(<<>>) = {} /\ Once(<<>>)
    BY EmptySeq DEF Entries, Once
  <2>3. LockInv
    BY <2>1, <2>2 DEF LockInv, LockUsers
  <2>4. LoopInv /\ ProcInv /\ CallInv
    BY <2>1 DEF LoopInv, ProcInv, CallInv, Failed, Stopped
  <2> QED
    BY <2>3, <2>4 DEF MoveInv
<1>2. /\ TypeInv /\ HandInv /\ CountInv /\ (FlowInv /\ EndInv) /\ (SlotInv /\ SignalInv)
      /\ MoveInv /\ [Next]_vars
      => MoveInv'
  BY LockStep, LoopStep, ProcStep, CallStep DEF MoveInv
<1> QED
  BY <1>1, <1>2, TypeInvariant, HandInvariant, CountInvariant, FlowInvariant, SignalInvariant,
     PTL DEF Spec

\* Whoever has the lock can go on, and so can, in the end, whoever waits for it.
LEMMA LockMoves ==
  ASSUME TypeInv, HandInv, MoveInv, ~SomeoneMoves, eventLoop = "free"
  PROVE  lock = "free" /\ \A c : ~InLine(c)
<1> USE DEF MoveInv
<1>1. lock \in {"free"} \cup LockUsers /\ task \in [Samples -> TaskState]
      /\ active \in SUBSET Samples /\ MaxConcurrentSamples \in Nat \ {0}
  BY MaxConcurrentType DEF TypeInv, TypeOK, RolloutTypeOK
<1>2. lock # "processor"
  <2> SUFFICES ASSUME lock = "processor" PROVE FALSE
    OBVIOUS
  <2>1. ProcWantsLock
    BY DEF LockInv, UsesLock, LockUsers
  <2>2. procPc \in ReapLoops /\ KeepsReaping
    BY <2>1 DEF SomeoneMoves, ProcessorMoves, ProcWantsLock, HasLock, ProcInv
  <2>3. active # {}
    <3>1. Cardinality({}) = 0
      BY FS_EmptySet
    <3> QED
      BY <1>1, <2>2, <3>1 DEF KeepsReaping
  <2>4. PICK t \in active : TRUE
    BY <2>3
  <2>5. task[t] \in TaskState \ {"none"} /\ t \in Samples
    BY <1>1, <2>4 DEF ProcInv
  <2>6. CASE task[t] \in {"done", "failed"}
    BY <2>2, <2>4, <2>6 DEF SomeoneMoves, ProcessorMoves, Finished
  <2>7. CASE task[t] \in Unfinished
    BY <2>5, <2>7 DEF SomeoneMoves, TaskMoves, Unfinished
  <2> QED
    BY <2>5, <2>6, <2>7 DEF TaskState, Unfinished
<1>3. lock # "reset"
  BY DEF LockInv, UsesLock, LockUsers, SomeoneMoves, ResetMoves, HasLock
<1>4. lock # "monitor"
  BY DEF LockInv, UsesLock, LockUsers, SomeoneMoves, MonitorHelps, MonitorMoves, HasLock
<1>5. lock # "main"
  BY DEF LockInv, UsesLock, LockUsers, SomeoneMoves, MainMoves, HasLock
<1>6. lock = "free"
  BY <1>1, <1>2, <1>3, <1>4, <1>5 DEF LockUsers
<1>7. \A c : ~InLine(c)
  BY <1>6, EmptySeq DEF LockInv, InLine
<1> QED
  BY <1>6, <1>7

\* The event loop is free, and the processor has been put to sleep or has ended.
LEMMA ProcessorStops ==
  ASSUME TypeInv, HandInv, MoveInv, ~SomeoneMoves
  PROVE  eventLoop = "free" /\ lock = "free" /\ procPc \in {"asleep", "done", "failed"}
<1> USE DEF MoveInv
<1>1. /\ eventLoop \in {"free", "feeder", "processor"} /\ procPc \in ProcPc
      /\ feedPc \in {"feed", "end", "done", "cancelled"}
      /\ pending \in Seq(Items) /\ PendingCap \in Nat \ {0}
  BY ConfigAssumption DEF TypeInv, TypeOK, RolloutTypeOK
<1>2. eventLoop # "feeder"
  <2> SUFFICES ASSUME eventLoop = "feeder" PROVE FALSE
    OBVIOUS
  <2>1. feedPc \in {"feed", "end"} /\ ~(Len(pending) >= PendingCap)
    BY <1>1 DEF LoopInv, FeederSuspended
  <2>2. Len(pending) < PendingCap
    BY <1>1, <2>1, LenProperties
  <2> QED
    BY <2>1, <2>2 DEF SomeoneMoves, FeederMoves
<1>3. eventLoop # "processor"
  <2> SUFFICES ASSUME eventLoop = "processor" PROVE FALSE
    OBVIOUS
  <2>1. ~ProcSuspended
    BY DEF LoopInv
  <2>2. lock \in {"free", "processor"} \/ ~HasLock("processor")
    BY DEF HasLock
  <2> QED
    BY <1>1, <2>1, <2>2
       DEF ProcSuspended, SomeoneMoves, ProcessorMoves, ProcPc, ReapLoops, ProcWantsLock,
           HasLock, ProcInv
<1>4. eventLoop = "free" /\ lock = "free"
  BY <1>1, <1>2, <1>3, LockMoves
<1>5. procPc \in {"asleep", "done", "failed"} \/ (procPc = "take" /\ pending = <<>>)
  BY <1>1, <1>4 DEF SomeoneMoves, ProcessorMoves, ProcPc, HasLock, ProcInv
<1>6. ~(procPc = "take" /\ pending = <<>>)
  <2> SUFFICES ASSUME procPc = "take", pending = <<>> PROVE FALSE
    OBVIOUS
  <2>1. Len(pending) < PendingCap /\ Entries(pending) = {}
    BY <1>1, EmptySeq DEF Entries
  <2>2. feedPc \in {"feed", "end"}
    BY <1>1, <2>1 DEF ProcInv
  <2> QED
    BY <1>4, <2>1, <2>2 DEF SomeoneMoves, FeederMoves
<1> QED
  BY <1>4, <1>5, <1>6

\* Where nobody can go on, the run is over, or the Trainer waits for samples that the
\* processor does not start.
LEMMA OnlyStarved ==
  ASSUME TypeInv, HandInv, FlowInv, EndInv, SlotInv, SignalInv, MoveInv, ~SomeoneMoves
  PROVE  Over \/ Starved
<1> USE DEF MoveInv
<1>1. /\ trainPc \in TrainPc /\ resetPc \in ResetPc /\ monPc \in {"check", "sleep", "wake", "done"}
      /\ mainPc \in {"await", "sendEnd", "sendEndThenRaise", "stop", "done", "raised"}
      /\ driverPc \in {"run", "done"} /\ staleness_samples \in Nat
  BY DEF TypeInv, TypeOK, RolloutTypeOK, TrainTypeOK
<1>2. eventLoop = "free" /\ lock = "free" /\ procPc \in {"asleep", "done", "failed"}
  BY ProcessorStops
<1>3. mainPc \in {"await", "done", "raised"} /\ (mainPc = "await" => procPc = "asleep")
  BY <1>1, <1>2 DEF SomeoneMoves, MainMoves, HasLock, EndInv
<1>4. resetPc \in {"none", "returned"}
  BY <1>1, <1>2 DEF SomeoneMoves, ResetMoves, HasLock, ResetPc
<1>5. trainPc \in {"collect", "done"}
  BY <1>1, <1>4 DEF SomeoneMoves, TrainerMoves, CallInv, TrainPc
<1>6. monPc = "done" \/ MonitorMoves
  BY <1>1, <1>2 DEF MonitorMoves, HasLock
<1>7. CASE trainPc = "collect"
  <2>1. queue = <<>>
    BY <1>7 DEF SomeoneMoves, TrainerMoves, CallInv
  <2>2. \A p \in DOMAIN queue : FALSE
    BY <2>1, EmptySeq
  <2>3. mainPc = "await" /\ procPc = "asleep"
    BY <1>3, <1>7, <2>2 DEF SignalInv, Ended, Stopped
  <2>4. active = {} /\ paused /\ monPc # "done"
    BY <2>3 DEF HandInv, ProcInv, CallInv
  <2>5. ShouldPause
    BY <1>6, <2>3, <2>4 DEF SomeoneMoves, MonitorHelps
  <2>6. Len(queue) = 0
    BY <2>1, EmptySeq
  <2>7. staleness_samples >= MaxRequiredSamples
    BY <2>5, <2>6, MaxRequiredType DEF ShouldPause, MQ!QueueSize
  <2> QED
    BY <1>7, <2>1, <2>3, <2>4, <2>7 DEF Starved
<1>8. CASE trainPc = "done"
  <2>1. mainPc \in {"done", "raised"}
    BY <1>3, <1>8 DEF CallInv, Stopped, Ended
  <2>2. CASE mainPc = "done"
    <3>1. ~r_running
      BY <2>2 DEF CallInv
    <3>2. monPc = "done"
      BY <1>6, <3>1 DEF SomeoneMoves, MonitorHelps
    <3> QED
      BY <1>1, <1>8, <2>2, <3>2 DEF SomeoneMoves, DriverMoves, FitReturned, Over
  <2>3. CASE mainPc = "raised"
    BY <1>8, <2>3 DEF Over
  <2> QED
    BY <2>1, <2>2, <2>3
<1> QED
  BY <1>5, <1>7, <1>8

\* Nobody waits for somebody who waits for him: at every time one of the coroutines, a
\* call, the Trainer or the driver passes its guard, until fit() of both has returned (or
\* the Rollouter's has raised).  There is one exception: the processor sleeps because
\* reset_staleness has counted more samples than there are.
StopsOnlyStarved == SomeoneMoves \/ Over \/ Starved

\* The lock, the event loop, the condition variables and the calls between the actors never
\* make everyone wait, for every configuration and whichever generations fail.
THEOREM NoCircularWait == Spec => []StopsOnlyStarved
<1>1. /\ TypeInv /\ HandInv /\ (FlowInv /\ EndInv) /\ (SlotInv /\ SignalInv) /\ MoveInv
      => StopsOnlyStarved
  BY OnlyStarved DEF StopsOnlyStarved
<1> QED
  BY <1>1, TypeInvariant, HandInvariant, FlowInvariant, SignalInvariant, MoveInvariant, PTL

-----------------------------------------------------------------------------
\* Layer 9: the count of reset_staleness.

\* The samples of a version that are outstanding or taken.
Available == Outstanding + Len(batch) + RequiredSamples * (local_trigger_step - 1)
\* The Trainer will get what it waits for, or the end signal.
Supplied ==
  Failed # {} \/ procPc \in {"end", "done", "failed"} \/ Available >= PerVersion
Covered(n) == Supplied \/ n <= Available + MaxConcurrentSamples
RecountInv ==
  /\ trainPc \in {"collect", "step", "save"} \/ resetPc = "returned" => Covered(staleness_samples)
  /\ resetPc = "query" => resetCount <= MaxConcurrentSamples
  /\ resetPc = "reply" => Covered(resetCount)

\* A queue without repetitions has as many entries as places.
LEMMA CardOnce ==
  ASSUME NEW S, NEW q \in Seq(S), Once(q)
  PROVE  IsFiniteSet(Entries(q)) /\ Cardinality(Entries(q)) = Len(q)
<1>1. Len(q) \in Nat /\ DOMAIN q = 1 .. Len(q) /\ q \in [1 .. Len(q) -> S]
  BY LenProperties
<1>2. q \in Bijection(1 .. Len(q), Entries(q))
  <2>1. q \in [1 .. Len(q) -> Entries(q)]
    BY <1>1 DEF Entries
  <2>2. \A i, j \in 1 .. Len(q) : q[i] = q[j] => i = j
    BY <1>1 DEF Once
  <2>3. \A e \in Entries(q) : \E i \in 1 .. Len(q) : q[i] = e
    BY <1>1 DEF Entries
  <2>4. q \in Injection(1 .. Len(q), Entries(q))
    BY <2>1, <2>2 DEF Injection, IsInjective
  <2>5. q \in Surjection(1 .. Len(q), Entries(q))
    BY <2>1, <2>3 DEF Surjection
  <2> QED
    BY <2>4, <2>5 DEF Bijection
<1>3. IsFiniteSet(1 .. Len(q)) /\ Cardinality(1 .. Len(q)) = Len(q)
  BY <1>1, FS_Interval
<1> QED
  BY <1>2, <1>3, FS_Bijection DEF ExistsBijection

\* The numbers the recount is about.
AvailableTypes ==
  /\ Outstanding \in Nat /\ Available \in Nat /\ Available >= Outstanding
  /\ Len(batch) \in Nat /\ RequiredSamples * (local_trigger_step - 1) \in Nat
  /\ PerVersion \in Nat \ {0} /\ MaxConcurrentSamples \in Nat
  /\ staleness_samples \in Nat /\ resetCount \in Nat

\* They are numbers.
LEMMA AvailableType == TypeInv => AvailableTypes
<1> SUFFICES ASSUME TypeInv PROVE AvailableTypes
  OBVIOUS
<1> DEFINE x == RequiredSamples * (local_trigger_step - 1)
<1>1. Outstanding \in Nat
  BY SetTypes, SamplesFinite DEF OutstandingSet
<1>2. Len(batch) \in Nat /\ PerVersion \in Nat \ {0}
  BY WaitTypes
<1>3. x \in Nat
  <2>1. local_trigger_step - 1 \in Nat /\ RequiredSamples \in Nat
    BY ConfigAssumption DEF TypeInv, TypeOK, TrainTypeOK
  <2> QED
    BY <2>1
<1> HIDE DEF x
<1>4. Available = Outstanding + Len(batch) + x
  BY DEF Available, x
<1>5. staleness_samples \in Nat /\ resetCount \in Nat /\ MaxConcurrentSamples \in Nat
  BY SetTypes, MaxConcurrentType
<1> QED
  BY <1>1, <1>2, <1>3, <1>4, <1>5 DEF x, AvailableTypes

\* A generation that failed and a processor that saw the end of the data stay so.
LEMMA FinalStays ==
  ASSUME TypeInv, HandInv, FlowInv, [Next]_vars
  PROVE  /\ Failed \subseteq Failed'
         /\ procPc \in {"end", "done", "failed"} => procPc' \in {"end", "done", "failed"}
<1>1. task \in [Samples -> TaskState]
  BY DEF TypeInv, TypeOK, RolloutTypeOK
<1>2. CASE Rollout(Processor)
  <2>1. CASE Dispatch
    <3>1. held \in Samples /\ procPc = "dispatch" /\ task' = [task EXCEPT ![held] = "generating"]
      BY <2>1 DEF Dispatch, TypeInv
    <3>2. task[held] = "none"
      BY <3>1 DEF FlowInv, StageInv
    <3> QED
      BY <1>1, <3>1, <3>2 DEF Failed
  <2>2. CASE ~Dispatch
    <3>1. task' = task
      BY <1>2, <2>2 DEF Rollout, Processor, LoopTop, SetPaused, AcquireToReap, Reap,
                        LeaveReapLoop, WaitUnpaused, TakePending, ProcJoinsLine
    <3>2. \/ procPc' = procPc \/ procPc' = "failed" \/ procPc \notin {"end", "done", "failed"}
          \/ procPc = "end" /\ procPc' = "done"
      BY <1>2, <2>2 DEF Rollout, Processor, LoopTop, SetPaused, AcquireToReap, Reap, ReapLoops,
                        LeaveReapLoop, WaitUnpaused, TakePending, ProcJoinsLine, procVars
    <3> QED
      BY <3>1, <3>2 DEF Failed
  <2> QED
    BY <2>1, <2>2
<1>3. ASSUME NEW s \in Samples, Rollout(TaskStep(s))
      PROVE  Failed \subseteq Failed' /\ procPc' = procPc
  <2>1. task[s] # "failed" /\ \A t \in Samples \ {s} : task'[t] = task[t]
    BY <1>1, <1>3 DEF Rollout, TaskStep, Generated, GenerationFails, PutArrives, PutReturned
  <2> QED
    BY <1>3, <2>1 DEF Failed, Rollout, TaskStep, procVars
<1>4. CASE Rollout(ResetStaleness) \/ Rollout(Monitor)
  <2>1. task' = task /\ (procPc' = procPc \/ procPc = "asleep")
    BY <1>4 DEF Rollout, ResetStaleness, ResetAcquire, ResetQuery, ResetAssign, ResetJoinsLine,
                Monitor, MonitorCheck, MonitorTest, MonitorWake, MonitorJoinsLine, NotifyAll
  <2> QED
    BY <2>1 DEF Failed
<1>5. CASE Rollout(Feeder) \/ Rollout(Main) \/ Train(TrainNext) \/ DriverEnds \/ UNCHANGED vars
  <2>1. task' = task /\ procPc' = procPc
    BY <1>5 DEF Rollout, Train, DriverEnds, Feeder, Main, vars, rolloutVars, procVars
  <2> QED
    BY <2>1 DEF Failed
<1> QED
  BY <1>2, <1>3, <1>4, <1>5, StepCases

\* Where the Trainer goes by the staleness count.
Recounted == trainPc \in {"collect", "step", "save"} \/ resetPc = "returned"

\* A step that does not count more samples than it makes available.
LEMMA RecountFrame ==
  ASSUME TypeInv, TypeInv', HandInv, FlowInv, [Next]_vars, RecountInv,
         Recounted' => Recounted,
         resetPc' \in {"query", "reply"} => resetPc' = resetPc /\ resetCount' = resetCount,
         Recounted' \/ resetPc' = "reply" =>
           \/ Supplied'
           \/ /\ Available' >= Available
              /\ staleness_samples' + Available <= staleness_samples + Available'
  PROVE  RecountInv'
<1>1. /\ Available \in Nat /\ Available' \in Nat /\ PerVersion \in Nat
      /\ MaxConcurrentSamples \in Nat
      /\ staleness_samples \in Nat /\ staleness_samples' \in Nat /\ resetCount \in Nat
  <2>1. TypeInv' => AvailableTypes'
    BY AvailableType, PTL
  <2> QED
    BY <2>1, AvailableType DEF AvailableTypes
<1>2. ASSUME Recounted' \/ resetPc' = "reply"
      PROVE  Supplied => Supplied'
  <2>1. /\ Failed # {} => Failed' # {}
        /\ procPc \in {"end", "done", "failed"} => procPc' \in {"end", "done", "failed"}
    BY FinalStays
  <2>2. PerVersion' = PerVersion
    BY DEF PerVersion
  <2>3. Supplied' \/ Available' >= Available
    BY <1>2
  <2>4. Available >= PerVersion /\ Available' >= Available => Available' >= PerVersion
    BY <1>1
  <2> QED
    BY <2>1, <2>2, <2>3, <2>4 DEF Supplied
<1>3. ASSUME Recounted', ~Supplied'
      PROVE  staleness_samples' <= Available' + MaxConcurrentSamples
  <2>1. staleness_samples <= Available + MaxConcurrentSamples
    BY <1>2, <1>3 DEF RecountInv, Recounted, Covered
  <2>2. staleness_samples' + Available <= staleness_samples + Available'
    BY <1>3
  <2>3. \A a, b, c, d, m \in Nat : a <= b + m /\ c + b <= a + d => c <= d + m
    OBVIOUS
  <2> QED
    BY <1>1, <2>1, <2>2, <2>3
<1>4. ASSUME resetPc' = "reply", ~Supplied'
      PROVE  resetCount' <= Available' + MaxConcurrentSamples
  <2>1. resetCount <= Available + MaxConcurrentSamples /\ resetCount' = resetCount
    BY <1>2, <1>4 DEF RecountInv, Covered
  <2>2. Available' >= Available
    BY <1>4
  <2>3. \A a, b, d, m \in Nat : a <= b + m /\ d >= b => a <= d + m
    OBVIOUS
  <2> QED
    BY <1>1, <2>1, <2>2, <2>3
<1>5. resetPc' = "query" => resetCount' <= MaxConcurrentSamples
  BY DEF RecountInv
<1> QED
  BY <1>3, <1>4, <1>5 DEF RecountInv, Recounted, Covered

\* A step that leaves what is outstanding and counted alone.
LEMMA AvailableFrame ==
  ASSUME TypeInv, OutstandingSet' = OutstandingSet,
         UNCHANGED <<batch, local_trigger_step, staleness_samples>>
  PROVE  /\ Available' >= Available
         /\ staleness_samples' + Available <= staleness_samples + Available'
<1>1. Outstanding = Cardinality(OutstandingSet) /\ Outstanding' = Cardinality(OutstandingSet')
  BY DEF Outstanding, OutstandingSet
<1>2. Available' = Available
  BY <1>1 DEF Available
<1> QED
  BY <1>2, AvailableType DEF AvailableTypes

\* What the MessageQueue has is outstanding, and all of it is samples unless the end signal
\* has been sent, which the processor's end precedes.
LEMMA QueueCovered ==
  ASSUME TypeInv, FlowInv, EndInv, SlotInv
  PROVE  procPc \in {"end", "done", "failed"} \/ Len(queue) <= Outstanding
<1>1. CASE EndSignal \in Entries(queue)
  <2>1. mainPc \in {"stop", "done", "raised"}
    BY <1>1 DEF FlowInv
  <2> QED
    BY <2>1 DEF EndInv, SlotInv
<1>2. CASE EndSignal \notin Entries(queue)
  <2>1. Queued = Entries(queue)
    BY <1>2 DEF Queued, SamplesIn, Entries
  <2>2. queue \in Seq(Items) /\ Once(queue)
    BY QueuePlaces DEF FlowInv
  <2>3. Cardinality(Queued) = Len(queue)
    BY <2>1, <2>2, CardOnce
  <2>4. OutstandingSet \in SUBSET Samples /\ Queued \in SUBSET OutstandingSet
    BY SetTypes DEF OutstandingSet
  <2>5. Cardinality(Queued) <= Cardinality(OutstandingSet)
    BY <2>4, CardSubset
  <2> QED
    BY <2>3, <2>5, SetTypes
<1> QED
  BY <1>1, <1>2

\* A sample taken from pending_queue is counted and outstanding; the other steps of the
\* processor, Dispatch included, leave what is outstanding alone.
LEMMA RecountProcessor ==
  ASSUME TypeInv, TypeInv', HandInv, FlowInv, RecountInv, [Next]_vars, Rollout(Processor)
  PROVE  RecountInv'
<1>1. /\ UNCHANGED <<trainPc, batch, local_trigger_step, resetPc, resetCount, queue>>
      /\ task \in [Samples -> TaskState]
  BY DEF Rollout, Processor, trainVars, mqVars, TypeInv, TypeOK, RolloutTypeOK
<1>2. Queued' = Queued /\ (Recounted' <=> Recounted)
  BY <1>1 DEF Queued, SamplesIn, Recounted
<1>3. \/ Supplied'
      \/ /\ Available' >= Available
         /\ staleness_samples' + Available <= staleness_samples + Available'
  <2>1. CASE TakePending
    <3> DEFINE h == Head(pending)
    <3>1. /\ procPc = "take" /\ pending # <<>> /\ held' = h /\ task' = task
          /\ staleness_samples' = staleness_samples + 1
          /\ procPc' = IF h = EndSignal THEN "end" ELSE "cap"
      BY <2>1 DEF TakePending
    <3>2. pending \in Seq(Items)
      BY DEF TypeInv, TypeOK, RolloutTypeOK
    <3>3. h \in Items /\ h \in Entries(pending)
      BY <3>1, <3>2, TailType, TailPlaces
    <3> HIDE DEF h
    <3>4. CASE h = EndSignal
      BY <3>1, <3>4 DEF Supplied
    <3>5. CASE h # EndSignal
      <4>1. h \in Samples
        BY <3>3, <3>5, ItemsType
      <4>2. InHand = {} /\ InHand' = {h} /\ Unput' = Unput
        BY <3>1, <3>5 DEF HandInv, InHand, Unput
      <4>3. h \notin Unput /\ h \notin Queued
        <5>1. task[h] = "none" /\ h \notin Entries(queue)
          BY <3>3, <4>1 DEF FlowInv, StageInv
        <5> QED
          BY <5>1 DEF Unput, Queued, SamplesIn, Entries
      <4>4. OutstandingSet' = OutstandingSet \cup {h} /\ h \notin OutstandingSet
        BY <1>2, <4>2, <4>3 DEF OutstandingSet
      <4>5. OutstandingSet \in SUBSET Samples /\ IsFiniteSet(OutstandingSet)
        BY SetTypes, SamplesFinite DEF OutstandingSet
      <4>6. Cardinality(OutstandingSet') = Cardinality(OutstandingSet) + 1
        BY <4>4, <4>5, FS_AddElement
      <4>7. Outstanding' = Outstanding + 1
        BY <4>6 DEF Outstanding, OutstandingSet
      <4>8. Available' = Available + 1
        <5> DEFINE x == RequiredSamples * (local_trigger_step - 1)
        <5>1. Outstanding \in Nat /\ Len(batch) \in Nat /\ x \in Nat /\ x' = x
              /\ Len(batch') = Len(batch)
          BY <1>1, AvailableType DEF AvailableTypes
        <5>2. Available = Outstanding + Len(batch) + x
              /\ Available' = Outstanding' + Len(batch') + x'
          BY DEF Available
        <5> HIDE DEF x
        <5> QED
          BY <4>7, <5>1, <5>2
      <4> QED
        BY <3>1, <4>8, AvailableType DEF AvailableTypes
    <3> QED
      BY <3>4, <3>5
  <2>2. CASE Dispatch
    <3>1. held \in Samples /\ held' = EndSignal /\ staleness_samples' = staleness_samples
          /\ task' = [task EXCEPT ![held] = "generating"] /\ held # EndSignal
      BY <2>2, SamplesFinite DEF Dispatch, TypeInv
    <3>2. InHand = {held} /\ InHand' = {} /\ Unput' = Unput \cup {held}
      BY <1>1, <3>1 DEF InHand, Unput
    <3>3. OutstandingSet' = OutstandingSet
      BY <1>2, <3>2 DEF OutstandingSet
    <3> QED
      BY <1>1, <3>1, <3>3, AvailableFrame
  <2>3. CASE ~TakePending /\ ~Dispatch
    <3>1. UNCHANGED <<held, task, staleness_samples>>
      BY <2>3 DEF Rollout, Processor, LoopTop, SetPaused, AcquireToReap, Reap,
                  LeaveReapLoop, WaitUnpaused, ProcJoinsLine, procVars
    <3>2. OutstandingSet' = OutstandingSet
      BY <1>2, <3>1 DEF OutstandingSet, InHand, Unput
    <3> QED
      BY <1>1, <3>1, <3>2, AvailableFrame
  <2> QED
    BY <2>1, <2>2, <2>3
<1> QED
  BY <1>1, <1>2, <1>3, RecountFrame

\* A generation that fails excuses the count; a put that displaces a sample leaves a full
\* queue, which is enough for a version.
LEMMA RecountTask ==
  ASSUME TypeInv, TypeInv', HandInv, FlowInv, EndInv, SlotInv,
         FlowInv', EndInv', SlotInv', PerVersion <= MaxRequiredSamples,
         RecountInv, [Next]_vars, NEW s \in Samples, Rollout(TaskStep(s))
  PROVE  RecountInv'
<1>1. /\ UNCHANGED <<trainPc, batch, local_trigger_step, resetPc, resetCount, held,
                     staleness_samples, procPc>>
      /\ task \in [Samples -> TaskState]
  BY DEF Rollout, TaskStep, trainVars, procVars, TypeInv, TypeOK, RolloutTypeOK
<1>2. (Recounted' <=> Recounted) /\ InHand' = InHand
  BY <1>1 DEF Recounted, InHand
<1>3. \/ Supplied'
      \/ /\ Available' >= Available
         /\ staleness_samples' + Available <= staleness_samples + Available'
  <2>1. CASE Generated(s) \/ PutReturned(s)
    <3>1. Unput' = Unput /\ Queued' = Queued
      BY <1>1, <2>1 DEF Generated, PutReturned, Unput, Queued, SamplesIn, mqVars
    <3>2. OutstandingSet' = OutstandingSet
      BY <1>2, <3>1 DEF OutstandingSet
    <3> QED
      BY <1>1, <3>2, AvailableFrame
  <2>2. CASE GenerationFails(s)
    <3>1. s \in Failed'
      BY <1>1, <2>2 DEF GenerationFails, Failed
    <3> QED
      BY <3>1 DEF Supplied
  <2>3. CASE PutArrives(s)
    <3>1. /\ s \in Items /\ s # EndSignal /\ MQ!PutSample(s) /\ task[s] = "putting"
          /\ \E r \in {"stored", "displaced"} : task' = [task EXCEPT ![s] = r]
      BY <2>3, ItemsType, SamplesFinite DEF PutArrives
    <3>2. CASE ~MQ!Full
      <4>1. Entries(queue') = Entries(queue) \cup {s}
        BY <3>1, <3>2, PutPlaces
      <4>2. Queued' = Queued \cup {s}
        BY <3>1, <4>1 DEF Queued, SamplesIn, Entries
      <4>3. Unput = Unput' \cup {s}
        BY <1>1, <3>1 DEF Unput
      <4>4. OutstandingSet' = OutstandingSet
        BY <1>2, <4>2, <4>3 DEF OutstandingSet
      <4> QED
        BY <1>1, <4>4, AvailableFrame
    <3>3. CASE MQ!Full
      <4>1. Len(queue') \in Nat /\ Len(queue') >= MaxRequiredSamples
        BY <3>1, <3>3, PutPlaces
      <4>2. procPc' \in {"end", "done", "failed"} \/ Len(queue') <= Outstanding'
        <5>1. (TypeInv /\ FlowInv /\ EndInv /\ SlotInv
                => procPc \in {"end", "done", "failed"} \/ Len(queue) <= Outstanding)'
          BY QueueCovered, PTL
        <5> QED
          BY <5>1
      <4>3. AvailableTypes'
        <5>1. (TypeInv => AvailableTypes)'
          BY AvailableType, PTL
        <5> QED
          BY <5>1
      <4>4. /\ Available' \in Nat /\ Outstanding' \in Nat /\ Available' >= Outstanding'
            /\ PerVersion \in Nat /\ PerVersion' = PerVersion
        BY <4>3, AvailableType DEF AvailableTypes, PerVersion
      <4>5. procPc' \in {"end", "done", "failed"} \/ Available' >= PerVersion
        BY <4>1, <4>2, <4>4, MaxRequiredType
      <4> QED
        BY <4>4, <4>5 DEF Supplied
    <3> QED
      BY <3>2, <3>3
  <2> QED
    BY <2>1, <2>2, <2>3 DEF Rollout, TaskStep
<1> QED
  BY <1>1, <1>2, <1>3, RecountFrame

\* reset_staleness adds up the tasks, at most as many as there are slots, and then the
\* queue, which is outstanding.
LEMMA RecountReset ==
  ASSUME TypeInv, TypeInv', HandInv, FlowInv, EndInv, SlotInv, CallInv,
         RecountInv, [Next]_vars, Rollout(ResetStaleness)
  PROVE  RecountInv'
<1>1. UNCHANGED <<trainPc, batch, local_trigger_step, held, active, task, queue>>
  BY DEF Rollout, ResetStaleness, trainVars, mqVars
<1>2. /\ OutstandingSet' = OutstandingSet /\ Available' = Available
      /\ Failed' = Failed /\ PerVersion' = PerVersion
  BY <1>1 DEF OutstandingSet, InHand, Unput, Queued, SamplesIn, Available, Outstanding,
              Failed, PerVersion
<1>3. procPc' = procPc \/ procPc = "asleep"
  BY DEF Rollout, ResetStaleness, ResetAcquire, ResetQuery, ResetAssign, ResetJoinsLine, NotifyAll
<1>4. Supplied => Supplied'
  BY <1>2, <1>3 DEF Supplied
<1>5. CASE ResetAcquire
  <2>1. resetPc = "called" /\ resetPc' = "query" /\ resetCount' = Cardinality(active)
    BY <1>5 DEF ResetAcquire
  <2>2. trainPc' \notin {"collect", "step", "save"}
    BY <1>1, <2>1 DEF CallInv
  <2> QED
    BY <2>1, <2>2 DEF RecountInv, SlotInv
<1>6. CASE ResetQuery
  <2>1. resetPc = "query" /\ resetPc' = "reply" /\ resetCount' = resetCount + Len(queue)
    BY <1>6 DEF ResetQuery, MQ!QueueSize
  <2>2. trainPc' \notin {"collect", "step", "save"}
    BY <1>1, <2>1 DEF CallInv
  <2>3. procPc \in {"end", "done", "failed"} \/ Len(queue) <= Outstanding
    BY QueueCovered
  <2>4. resetCount <= MaxConcurrentSamples
    BY <2>1 DEF RecountInv
  <2>5. Supplied' \/ resetCount' <= Available' + MaxConcurrentSamples
    <3>1. CASE procPc \in {"end", "done", "failed"}
      BY <1>4, <3>1 DEF Supplied
    <3>2. CASE Len(queue) <= Outstanding
      <4>1. \A a, b, c, d, m \in Nat : a <= b /\ b <= c /\ d <= m => d + a <= c + m
        OBVIOUS
      <4>2. Len(queue) \in Nat
        BY QueuePlaces
      <4> QED
        BY <1>2, <2>1, <2>4, <3>2, <4>1, <4>2, AvailableType DEF AvailableTypes
    <3> QED
      BY <2>3, <3>1, <3>2
  <2> QED
    BY <2>1, <2>2, <2>5 DEF RecountInv, Covered
<1>7. CASE ResetAssign
  <2>1. resetPc = "reply" /\ resetPc' = "returned" /\ staleness_samples' = resetCount
    BY <1>7 DEF ResetAssign
  <2>2. Supplied' \/ staleness_samples' <= Available' + MaxConcurrentSamples
    BY <1>2, <1>4, <2>1 DEF RecountInv, Covered
  <2> QED
    BY <2>1, <2>2 DEF RecountInv, Covered
<1>8. CASE ResetJoinsLine
  <2>1. UNCHANGED <<resetPc, resetCount, staleness_samples>> /\ (Recounted' <=> Recounted)
    BY <1>1, <1>8 DEF ResetJoinsLine, Recounted
  <2>2. /\ Available' >= Available
        /\ staleness_samples' + Available <= staleness_samples + Available'
    BY <1>1, <1>2, <2>1, AvailableFrame
  <2> QED
    BY <2>1, <2>2, RecountFrame
<1> QED
  BY <1>5, <1>6, <1>7, <1>8 DEF Rollout, ResetStaleness

\* A sample taken by the Trainer moves from the queue to the batch, and a batch trained on
\* counts as a local step; a new version is synchronised before the count is used again.
LEMMA RecountTrain ==
  ASSUME TypeInv, TypeInv', HandInv, FlowInv, TrainInv, CallInv,
         RecountInv, [Next]_vars, Train(TrainNext)
  PROVE  RecountInv'
<1> DEFINE x == RequiredSamples * (local_trigger_step - 1)
<1>1. UNCHANGED <<resetCount, held, active, task, procPc, staleness_samples>>
  BY DEF Train, rolloutVars, procVars
<1>2. InHand' = InHand /\ Unput' = Unput
  BY <1>1 DEF InHand, Unput
<1>3. /\ Available = Outstanding + Len(batch) + x /\ Available' = Outstanding' + Len(batch') + x'
      /\ Outstanding \in Nat /\ Len(batch) \in Nat /\ x \in Nat /\ staleness_samples \in Nat
      /\ Available \in Nat
  BY AvailableType DEF Available, AvailableTypes
<1>4. CASE TakeSample
  <2>1. /\ trainPc = "collect" /\ resetPc' = resetPc /\ local_trigger_step' = local_trigger_step
        /\ Head(queue) = EndSignal => trainPc' = "stop"
    BY <1>4 DEF TakeSample
  <2>2. resetPc = "none" /\ Recounted
    BY <2>1 DEF CallInv, Recounted
  <2>3. CASE Head(queue) = EndSignal
    BY <2>1, <2>2, <2>3 DEF RecountInv
  <2>4. CASE Head(queue) # EndSignal
    <3> DEFINE h == Head(queue)
    <3>1. /\ h \in Entries(queue) /\ h \notin Entries(queue') /\ h \in Samples
          /\ Entries(queue') \subseteq Entries(queue) /\ Entries(queue) \subseteq Entries(queue') \cup {h}
          /\ Len(batch') = Len(batch) + 1
      BY <1>4, <2>4, HeadTaken
    <3> HIDE DEF h
    <3>2. h \in Queued /\ Queued' = Queued \ {h}
      BY <3>1, SamplesFinite DEF Queued, SamplesIn, Entries
    <3>3. h \notin InHand /\ h \notin Unput
      <4>1. task[h] \in {"stored", "displaced", "done"} /\ (h = held => task[h] = "none")
        BY <3>1 DEF FlowInv, StageInv
      <4> QED
        BY <4>1 DEF InHand, Unput
    <3>4. h \in OutstandingSet /\ OutstandingSet' = OutstandingSet \ {h}
      BY <1>2, <3>2, <3>3 DEF OutstandingSet
    <3>5. OutstandingSet \in SUBSET Samples /\ IsFiniteSet(OutstandingSet)
      BY SetTypes, SamplesFinite DEF OutstandingSet
    <3>6. Cardinality(OutstandingSet') = Cardinality(OutstandingSet) - 1
      BY <3>4, <3>5, FS_RemoveElement
    <3>7. Outstanding' = Outstanding - 1
      BY <3>6 DEF Outstanding, OutstandingSet
    <3>8. Available' = Available
      <4>1. x' = x
        BY <2>1
      <4> HIDE DEF x
      <4> QED
        BY <1>3, <3>1, <3>7, <4>1
    <3> QED
      BY <1>1, <1>3, <2>1, <2>2, <3>8, RecountFrame
  <2> QED
    BY <2>3, <2>4
<1>5. CASE TrainStep
  <2>1. trainPc = "step" /\ queue' = queue /\ resetPc' = resetPc /\ batch' = <<>>
    BY <1>5 DEF TrainStep, mqVars
  <2>2. resetPc = "none" /\ Recounted
    BY <2>1 DEF CallInv, Recounted
  <2>3. CASE trainPc' = "sync"
    BY <2>1, <2>2, <2>3 DEF RecountInv
  <2>4. CASE trainPc' # "sync"
    <3>1. local_trigger_step' = local_trigger_step + 1
      BY <1>5, <2>4 DEF TrainStep
    <3>2. Outstanding' = Outstanding
      BY <1>2, <2>1 DEF Outstanding, Queued, SamplesIn
    <3>3. Len(batch) = RequiredSamples /\ Len(batch') = 0
      BY <2>1, EmptySeq DEF TrainInv
    <3>4. x' = x + RequiredSamples
      <4>1. local_trigger_step - 1 \in Int /\ RequiredSamples \in Int
            /\ local_trigger_step \in Int
        BY ConfigAssumption DEF TypeInv, TypeOK, TrainTypeOK
      <4>2. RequiredSamples * ((local_trigger_step - 1) + 1)
              = RequiredSamples * (local_trigger_step - 1) + RequiredSamples * 1
        BY <4>1, Distributes
      <4>3. (local_trigger_step - 1) + 1 = local_trigger_step' - 1
            /\ RequiredSamples * 1 = RequiredSamples
        BY <3>1, <4>1
      <4> QED
        BY <4>2, <4>3
    <3>5. Available' = Available
      <4> HIDE DEF x
      <4> QED
        BY <1>3, <3>2, <3>3, <3>4
    <3> QED
      BY <1>1, <1>3, <2>1, <2>2, <3>5, RecountFrame
  <2> QED
    BY <2>3, <2>4
<1>6. CASE UpdateWeights
  <2>1. resetPc' = "called" /\ trainPc' \in {"reset", "lastReset"}
    BY <1>6 DEF UpdateWeights
  <2> QED
    BY <2>1 DEF RecountInv
<1>7. CASE WaitSample \/ ResetReturns \/ FitSaveCheckpoint \/ AfterLoop
  <2>1. /\ UNCHANGED <<queue, batch, local_trigger_step>>
        /\ resetPc' = resetPc \/ resetPc' = "none"
    BY <1>7 DEF WaitSample, MQ!GetWait, ResetReturns, FitSaveCheckpoint, AfterLoop, trainVars, mqVars
  <2>2. Recounted' => Recounted
    BY <1>7 DEF WaitSample, ResetReturns, FitSaveCheckpoint, AfterLoop, Recounted, trainVars
  <2>3. OutstandingSet' = OutstandingSet
    BY <1>2, <2>1 DEF OutstandingSet, Queued, SamplesIn
  <2> QED
    BY <1>1, <2>1, <2>2, <2>3, AvailableFrame, RecountFrame
<1> QED
  BY <1>4, <1>5, <1>6, <1>7 DEF Train, TrainNext

\* Every step of the pipeline keeps RecountInv.
LEMMA RecountStep ==
  ASSUME TypeInv, TypeInv', HandInv, FlowInv, EndInv, SlotInv, TrainInv, CallInv,
         FlowInv', EndInv', SlotInv', PerVersion <= MaxRequiredSamples,
         RecountInv, [Next]_vars
  PROVE  RecountInv'
<1>1. CASE Rollout(Main)
  <2>1. UNCHANGED <<trainPc, batch, local_trigger_step, resetPc, resetCount, held, task, procPc,
                    staleness_samples>>
    BY <1>1 DEF Rollout, Main, trainVars, procVars
  <2>2. Recounted' <=> Recounted
    BY <2>1 DEF Recounted
  <2>3. CASE SendEndSignal
    <3>1. procPc' \in {"done", "failed"}
      BY <2>1, <2>3 DEF SendEndSignal, EndInv, SlotInv
    <3>2. Supplied'
      BY <3>1 DEF Supplied
    <3> QED
      BY <2>1, <2>2, <3>2, RecountFrame
  <2>4. CASE ~SendEndSignal
    <3>1. queue' = queue
      BY <1>1, <2>4 DEF Rollout, Main, MainFail, MainComplete, ClearRunning, MainJoinsLine, mqVars
    <3>2. OutstandingSet' = OutstandingSet
      BY <2>1, <3>1 DEF OutstandingSet, InHand, Unput, Queued, SamplesIn
    <3> QED
      BY <2>1, <2>2, <3>2, AvailableFrame, RecountFrame
  <2> QED
    BY <2>3, <2>4
<1>2. CASE Rollout(Feeder) \/ Rollout(Monitor) \/ UNCHANGED vars
  <2>1. UNCHANGED <<trainPc, batch, local_trigger_step, resetPc, resetCount, held, task, queue,
                    staleness_samples>>
    BY <1>2 DEF Rollout, Feeder, Monitor, vars, rolloutVars, trainVars, mqVars, procVars
  <2>2. Recounted' <=> Recounted
    BY <2>1 DEF Recounted
  <2>3. OutstandingSet' = OutstandingSet
    BY <2>1 DEF OutstandingSet, InHand, Unput, Queued, SamplesIn
  <2> QED
    BY <2>1, <2>2, <2>3, AvailableFrame, RecountFrame
<1>3. CASE DriverEnds
  <2>1. trainPc' = "done" /\ trainPc = "done" /\ resetPc' = resetPc
    BY <1>3 DEF DriverEnds, trainVars
  <2>2. resetPc = "none"
    BY <2>1 DEF CallInv
  <2> QED
    BY <2>1, <2>2 DEF RecountInv
<1>4. \A s \in Samples : Rollout(TaskStep(s)) => RecountInv'
  BY RecountTask
<1> QED
  BY <1>1, <1>2, <1>3, <1>4, StepCases, RecountProcessor, RecountReset, RecountTrain

\* max_required_samples leaves room for the samples of a version beside the task slots.
RecountRoom == MaxConcurrentSamples + PerVersion <= MaxRequiredSamples

\* Then a version's samples fit into the queue.
LEMMA RoomForVersion == RecountRoom => PerVersion <= MaxRequiredSamples
<1>1. MaxConcurrentSamples \in Nat /\ MaxRequiredSamples \in Nat
  BY MaxConcurrentType, MaxRequiredType
<1>2. PerVersion \in Nat
  BY ConfigAssumption DEF PerVersion
<1> QED
  BY <1>1, <1>2 DEF RecountRoom

\* RecountInv holds of every behaviour of such a configuration.
LEMMA RecountInvariant ==
  ASSUME RecountRoom
  PROVE  Spec => []RecountInv
<1>1. Init => RecountInv
  <2> SUFFICES ASSUME Init PROVE RecountInv
    OBVIOUS
  <2>1. staleness_samples = 0 /\ resetPc = "none"
    BY DEF Init, RolloutInit, ChannelInit
  <2>2. Available \in Nat /\ MaxConcurrentSamples \in Nat
    BY TypeInit, AvailableType DEF AvailableTypes
  <2>3. staleness_samples <= Available + MaxConcurrentSamples
    BY <2>1, <2>2
  <2> QED
    BY <2>1, <2>3 DEF RecountInv, Covered
<1>2. /\ TypeInv /\ HandInv /\ (FlowInv /\ EndInv) /\ (SlotInv /\ SignalInv)
      /\ TrainInv /\ MoveInv /\ TypeInv' /\ (FlowInv /\ EndInv)' /\ (SlotInv /\ SignalInv)'
      /\ RecountInv /\ [Next]_vars
      => RecountInv'
  BY RecountStep, RoomForVersion DEF MoveInv
<1> QED
  BY <1>1, <1>2, TypeInvariant, HandInvariant, FlowInvariant, SignalInvariant, TrainInvariant,
     MoveInvariant, PTL DEF Spec

\* A Trainer that waits with nothing outstanding has been reported no more samples than the
\* tasks and the batches it has already taken.
LEMMA NotStarved ==
  ASSUME TypeInv, HandInv, MoveInv, RecountInv, RecountRoom
  PROVE  ~Starved
<1> SUFFICES ASSUME Starved PROVE FALSE
  OBVIOUS
<1> DEFINE l == local_trigger_step
           R == RequiredSamples
           T == TriggerParameterSyncStep
<1>1. Outstanding = 0
  <2>1. held = EndSignal
    BY DEF Starved, HandInv
  <2>2. InHand = {}
    BY <2>1 DEF InHand
  <2>3. Unput = {}
    BY DEF Starved, HandInv, Unput, Unfinished
  <2>4. Queued = {}
    BY EmptySeq DEF Starved, Queued, SamplesIn
  <2>5. InHand \cup Unput \cup Queued = {}
    BY <2>2, <2>3, <2>4
  <2> QED
    BY <2>5, FS_EmptySet DEF Outstanding
<1>2. Failed = {} /\ procPc \notin {"end", "done", "failed"}
  BY DEF Starved, MoveInv, ProcInv
<1>3. Len(batch) \in Nat /\ R * (l - 1) \in Nat /\ PerVersion \in Nat /\ MaxConcurrentSamples \in Nat
      /\ MaxRequiredSamples \in Nat /\ staleness_samples \in Nat /\ R \in Nat
  BY AvailableType, MaxRequiredType, ConfigAssumption DEF AvailableTypes
<1>4. Len(batch) < R
  BY DEF Starved, TypeInv
<1>5. R * (l - 1) + R <= PerVersion
  <2>1. l \in 1 .. T /\ T \in Nat \ {0} /\ R \in Nat \ {0}
    BY ConfigAssumption DEF TypeInv, TypeOK, TrainTypeOK
  <2> HIDE DEF l, R, T
  <2>2. l \in Int /\ T - l \in Nat /\ l - 1 \in Int /\ T \in Int /\ R \in Int
    BY <2>1
  <2>3. R * ((l - 1) + 1) = R * (l - 1) + R * 1 /\ R * 1 = R /\ (l - 1) + 1 = l
    BY <2>2, Distributes
  <2>4. R * (l + (T - l)) = R * l + R * (T - l) /\ l + (T - l) = T
    BY <2>2, Distributes
  <2>5. R * (T - l) \in Nat /\ R * l \in Int
    BY <2>1, <2>2
  <2>6. PerVersion = R * T
    BY DEF PerVersion, R, T
  <2>7. \A a, b, c \in Int : b \in Nat /\ c = a + b => a <= c
    OBVIOUS
  <2>8. R * l <= R * T
    BY <2>2, <2>4, <2>5, <2>7
  <2> QED
    BY <2>3, <2>6, <2>8
<1>6. Available < PerVersion
  <2> DEFINE x == R * (l - 1)
  <2>1. Available = Outstanding + Len(batch) + x
    BY DEF Available
  <2> HIDE DEF x, R
  <2>2. x \in Nat /\ x + R <= PerVersion
    BY <1>3, <1>5 DEF x
  <2> QED
    BY <1>1, <1>3, <1>4, <2>1, <2>2
<1>7. staleness_samples <= Available + MaxConcurrentSamples
  <2>1. ~Supplied
    <3>1. ~(Available >= PerVersion)
      BY <1>3, <1>6, AvailableType DEF AvailableTypes
    <3> QED
      BY <1>2, <3>1 DEF Supplied
  <2> QED
    BY <2>1 DEF Starved, RecountInv, Covered
<1>8. Available \in Nat /\ staleness_samples >= MaxRequiredSamples
  BY AvailableType DEF Starved, AvailableTypes
<1>9. \A a, m, p, q, s \in Nat : a < p /\ s <= a + m /\ s >= q => ~(m + p <= q)
  OBVIOUS
<1> QED
  BY <1>3, <1>6, <1>7, <1>8, <1>9 DEF RecountRoom

\* At every time somebody passes his guard, or both fit() calls have returned (or the
\* Rollouter's has raised).
KeepsMoving == SomeoneMoves \/ Over

\* With that room the pipeline never comes to a standstill, whichever generations fail and
\* however the answers to the calls are delayed.
THEOREM PipelineKeepsMoving ==
  ASSUME RecountRoom
  PROVE  Spec => []KeepsMoving
<1>1. /\ TypeInv /\ HandInv /\ MoveInv /\ RecountInv /\ StopsOnlyStarved
      => KeepsMoving
  BY NotStarved DEF StopsOnlyStarved, KeepsMoving
<1> QED
  BY <1>1, TypeInvariant, HandInvariant, MoveInvariant, RecountInvariant, NoCircularWait, PTL
=============================================================================
