------------------------------ MODULE Rollouter ------------------------------
(***************************************************************************)
(* The FullyAsyncRollouter actor (fully_async_rollouter.py): coroutines on *)
(* one event loop.                                                         *)
(*                                                                         *)
(*   _feed_samples            fills pending_queue and ends it with None    *)
(*   _processor_worker        turns pending samples into tasks, throttled  *)
(*                            by staleness, concurrency and the queue      *)
(*   _process_single_sample_streaming   one task per sample: generate, put *)
(*   reset_staleness          called by the Trainer after a weight sync    *)
(*   _async_monitor_loop      un-pauses a processor nobody else wakes      *)
(*   _streaming_generation_main   awaits the first two, sends the end      *)
(*                            signal, stops                                *)
(*                                                                         *)
(* A coroutine runs until it suspends.  The feeder and the processor go    *)
(* through several actions between two suspensions: while eventLoop names  *)
(* one of them no other coroutine of the Rollouter takes a step, though    *)
(* the Trainer and the MessageQueue do.  Each stretch of another coroutine *)
(* is one action.                                                          *)
(*                                                                         *)
(* self.lock is an asyncio.Lock: a coroutine that finds it taken joins a   *)
(* FIFO, and a release hands it to the first in line.  It is held across   *)
(* suspensions by the processor (in asyncio.wait) and by reset_staleness   *)
(* (in get_queue_size); any other holder acquires and releases it within   *)
(* one action.                                                             *)
(***************************************************************************)
EXTENDS AsyncChannels

VARIABLES
  global_steps, feedPc, pending,              \* _feed_samples
  procPc, held, active, staleness_samples,    \* _processor_worker
  task, queuedAt,                             \* sample tasks; history: the version
                                              \* served when a sample was queued
  total_generated_samples, dropped_stale_samples,
  paused, lock, lockQueue, eventLoop,
  resetCount,                                 \* the sum reset_staleness builds
  mainPc, monPc, r_running                    \* main, monitor, self.running

feedVars == <<global_steps, feedPc>>
procVars == <<procPc, held, active, staleness_samples>>
putVars == <<queuedAt, total_generated_samples, dropped_stale_samples>>
lockVars == <<lock, lockQueue>>
lifeVars == <<mainPc, monPc, r_running>>
rolloutVars == <<feedVars, pending, procVars, task, putVars, paused, lockVars,
                 eventLoop, resetCount, lifeVars>>

\* "drain", "cap" and "end" are the three loops around asyncio.wait(active_tasks);
\* with lock = "processor" they are inside it.  "asleep" is Condition.wait.
ReapLoops == {"drain", "cap", "end"}
ProcPc == {"top", "pause", "idle", "asleep", "take", "dispatch", "done", "failed"}
            \cup ReapLoops
TaskState == {"none", "generating", "putting", "stored", "displaced", "done", "failed"}
LockUsers == {"processor", "reset", "monitor", "main"}

RolloutInit ==
  /\ global_steps = 1 /\ feedPc = "feed" /\ pending = <<>>
  /\ procPc = "top" /\ held = EndSignal /\ active = {} /\ staleness_samples = 0
  /\ task = [s \in Samples |-> "none"]
  /\ queuedAt = [s \in Samples |-> 0]
  /\ total_generated_samples = 0 /\ dropped_stale_samples = 0
  /\ paused = FALSE /\ lock = "free" /\ lockQueue = <<>> /\ eventLoop = "free"
  /\ resetCount = 0
  /\ mainPc = "await" /\ monPc = "check" /\ r_running = TRUE

-----------------------------------------------------------------------------
\* The lock.  When it is free nobody is in line.

HasLock(c) == lock \in {"free", c}

Release ==
  /\ lock' = IF lockQueue = <<>> THEN "free" ELSE Head(lockQueue)
  /\ lockQueue' = IF lockQueue = <<>> THEN <<>> ELSE Tail(lockQueue)

InLine(c) == \E i \in DOMAIN lockQueue : lockQueue[i] = c

JoinLine(c) ==
  /\ ~HasLock(c) /\ ~InLine(c)
  /\ lockQueue' = Append(lockQueue, c)

-----------------------------------------------------------------------------
\* _feed_samples

FeedSample ==
  /\ feedPc = "feed" /\ Len(pending) < PendingCap
  /\ pending' = Append(pending, global_steps)
  /\ IF global_steps >= TotalRolloutSteps
     THEN feedPc' = "end" /\ UNCHANGED global_steps
     ELSE global_steps' = global_steps + 1 /\ UNCHANGED feedPc

FeedEnd ==
  /\ feedPc = "end" /\ Len(pending) < PendingCap
  /\ pending' = Append(pending, EndSignal)
  /\ feedPc' = "done"
  /\ UNCHANGED global_steps

\* pending_queue.put suspends only when the queue is full.
FeederSuspended == feedPc = "done" \/ Len(pending) >= PendingCap

Feeder ==
  /\ eventLoop \in {"free", "feeder"}
  /\ FeedSample \/ FeedEnd
  /\ eventLoop' = IF FeederSuspended' THEN "free" ELSE "feeder"
  /\ UNCHANGED <<procVars, task, putVars, paused, lockVars, resetCount,
                 lifeVars, mqVars, resetPc>>

-----------------------------------------------------------------------------
\* _processor_worker

\* A bug: only the queue throttles.
PauseOnQueueOnly == MQ!QueueSize >= MaxRequiredSamples

\* The statistics call is a blocking ray.get: the event loop stands still.
ShouldPause ==
  \/ MQ!QueueSize >= MaxRequiredSamples
  \/ staleness_samples >= MaxRequiredSamples

LoopTop ==
  /\ procPc = "top"
  /\ procPc' = IF paused \/ ShouldPause THEN "pause" ELSE "take"
  /\ UNCHANGED <<held, active, staleness_samples, pending, task, paused, lockVars>>

\* A bug: the processor sleeps without reaping its tasks.
SetPausedNoDrain ==
  /\ procPc = "pause" /\ HasLock("processor")
  /\ paused' = TRUE
  /\ Release
  /\ procPc' = "idle"
  /\ UNCHANGED <<held, active, staleness_samples, pending, task>>

SetPaused ==
  /\ procPc = "pause" /\ HasLock("processor")
  /\ paused' = TRUE
  /\ Release
  /\ procPc' = "drain"
  /\ UNCHANGED <<held, active, staleness_samples, pending, task>>

\* The condition of the reaping loop the processor is in.
KeepsReaping ==
  IF procPc = "cap" THEN Cardinality(active) >= MaxConcurrentSamples
                    ELSE active # {}

AcquireToReap ==
  /\ procPc \in ReapLoops /\ KeepsReaping
  /\ lock = "free"
  /\ lock' = "processor"
  /\ UNCHANGED <<procVars, pending, task, paused, lockQueue>>

Finished == {t \in active : task[t] \in {"done", "failed"}}

\* asyncio.wait returns every task that is finished by then; awaiting one that
\* raised ends the processor.  Only here does a task leave active_tasks.
Reap ==
  /\ procPc \in ReapLoops
  /\ lock = "processor" /\ Finished # {}
  /\ active' = active \ Finished
  /\ Release
  /\ procPc' = IF \E t \in Finished : task[t] = "failed" THEN "failed" ELSE procPc
  /\ UNCHANGED <<held, staleness_samples, pending, task, paused>>

LeaveReapLoop ==
  /\ procPc \in ReapLoops /\ ~KeepsReaping
  /\ procPc' = CASE procPc = "drain" -> "idle"
                 [] procPc = "cap"   -> "dispatch"
                 [] procPc = "end"   -> "done"
  /\ UNCHANGED <<held, active, staleness_samples, pending, task, paused, lockVars>>

\* "async with self.lock: while self.paused: await self.condition.wait()"
WaitUnpaused ==
  /\ procPc = "idle" /\ HasLock("processor")
  /\ procPc' = IF paused THEN "asleep" ELSE "top"
  /\ Release
  /\ UNCHANGED <<held, active, staleness_samples, pending, task, paused>>

\* The end signal counts as a sample, too.
TakePending ==
  /\ procPc = "take" /\ pending # <<>>
  /\ pending' = Tail(pending)
  /\ staleness_samples' = staleness_samples + 1
  /\ held' = Head(pending)
  /\ procPc' = IF Head(pending) = EndSignal THEN "end" ELSE "cap"
  /\ UNCHANGED <<active, task, paused, lockVars>>

\* Blocks while paused, like the loop around Condition.wait in the code.
Dispatch ==
  /\ procPc = "dispatch" /\ HasLock("processor") /\ ~paused
  /\ active' = active \cup {held}
  /\ task' = [task EXCEPT ![held] = "generating"]
  /\ held' = EndSignal
  /\ Release
  /\ procPc' = "top"
  /\ UNCHANGED <<staleness_samples, pending, paused>>

ProcWantsLock ==
  procPc \in {"pause", "idle", "dispatch"} \/ (procPc \in ReapLoops /\ KeepsReaping)

ProcJoinsLine ==
  /\ ProcWantsLock /\ JoinLine("processor")
  /\ UNCHANGED <<procVars, pending, task, paused, lock>>

\* Where the processor has given up the event loop.
ProcSuspended ==
  \/ procPc \in {"asleep", "done", "failed"}
  \/ procPc = "take" /\ pending = <<>>
  \/ procPc \in ReapLoops /\ lock = "processor"
  \/ InLine("processor")

Processor ==
  /\ eventLoop \in {"free", "processor"}
  /\ \/ LoopTop \/ SetPaused \/ AcquireToReap \/ Reap \/ LeaveReapLoop
     \/ WaitUnpaused \/ TakePending \/ Dispatch \/ ProcJoinsLine
  /\ eventLoop' = IF ProcSuspended' THEN "free" ELSE "processor"
  /\ UNCHANGED <<feedVars, putVars, resetCount, lifeVars, mqVars, resetPc>>

-----------------------------------------------------------------------------
\* _process_single_sample_streaming

\* generate_sequences_single returns and put_sample is called, or it raises.
Generated(s) ==
  /\ task[s] = "generating" /\ eventLoop = "free"
  /\ task' = [task EXCEPT ![s] = "putting"]
  /\ UNCHANGED <<putVars, mqVars>>

GenerationFails(s) ==
  /\ task[s] = "generating" /\ eventLoop = "free" /\ s \in MayFail
  /\ task' = [task EXCEPT ![s] = "failed"]
  /\ UNCHANGED <<putVars, mqVars>>

\* put_sample runs at the MessageQueue ...
PutArrives(s) ==
  /\ task[s] = "putting"
  /\ MQ!PutSample(s)
  /\ task' = [task EXCEPT ![s] = IF MQ!PutReturns THEN "stored" ELSE "displaced"]
  /\ queuedAt' = [queuedAt EXCEPT ![s] = server_version]
  /\ UNCHANGED <<total_generated_samples, dropped_stale_samples>>

\* ... and its answer reaches the task, which ends.
PutReturned(s) ==
  /\ task[s] \in {"stored", "displaced"} /\ eventLoop = "free"
  /\ IF task[s] = "stored"
     THEN total_generated_samples' = total_generated_samples + 1
          /\ UNCHANGED dropped_stale_samples
     ELSE dropped_stale_samples' = dropped_stale_samples + 1
          /\ UNCHANGED total_generated_samples
  /\ task' = [task EXCEPT ![s] = "done"]
  /\ UNCHANGED <<queuedAt, mqVars>>

TaskStep(s) ==
  /\ Generated(s) \/ GenerationFails(s) \/ PutArrives(s) \/ PutReturned(s)
  /\ UNCHANGED <<feedVars, pending, procVars, paused, lockVars, eventLoop,
                 resetCount, lifeVars, resetPc>>

-----------------------------------------------------------------------------
\* reset_staleness.  The condition variable's only waiter is the processor.

NotifyAll == procPc' = IF procPc = "asleep" THEN "idle" ELSE procPc

\* A bug: paused is cleared and nobody is notified.
ResetAcquireSilent ==
  /\ resetPc = "called" /\ HasLock("reset") /\ eventLoop = "free"
  /\ lock' = "reset"
  /\ paused' = FALSE
  /\ resetCount' = Cardinality(active)
  /\ resetPc' = "query"
  /\ UNCHANGED <<procPc, staleness_samples, lockQueue>>

\* len(self.active_tasks) is evaluated before the await ...
ResetAcquire ==
  /\ resetPc = "called" /\ HasLock("reset") /\ eventLoop = "free"
  /\ lock' = "reset"
  /\ paused' = FALSE
  /\ NotifyAll
  /\ resetCount' = Cardinality(active)
  /\ resetPc' = "query"
  /\ UNCHANGED <<staleness_samples, lockQueue>>

\* ... get_queue_size runs at the MessageQueue ...
ResetQuery ==
  /\ resetPc = "query"
  /\ resetCount' = resetCount + MQ!QueueSize
  /\ resetPc' = "reply"
  /\ UNCHANGED <<procPc, staleness_samples, paused, lockVars>>

\* ... and the sum overwrites whatever was counted meanwhile.
ResetAssign ==
  /\ resetPc = "reply" /\ eventLoop = "free"
  /\ staleness_samples' = resetCount
  /\ resetCount' = 0
  /\ Release
  /\ resetPc' = "returned"
  /\ UNCHANGED <<procPc, paused>>

ResetJoinsLine ==
  /\ resetPc = "called" /\ eventLoop = "free" /\ JoinLine("reset")
  /\ UNCHANGED <<procPc, staleness_samples, paused, lock, resetCount, resetPc>>

ResetStaleness ==
  /\ ResetAcquire \/ ResetQuery \/ ResetAssign \/ ResetJoinsLine
  /\ UNCHANGED <<feedVars, pending, held, active, task, putVars, eventLoop,
                 lifeVars, mqVars>>

-----------------------------------------------------------------------------
\* _async_monitor_loop

MonitorCheck ==
  /\ monPc = "check" /\ HasLock("monitor")
  /\ monPc' = IF r_running THEN "sleep" ELSE "done"
  /\ Release
  /\ UNCHANGED <<procPc, paused>>

\* After asyncio.sleep(check_interval)
MonitorTest ==
  /\ monPc = "sleep"
  /\ monPc' = IF paused /\ ~ShouldPause THEN "wake" ELSE "check"
  /\ UNCHANGED <<procPc, paused, lockVars>>

MonitorWake ==
  /\ monPc = "wake" /\ HasLock("monitor")
  /\ paused' = FALSE
  /\ NotifyAll
  /\ Release
  /\ monPc' = "check"

MonitorJoinsLine ==
  /\ monPc \in {"check", "wake"} /\ JoinLine("monitor")
  /\ UNCHANGED <<procPc, paused, lock, monPc>>

Monitor ==
  /\ eventLoop = "free"
  /\ MonitorCheck \/ MonitorTest \/ MonitorWake \/ MonitorJoinsLine
  /\ UNCHANGED <<feedVars, pending, held, active, staleness_samples, task, putVars,
                 eventLoop, resetCount, mainPc, r_running, mqVars, resetPc>>

-----------------------------------------------------------------------------
\* _streaming_generation_main

\* The processor raised: _feed_samples is cancelled, and the exception goes on
\* once the finally clause has run.
MainFail ==
  /\ mainPc = "await" /\ procPc = "failed"
  /\ mainPc' = "sendEndThenRaise"
  /\ feedPc' = IF feedPc = "done" THEN "done" ELSE "cancelled"
  /\ UNCHANGED <<r_running, lockVars, mqVars>>

\* A bug: the processor is not awaited.
MainCompleteEarly ==
  /\ mainPc = "await" /\ feedPc = "done"
  /\ mainPc' = "sendEnd"
  /\ UNCHANGED <<feedPc, r_running, lockVars, mqVars>>

MainComplete ==
  /\ mainPc = "await" /\ feedPc = "done" /\ procPc = "done"
  /\ mainPc' = "sendEnd"
  /\ UNCHANGED <<feedPc, r_running, lockVars, mqVars>>

SendEndSignal ==
  /\ mainPc \in {"sendEnd", "sendEndThenRaise"}
  /\ MQ!PutSample(EndSignal)
  /\ mainPc' = IF mainPc = "sendEnd" THEN "stop" ELSE "raised"
  /\ UNCHANGED <<feedPc, r_running, lockVars>>

\* A bug: running stays set.
ClearRunningNot ==
  /\ mainPc = "stop" /\ HasLock("main")
  /\ Release
  /\ mainPc' = "done"
  /\ UNCHANGED <<feedPc, r_running, mqVars>>

ClearRunning ==
  /\ mainPc = "stop" /\ HasLock("main")
  /\ r_running' = FALSE
  /\ Release
  /\ mainPc' = "done"
  /\ UNCHANGED <<feedPc, mqVars>>

MainJoinsLine ==
  /\ mainPc = "stop" /\ JoinLine("main")
  /\ UNCHANGED <<mainPc, feedPc, r_running, lock, mqVars>>

Main ==
  /\ eventLoop = "free"
  /\ MainFail \/ MainComplete \/ SendEndSignal \/ ClearRunning \/ MainJoinsLine
  /\ UNCHANGED <<global_steps, pending, procVars, task, putVars, paused, eventLoop,
                 resetCount, monPc, resetPc>>

\* fit() gathers the generation task and the monitor task.
FitReturned == mainPc \in {"done", "raised"} /\ monPc = "done"

-----------------------------------------------------------------------------

RolloutNext ==
  \/ Feeder
  \/ Processor
  \/ \E s \in Samples : TaskStep(s)
  \/ ResetStaleness
  \/ Monitor
  \/ Main

RolloutTypeOK ==
  /\ global_steps \in Samples
  /\ feedPc \in {"feed", "end", "done", "cancelled"}
  /\ pending \in Seq(Items)
  /\ procPc \in ProcPc
  /\ held \in Items
  /\ active \subseteq Samples
  /\ staleness_samples \in Nat
  /\ task \in [Samples -> TaskState]
  /\ queuedAt \in [Samples -> Nat]
  /\ total_generated_samples \in Nat /\ dropped_stale_samples \in Nat
  /\ paused \in BOOLEAN
  /\ lock \in {"free"} \cup LockUsers
  /\ lockQueue \in Seq(LockUsers)
  /\ eventLoop \in {"free", "feeder", "processor"}
  /\ resetCount \in Nat
  /\ mainPc \in {"await", "sendEnd", "sendEndThenRaise", "stop", "done", "raised"}
  /\ monPc \in {"check", "sleep", "wake", "done"}
  /\ r_running \in BOOLEAN
=============================================================================
