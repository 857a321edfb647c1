# A TLA+ verification project for the asynchronous training core

The repository is a fork of verl, a library for reinforcement-learning post-training of language
models, extended with self-distillation (SDPO). Most of it is numerical code, adapters to inference
engines, examples and data preparation. What can go wrong in ways a test hardly reaches is the
concurrent and stateful part: the *fully asynchronous trainer* (`src/verl/experimental/fully_async_policy`),
in which a Rollouter generates samples while a Trainer consumes them, and what it rests on: weight
updates, interruptible generation, agent loops, rewards, checkpoints, and the self-distillation step.
This directory models that part, checks it with TLC and proves what matters most with TLAPS.

1. [Inventory](#1-inventory) · 2. [Modules](#2-modules) · 3. [Runs](#3-runs) · 4. [Properties](#4-properties) ·
5. [Findings and divergences](#5-findings-and-divergences) · 6. [Theorems](#6-theorems) ·
7. [Not modelled](#7-not-modelled) · 8. [Plan](#8-plan)

## 1. Inventory

Paths are below `src/verl/`.

| part | state | operations | hard behaviour | what makes it correct |
|---|---|---|---|---|
| message queue (`experimental/fully_async_policy/message_queue.py`) | `queue`, `running`, counters, one lock and condition | `put_sample`, `get_sample`, `get_queue_size`, `clear_queue`, `shutdown`, `put_validate`, `get_validate` | consumers wait on a condition; a full queue gives up its oldest sample | nobody sleeps beside a sample; statistics balance; the queue is a window of the newest |
| Rollouter (`fully_async_rollouter.py`) | `pending_queue`, `active_tasks`, `staleness_samples`, `paused`, `running`, `lock`/`condition` | coroutines `_feed_samples`, `_processor_worker`, one task per sample, `_streaming_generation_main`, `_async_monitor_loop`; called from outside: `reset_staleness`, `save_checkpoint`, `load_checkpoint` | a dozen suspension points share a lock that is held across some of them; the throttle counts with values that may be out of date | no sample twice; losses are counted; work ahead of the Trainer stays in its budget; who pauses drains and is woken |
| Trainer (`fully_async_trainer.py`) | `local_trigger_step`, `current_param_version`, `last_ckpt_version`, the batch | `fit`, `fit_step`, `_get_samples_from_queue`, `_fit_update_weights`, `_fit_save_checkpoint`, `load_checkpoint` | publishes every `trigger_parameter_sync_step` steps, then calls back into the Rollouter and waits | batches are full; the run ends; versions count samples, also after a restart |
| driver (`fully_async_main.py`) | futures of both `fit()` | `_initialize_components`, `_run_training_loop` | one side ends before the other | both end |
| interruptible generation (`fully_async_policy/agent_loop/agent_loop.py`, `workers/rollout/vllm_rollout/vllm_async_server.py`) | tokens so far, the shared `sampling_params` | `generate` of client and server, abort and resume | aborted anywhere and continued elsewhere, with other weights | a response is one gap-free stream within its limits |
| weight update (`checkpoint_engine/base.py`) | phase, replicas | `update_weights`: abort, drain, transfer, resume | clients resubmit while it runs | nothing is generated from half-loaded weights; all resume |
| weight transfer (`checkpoint_engine/nccl_checkpoint_engine.py`, `vllm_rollout/bucketed_weight_transfer.py`) | two buffers on each side, one shared buffer, queued device copies | `send_weights`, `receive_weights`, bucketed sender and receiver | the device lags behind the host; announcements are publish/subscribe | each receiver loads every weight once, in order, intact |
| load balancer (`experimental/agent_loop/agent_loop.py`) | `_inflight_requests`, LRU routes | `acquire_server`, `release_server` | release is a call nobody waits for | counts return to zero |
| agent loops (`experimental/agent_loop/tool_agent_loop.py`, `single_turn_agent_loop.py`) | token, mask, log-prob and image lists | the handlers of the trajectory's states, `_call_tool` | many early ends; parallel tools that fail anywhere | the lists stay aligned; instances are released; requests fit |
| checkpoints (`utils/checkpoint`, `trainer/ppo/ray_trainer.py`) | folders, `previous_saved_paths`, tracker | save, rotate, resume | a crash between any two steps | the tracker names a complete checkpoint; data and weights agree |
| reward loop (`experimental/reward_loop/reward_manager/limited.py`) | token buckets, semaphore, thread pool | `acquire`, `run_single` | debt, timeouts, threads that outlive them | the quota holds; everyone is answered |
| self-distillation batch (`trainer/ppo/ray_trainer.py`, `utils/reward_score/feedback`) | the columns of a batch | `_maybe_build_self_distillation_batch` and its helpers | rows are repeated, joined and reordered by position | demonstration, feedback, mask and advantage belong to their row |
| self-distillation actor (`workers/actor/dp_actor.py`, `workers/fsdp_workers.py`) | student, teacher, gradient scaler | `update_policy`, `_optimizer_step`, `_update_teacher`, checkpoints | steps dropped for a gradient that is not finite; crashes | one teacher per update; it mixes what it should |
| synchronous trainers, single controller (`trainer/ppo`, `experimental/one_step_off_policy`, `experimental/separation`, `single_controller`) | one sequential loop | `fit`, dispatch | little of its own | as far as checkpoints and the self-distillation step need it |
| data protocol, balancing (`protocol.py`, `utils/seqlen_balancing.py`) | columns | repeat, union, reorder, chunk | joined by position | in the self-distillation step |
| everything else | | | numerical code, adapters, I/O | see section 7 |

How they interact. Rollouter tasks `put_sample` to the queue; the Rollouter's throttle reads
`get_statistics`; the Trainer blocks in `get_sample`; after a weight update the Trainer calls
`reset_staleness` on the Rollouter, which reads `get_queue_size` while it holds the Rollouter's lock.
`None` is the end signal, in `pending_queue` and in the queue. A task generates through agent loops that
acquire a server from the balancer; a weight update aborts them on all servers, transfers through the
checkpoint engine and resumes. Finished responses go to the reward loop. Checkpoints collect the
Trainer's weights and the Rollouter's data position. The self-distillation step turns the rewarded batch
into a teacher's batch, which the actor trains on.

## 2. Modules

| module | models | built on |
|---|---|---|
| `DropOldestLog` | abstract specification of the queue: a window `head+1 .. tail` of a stream of positions | |
| `MessageQueue` | the queue actor, one action per method, `get_sample` cut where it waits | refines `DropOldestLog` |
| `AsyncChannels` | configuration (`set_max_required_samples`) and what Rollouter and Trainer share: an instance of `MessageQueue`, the `reset_staleness` call, the version served | `MessageQueue` |
| `Rollouter`, `Trainer` | the coroutines of the Rollouter on one event loop; the Trainer's thread of control | `AsyncChannels` |
| `SampleFlow` | abstract specification of the pipeline: samples are started within a budget, may be lost, are taken into batches, and batches make versions | |
| `FullyAsync` | Rollouter, queue, Trainer and driver together | refines `SampleFlow` |
| `RequestBalancer` | the load balancer and the calls on their way to it | |
| `WeightSync` | the phases of a weight update over all replicas | `RequestBalancer` |
| `ResponseStream` | abstract specification of generation: a response only grows, with versions that never go back, and is closed once | |
| `PartialRollout` | agent loops, client, balancer, servers and weight updates together | `WeightSync`; refines `ResponseStream` |
| `WeightBroadcast` | the NCCL checkpoint engine, sender and receivers | |
| `WeightTransfer` | the broadcast with the shared bucket into the inference workers | `WeightBroadcast` |
| `Checkpoint` | save, rotation, tracker, crash and resumption of the synchronous trainer | |
| `AsyncResume` | checkpoint, crash and resumption of the asynchronous pipeline | |
| `ToolAgentLoop` | a multi-turn trajectory with parallel tool calls | |
| `AsyncTokenBucket`, `RateLimitedReward` | the limiter as operators; `run_single` in several worker processes | |
| `SelfDistillation` | one training step from the prompts to the teacher's batch | |
| `SdpoActor` | updates of student and teacher, gradient scaler, crashes | |
| `MC*` | values of constants for TLC | their module |
| `*_proofs` | theorems, section 6 | their module |

Every module that has state has an invariant `TypeOK` (`TransferTypeOK`, `ActorTypeOK`), which documents the state. It holds in each of the
runs' instances; where section 6 says so it is proved. The runs spend their time on the others.

### 2.1 The asynchronous pipeline

**Samples.** A sample is the value of `global_steps` at which it was fed; `0` is the `None` that ends a
stream. Tensors, prompts, rewards and metrics are left out.

**The Rollouter's event loop.** Python coroutines run until they suspend. `eventLoop` names the coroutine
that has not suspended yet: the feeder (which runs until `pending_queue` is full) and the processor go
through several actions in one stretch, and meanwhile no other coroutine of the Rollouter moves, although
the Trainer and the queue actor do. That matters: `_should_pause_generation` reads the queue with a
blocking call, so the Trainer may take a sample between that read and the next test, but no task of the
Rollouter may end in between. Every other stretch is one action.

**The lock.** `self.lock` is the lock inside `self.condition`. `lock` is its holder, `lockQueue` the FIFO
of waiters; `Release` hands the lock to the first in line, as `asyncio.Lock` wakes its first waiter.
Coroutines that find it taken join the line (`ProcJoinsLine`, `ResetJoinsLine`, `MonitorJoinsLine`,
`MainJoinsLine`). The processor holds it across `asyncio.wait` (`AcquireToReap` .. `Reap`) and
`reset_staleness` across `get_queue_size` (`ResetAcquire` .. `ResetAssign`); every other critical section
has no suspension and is one action.

**The processor.** `procPc` follows `_processor_worker`: `top` tests for a pause; `pause` sets `paused`;
the loops around `asyncio.wait` are `drain` (before sleeping), `cap` (too many tasks) and `end` (after the
end signal); `idle` re-tests `paused`, `asleep` is `Condition.wait`; `take` is `pending_queue.get`;
`dispatch` creates the task. A finished task stays in `active` until one of the three loops reaps it, as
`safe_create_task` removes nothing from the set: this is what makes `len(active_tasks)` in
`reset_staleness` an overestimate of what is running.

**Remote calls.** `put_sample` has three steps: the task issues it (`Generated`), the queue executes it
(`PutArrives`), the answer reaches the task (`PutReturned`). `reset_staleness` is called (`UpdateWeights`),
acquires (`ResetAcquire`), queries (`ResetQuery`), assigns (`ResetAssign`) and returns (`ResetReturns`).
`get_statistics_sync` is a blocking `ray.get` inside one action. Remote calls are neither lost nor
duplicated: Ray actor calls are reliable while the actors live.

**Failures.** A sample in `MayFail` may raise in its generation. The exception surfaces where the task is
reaped, ends the processor, and `_streaming_generation_main` cancels the feeder, sends the end signal and
re-raises, while tasks already started go on.

**History variables.** `trained` (samples of completed steps) and `queuedAt` (version served when a sample
was queued) record the past for properties and feed back into no guard.

**Simplifications.** The weight update is one step here; `PartialRollout` and `WeightTransfer` take it
apart. A generation interrupted by it just takes longer. Validation changes no modelled state and is left
out; it only delays. `shutdown`, `put_validate` and `get_validate` have no caller in the pipeline (they
are in `MessageQueue` alone). Timers (the monitor's ten seconds) are nondeterministic delays. The pipeline
starts without a checkpoint; `AsyncResume` starts it from one.

### 2.2 Generation and weight updates

In `PartialRollout` a token is a record of its position in the response and the version that made it.
Request `r` runs `run` and `generate` of its loop: `Start` reads the target length, `Enter` the limit;
`Acquired` is the balancer's answer, `Submit` computes `max_tokens` from what `sampling_params` holds *now*,
`Admit` and `Generate` are the engine, `MergeAndContinue` / `MergeAndReturn` the loop around it. The
dictionary is a variable of the worker (`limit`), because the code lowers it in place. Calls to the
balancer travel in a FIFO for each worker; a release is not waited for. `WeightSync` moves each replica
through `serving -> aborted -> drained -> loading -> loaded -> stamped` at its own pace within a phase
(`asyncio.gather`). `EnginePauses` is vLLM 0.12 and later, where aborting pauses the engine.

`WeightBroadcast` has one action per suspension of sender and receivers; an operation of the executor
thread goes through `meta` (ZeroMQ) and `collective` (NCCL). A buffer is a sequence of tensors, so that
overwriting shows. `WeightTransfer` adds the IPC pair of each receiver: `copies` are the non-blocking
copies the device has not performed; they read their source *when performed*, which is the hazard.

### 2.3 Trajectories and rewards

In `ToolAgentLoop` a token is its origin. The handlers of the states are one action each, the calls of a
turn one record each, moved by `Create`, `Execute`, `Release` independently (`asyncio.gather`).
An answer with a list of images has one placeholder among the tokens (`Placeholders`), while `image_data` counts the
images of the lists, `MinImages` to `MaxImages` each. Whether the model's processor takes images is a constant.
`RateLimitedReward` has an integer clock: `Tick` is enabled when no coroutine is due, since an event loop
that is not overloaded does what is due before the time goes on. `AcquireTokens` is an iteration of
`acquire`, whose critical section has no await. The pool runs both decoding and, if the scorer is no
coroutine, scoring; a timeout cancels a coroutine but not a thread.

### 2.4 Checkpoints

`Checkpoint` writes a rank's shard, registers, rotates, writes `data.pt`, truncates and writes the tracker
in separate steps, and `Restart` may follow each.

In `AsyncResume` a prompt is its position in the data loader's stream. Between the feeder and a training step it is
`Pending` in `pending_queue`, whose own size is all that holds the feeder back; then `outstanding`: in the
processor's hand, being generated or in the MessageQueue; then in the `batch` under collection. The
processor takes prompts in order (`Start`), as long as the throttle admits them, which it exceeds by one at most
(`OverrunByOne` of `FullyAsync`). Outstanding prompts finish in any order, so `Take` takes any of them; a full
MessageQueue displaces one (`Displace`), and a generation may raise (`GenerationFails`, `ProcessorRaises`). Both are
counted in `dropped`, and neither is fed again. The lock, the condition and the tasks in between are in `FullyAsync`.

### 2.5 Self-distillation

`SelfDistillation` follows one step of `fit`: a batch is a pair of column sets, as in `DataProto`, and every
operation on it (`Repeat`, `Union`, `Reorder`) works by position, so that a row that loses its place shows.
An answer is named by its prompt and its copy. `outcome` is a history variable for the properties.
`SdpoActor` has the rank's `update_policy`: weights are names, the teacher is the sequence of students
mixed into the reference module; `mixed` and `targets` are history variables.

## 3. Runs

Constants are named in each `.cfg`; R is `RequiredSamples`, T `TriggerParameterSyncStep`, s the staleness
threshold; the budget is `MaxRequiredSamples` = int(R(1+s)T).

| run | instance | states |
|---|---|---|
| `message_queue` | 2 consumers, queue of 2, 5 samples | 1,836 |
| `pipeline` | 5 samples of which the second may fail, R=1, T=1, s=1, 3 slots | 1,344,817 |
| `pipeline_live` | 9 samples of which the second may fail, R=2, T=2, s=0.25, 1 slot, instance may expire | 107,760 |
| `partial_rollout` | 2 requests on 2 servers, 1 weight update, with and without a limit | 133,800 |
| `weight_transfer` | 2 receivers, weights of sizes 1 1 2 1 2, buckets of 2, late subscriptions | 12,935 |
| `checkpoint` | 2 ranks, actor and critic, 8 batches, save every 2, keep 2, 2 crashes | 133,731 |
| `async_resume` | 4 samples of a data set of 5 of which the third may fail, R=2, T=1, s=0, `pending_queue` of 1, 2 crashes, instance may expire | 146,964 |
| `tool_agent_loop` | response of 7, 3 assistant turns, 2 parallel calls of up to 3, 1 or 2 images an answer, with and without interaction | 38,091 |
| `rate_limited_reward` | 5 requests, 2 processes, 2 limiters, 3 threads, 2 scorers that may hang | 268,371 |
| `self_distillation` | 2 prompts with 2 answers each, 2 workers, 2 scorers that may time out or raise, every configuration | 648,144 |
| `sdpo_actor` | 2 mini-batches, 2 epochs, 3 updates, 1 crash, every setting | 27,838 |
| `saved_when_due` | 3 samples, `save_freq` 1 | violation, section 5 |

**Why the bounds are enough.** Each was chosen for the cases the hazards need, and each property is shown
to be breakable by a bug planted in the code it is about, within the same bounds.

- *Pipeline.* A queue that fills and drops (budget 2, 5 samples), a processor that pauses, drains and is woken
  more than once (several versions), `reset_staleness` at every point of the processor's loop, tasks finished
  but not reaped and orphaned tasks after a failure (3 slots, more than the budget, so that the minimum in
  `set_max_required_samples` counts), a feeder that blocks (`PendingCap` 2). `pipeline_live` adds batches of
  two that the end signal cuts short, two local steps to a version, and a budget that is truncated.
- *Generation.* Two requests share or do not share a server; one update aborts each at any token, and a limit
  of 2 below the response length of 3 leaves room for an abort before, between and after the tokens.
- *Transfer.* Five weights in buckets of two: full, partly full and single-weight buckets, and more buckets than
  buffers, so that both buffers are reused; the sizes make the last bucket full and the one before it not.
- *Checkpoints.* 7 steps saved every second one with two kept: several rotations in a run, one that spans a
  crash, and a last step that is saved off the schedule. Two ranks and two managers give every order of files.
- *Resumption.* Crashes during and after each part of a save, twice, and a data set that is just large enough
  to run out when prompts are lost. A feeder that blocks on a `pending_queue` of 1 while the throttle admits one
  prompt more than the MessageQueue holds, so that it displaces one; a failure that leaves prompts pending,
  outstanding and in a batch. The instance with 5 samples of 7 (3.7 million states) gives the same answers.
- *Trajectory.* A response of 7 is filled exactly, by one too few and by one too many by three turns with up
  to two tool answers; every call may fail at each stage while the other is at any. Lists of one and of two
  images, kept and cut off.
- *Rewards.* A limiter with a burst of 2, one whose requests cost more than it holds (debt), one slot, a timeout
  that expires during waiting threads; the fifth request is in another process.
- *Self-distillation.* Two prompts and two answers are enough for a row to be joined with another prompt's and
  with another answer's data; two workers for chunks that differ.

`CHECK_DEADLOCK FALSE` appears where the program ends: both `fit()` return, the response is there, training is over.
`message_queue` is checked for deadlock.

**Fairness.**

- `FullyAsync`: weak fairness of the feeder, the processor, each sample's task, `reset_staleness`, the monitor,
  main, the Trainer and the driver. An event loop runs every coroutine that is ready; generations, remote
  calls and timers end; the Trainer is one thread. Strong fairness is not needed for the lock because
  waiters are served in order.
- `PartialRollout`: weak fairness of each request's coroutine, of the balancer actor for each worker's calls, and of each phase and
  replica of an update. None of `UpdateWeights`: a trainer need not publish.
- `WeightTransfer`: weak fairness of every process, executor thread and device stream.
- `AsyncResume`: weak fairness of the feeder, of the processor (`Start`, `ProcessorRaises`), of the Trainer (`Fit`) and
  of each part of a save, which the progress of `FullyAsync` justifies. None of `Displace`, `GenerationFails` and `Restart`.
- `RateLimitedReward`: weak fairness of the clock, of each request's coroutine and of each semaphore. A thread
  that hangs is fair to nobody: it is in `Hanging`.

**Condition for progress.** `Termination` holds in instances in which the slack `MaxRequiredSamples - R*T`
is at least the number of concurrent tasks. Without it (for instance s=0 with several slots) TLC finds
behaviours in which a task's `put_sample` answer stays under way during a whole training step and weight
update: the task is counted as active by `reset_staleness` although its sample has been trained on, the
new version starts with its budget already spent, the processor pauses, the monitor sees no reason to
wake it, and the Trainer waits for a sample. That delay is out of proportion in practice, so it is
listed as a hazard (`fully_async_rollouter.py:246`) and not as a finding.

## 4. Properties

*Queue.* `NoLostWakeup`: nobody sleeps in `Condition.wait` with a sample to take or after shutdown.
`OnlyClearUnaccounted`: the statistics balance at each step but `clear_queue`. `ImplementsLog`.

*Pipeline.* `NoSampleTwice`: the places a sample can be in are disjoint. `LossesCounted`: a sample missing
from all of them was counted as dropped. `OverrunByOne`: the throttle may undercount by one sample and no
more, so the budget is exceeded by at most one. `DrainedWhenPaused`: a sleeping processor has nothing
running. `EndSignalLast`, `EndSignalSurvives`: nothing follows the end signal on a normal run, and nothing
that follows it after a failure pushes it out. `QueueWaitBounded`: a sample is taken into a batch within
a bounded number of versions of the one at which it was queued. `PausedWakes`, `Termination`: progress.
`ImplementsFlow`.

*Generation.* `NoneRunsWhileLoading`; `ContinuesItself`: the pieces of an interrupted response continue each other;
`InflightAccounted`: the balancer's counts are the requests that hold a server and the releases under way;
`ImplementsStream`; `EveryRequestReturns`.

*Transfer.* `LoadsInOrder`: each model loads the generator's weights in order with their own content;
`AnnouncedIntact`: an announced bucket stays as it is until answered; `AllReceived`, if all subscriptions are in time.

*Checkpoints.* `TrackedComplete`: whenever the program may crash, the tracker names a complete checkpoint of one
run, with its data position; `DataMatchesWeights`; `KeptPerRun`. *Resumption.* `NoPromptTwice`; `OnlyInFlightLost`: besides
what was displaced or failed, a resumption loses at most `MaxInFlight` prompts, which is 128 + 1 of `pending_queue`,
`max_required_samples` + 1 of the throttle and a batch less one; `VersionCountsSamples`: a version stands for a fixed
number of samples; `TotalReached`: less what the last run dropped, until the passes are over or a generation fails.

*Trajectory.* `OutputAligned`: tokens, mask and log-probs of what `run` returns; `ImagesMatch`: the images
are those of the placeholders in the prompt, and of no turn that was cut off; `InstancesReleased`; `RequestFits`: without an interaction no request exceeds the context.

*Rewards.* `WithinQuota`: what has been started is within what the limiters have given out; `EveryAnswered`.

*Self-distillation.* `DemonstrationFits`, `FeedbackAboutOwnAnswer`, `MaskTellsReprompted`, `AdvantageWithinPrompt`: what a
row's teacher is shown, what is masked and what is compared all belong to the row. `OneTeacherPerUpdate`,
`TeacherFollowsStudent`.

## 5. Findings and divergences

### 5.1 Finding with a run

`saved_when_due`: `_fit_save_checkpoint` (`fully_async_trainer.py:617`) binds `force and version % save_freq == 0`, so
that no periodic checkpoint is saved before the end of the run, against the comment above it.

### 5.2 Divergences without a run of their own

Each was found by TLC with the constants of the run named, changed as stated, when the formula is checked
as an invariant (or, where it has `<>`, as a property). They are the places where a property above is
restricted, and why. Paths are below `src/verl/` unless they begin with `src/`.

| what | where | shown by |
|---|---|---|
| The budget is exceeded by one: `reset_staleness` does not count the sample the processor holds, against the `rollout_num` of the documentation. | `fully_async_rollouter.py:246` | `pipeline`: `Outstanding <= MaxRequiredSamples` |
| After a failed generation the Rollouter's `fit()` never returns: `running` stays true and the monitor goes on. | `fully_async_rollouter.py:576` | `pipeline_live`, sample 1 may fail: `<>FitReturned` |
| An interruption is visible to the agent loop ("making rollout interruption invisible", `fully_async_policy/agent_loop/agent_loop.py:41`): without `max_new_tokens` a resubmitted prompt gets a budget counted from the padded prompt, so that a short prompt's response may exceed `response_length`. | `vllm_async_server.py:538` | `partial_rollout`, `LimitGiven = {FALSE}`: `Len(Merged(r)) <= ResponseLength` |
| Requests of a batch share `sampling_params`, and a continued one lowers `max_new_tokens` in place: two rows are padded to different widths. | `fully_async_policy/agent_loop/agent_loop.py:112` | `partial_rollout`, both requests on one worker: when all are done, `padded` is equal |
| For the same reason a request takes as its limit what another one has left, in validation, where `max_new_tokens` is set: the response may exceed the room after the prompt, or no token may be left to ask the engine for. | `fully_async_policy/agent_loop/agent_loop.py:112` | `partial_rollout`, both requests on one worker: `ImplementsStream` with `InitLimit = 3`; `pc[r] = "running" => allowed[r] > 0` |
| Before vLLM 0.12 an abort does not pause the engine, and a resubmitted request generates on a replica that loads weights. | `vllm_async_server.py:693` | `partial_rollout`, `EnginePauses = FALSE`: `NoneRunsWhileLoading` |
| A subscription that arrives after the first announcement leaves its receiver waiting: connect and subscribe are not answered, and the barrier is on another channel. | `nccl_checkpoint_engine.py:192` | `weight_transfer`: `<>(loadPc[r] = "done")` |
| With `max_ckpt_to_keep=1` the existing checkpoint is removed before the new one is complete ("we keep the existing checkpoint until the new save completes", `checkpoint_manager.py:148`). | `checkpoint_manager.py:171` | `checkpoint`, `MaxKeep = 1`: `TrackedComplete` |
| `previous_saved_paths` is not rebuilt after a restart: the checkpoints of earlier runs stay. | `checkpoint_manager.py:170` | `checkpoint`: `KeptPerRun` with the folders of all runs counted |
| The tracker is truncated before it is written ("for atomic usage", `ray_trainer.py:1602`): a crash in between makes the run impossible to resume. | `ray_trainer.py:1615` | `checkpoint`: `pc # "failed"` |
| A run restarted from the checkpoint of its last step trains one step more than `total_training_steps`. | `ray_trainer.py:1969` | `checkpoint`: `batches <= TotalSteps` |
| A sample that a full queue displaces is not fed again: without any crash a run may end more than a batch below `total_rollout_steps`, with passes of the data left. | `fully_async_rollouter.py:419` | `async_resume`, `MaxCrashes = 0`, `MayFail = {}`: `TotalReached` without `dropped` |
| A generation that raises ends the stream, and the Trainer ends as after a finished run, below the total. | `fully_async_rollouter.py:573` | `async_resume`, `MaxCrashes = 0`: `TotalReached` without its last disjunct |
| A resumption loses what is in `pending_queue`, too, which `max_required_samples` does not bound. | `fully_async_rollouter.py:175` | `async_resume`, 7 samples of 8, `MaxCrashes = 1`: `OnlyInFlightLost` without `PendingCap + 1` in `MaxInFlight` |
| A checkpoint forced by the instance's expiration within a version is resumed as if the version had just begun: its local steps are trained again with further samples, beyond the total. | `fully_async_trainer.py:730` | `async_resume`, R=1, T=2, total 4: `Cardinality(trained) <= TotalRolloutSteps`; also `VersionCountsSamples` with T=2 |
| A tool's answer may hold a list of images ("{'image': [img1, img2, ...]}", `tools/schemas.py:108`), but its message has one placeholder: the processor is given more images than places. | `tool_agent_loop.py:309` | `tool_agent_loop`: as many images as `"image"` tokens (it holds with `MaxImages = 1`) |
| The user's turn of an interaction is appended without the test that a tool's answer gets: the next request may exceed the model's context, and the exception ends the batch. | `tool_agent_loop.py:409` | `tool_agent_loop`: `state = "generating" => Fits` |
| A synchronous scorer outlives its timeout: the semaphore is released while the thread goes on ("Limits the number of simultaneous API requests", `limited.py:182`). | `limited.py:387` | `rate_limited_reward`: `sync => Cardinality(Threads(w)) <= MaxConcurrent` |
| The limits are of a process, and there are several ("global class-level resources", `limited.py:195`). | `limited.py:306` | `rate_limited_reward`: at most `MaxConcurrent` requests over all workers are in `"score"` |
| The bucket starts full and is refilled at `max_rpm` a minute: up to twice as many requests start within one minute. | `limited.py:423` | `rate_limited_reward`, only the first limiter, `MaxConcurrent = 5`: at most 2 starts in any 2 ticks |
| Scorers in threads that hang occupy the executor on which responses are decoded, outside the timeout. | `limited.py:415` | `rate_limited_reward`, requests 1 and 2, 1 thread, 1 hangs, arrivals up to 12, time up to 30: `pc[2] = "decode" ~> pc[2] # "decode"` |
| A batch that mixes scorers with different keys fails the step, although the scorer is selected per row. | `experimental/agent_loop/agent_loop.py:854` | `self_distillation`, `Timeouts = FALSE`, `Raises = FALSE`: `pc # "failed"` |
| A row whose scorer times out or raises has other keys than its siblings: the step fails instead of a reward of 0.0. | `experimental/agent_loop/agent_loop.py:856` | `self_distillation`, `Modules = {"llm"}` and one of `Timeouts`, `Raises`: `pc # "failed"` |
| The EMA teacher is in no checkpoint: a resumed training begins with the initial policy as its teacher. | `fsdp_workers.py:1022` | `sdpo_actor`: EMA with a positive rate has `teacher = mixed` |
| With a gradient scaler, a gradient that is not finite leaves it unscaled; the next mini-batch's `unscale_` raises ("if grad_norm is not finite, skip the update", `dp_actor.py:566`). | `dp_actor.py:570` | `sdpo_actor`: `phase # "raised"` |

## 6. Theorems

`Channels_proofs` proves of the message queue, for every set of consumers and every positive `MaxQueueSize`:
`TypeCorrect`, `QueueHoldsNewest`, `WakeupsKept`, `Accounting` and `Refinement` (`Spec => Log!Spec`). The
argument: `TypeOK` and `HoldsNewest` are inductive (the latter relative to the former); `PutQueue` states once what
`put_sample` does to the sequence, element by element; the refinement uses `HoldsNewest` because the
abstract log drops a position exactly when the window *equals* its capacity, while the code tests `>=`.
Assumption: `MaxQueueSizeAssumption`.

Of the weight transfer it proves, for every set of receivers, every list of weights with sizes that fit a
bucket, and subscriptions early or late: `TransferTypeCorrect`, `ModelLoadsInOrder` (`[]LoadsInOrder`),
`AnnouncedBucketIntact` (`[]AnnouncedIntact`) and `DoneMeansComplete`: a loader that is done has loaded all weights.
None of them is inductive. `TransferInv` says of every weight where it is, and of every piece of memory
what is in it:

1. `PackInv`: the weights packed so far are consecutive (`Run`); the sender's buffer holds those of its list, and
   the buffer that is being broadcast is the other one. That is what waiting for the last broadcast before
   a swap is for.
2. `SyncInv`: a receiver has taken part in every broadcast or in all but the last, and at most its metadata is on the
   way. This makes two buffers enough: what a receiver yields is in the buffer that the next
   broadcast does not write (`BufferInv`).
3. `LinkInv`: the two ends of the IPC socket are in lockstep; a bucket is announced and not yet answered, or free.
4. `CountInv`: a weight is loaded, cloned, in the shared bucket, yielded, or received after that, and in one of these
   only: the lengths of the lists add up to what has been sent. `LoadInv` adds that what was loaded or cloned is what its name says.
5. `CopyInv`: a device copy that is still owed reads a tensor of the buffer that is not written, and every place of
   the shared bucket has its tensor or such a copy. `synchronize` before the announcement leaves none
   owed, and that is `AnnouncedIntact`.

`NoDeadlock` (`[]NeverStuck`) needs no `ENABLED`: `SenderMoves`, `OperationMoves(r)`, `LinkMoves(r)` and `LoaderMoves(r)` are
the guards written out, which TLC found equal to `ENABLED` of the actions on the instance of
`weight_transfer`. In every state that is not over on all sides one of them holds, if every subscription
came before the first announcement (`~SlowJoin`; otherwise see 5.2). `WaitInv` closes the circle of who waits for
whom: rank 0 waits only for a receiver that is behind (`SenderStops`), one that is behind has
been sent the metadata and has not taken part yet (`HeardInv`), one that is not behind waits for more only
if there is more (`NextInv`), and a link waits for neither side of itself (`LinkStops`). With
`DoneMeansComplete`: where a transfer stops, every model has all weights.

Assumption: `TransferAssumption`.

`FullyAsync_proofs` proves, for every number of samples, batch size, staleness threshold, number of task
slots and set of failing generations: `PipelineTypeCorrect` (`[]TypeOK`), `PausedIsDrained`
(`[]DrainedWhenPaused`), `StalenessIsCounted` (`[]StalenessCounted`), `BudgetOverrunByOne`
(`[]OverrunByOne`), `HandedOnOnce` (`[]NoSampleTwice`), `NothingBehindEndSignal` (`[]EndSignalLast`),
`PipelineImplementsFlow` (`Spec => Flow!Spec`), `EndSignalReachesTrainer` (`[]EndSignalSurvives`),
`EveryLossCounted` (`[]LossesCounted`) and `FreshInQueue` (`[]QueueWaitBounded`): all safety properties that the
passing runs check of the pipeline; and, beyond the runs, `NoCircularWait` and `PipelineKeepsMoving`: it never comes
to a standstill. None but the first is inductive by itself. The argument has layers, each an inductive invariant
relative to the ones before it:

1. `TypeInv`: types; a batch is full only while it is trained on; what the processor is about to dispatch
   is a sample, not the end signal.
2. `HandInv`: the processor holds a sample only between `pending_queue.get` and the creation of its task;
   every task that has not ended is in `active_tasks`; a processor that waits to be woken has emptied
   `active_tasks`. The second part is why `len(active_tasks)` in `reset_staleness` never misses a task.
3. `CountInv`: `StalenessCounted` and `OverrunByOne` hold because (a) a processor that passed the pause test
   leaves room for one more sample (`procPc = "take"`), (b) from `ResetAcquire` to `ResetAssign` the call holds
   the lock, so that no task is created meanwhile, and (c) the sum that `reset_staleness` builds covers the
   tasks that are running (after the first read) and these with the queue (after the second). A task that
   puts its sample between the two reads is counted twice, never missed; what is missed is the sample the
   processor took before the recount, which is the one in the bound.
4. `FlowInv` and `EndInv`: `StageInv(s)` orders the places of a sample by the state of its task: not fed, pending or
   in hand (no task), in a task, then in the queue, the batch or trained on, each excluding the others. The end
   signal is in a queue only after its sender's last step, and it is the last entry; a processor that has
   taken it finds `pending_queue` empty, and one that is done has no task.
5. `TrainInv`: a batch is complete when it is trained on, and the size of `trained` is given by the version and
   the local step. With layers 3 and 4 every step is a step of `SampleFlow` or a stutter: `Start` when the
   processor takes a sample (the budget is layer 3's `procPc = "take"`), `Take` and `TrainBatch` (the version is a
   quotient, `VersionOf`), and `Lose` whenever the outstanding samples only become fewer.
6. `SlotInv`, `SignalInv`, `LossInv`: a failed task leaves at least one slot of `active_tasks` without a sample to
   put, so that the samples behind the end signal and those still to be put are together fewer than the
   places of the queue; therefore the signal is never the oldest entry of a full queue when a task puts, what is
   displaced is a sample, and `dropped_samples` counts exactly the samples that are nowhere.
7. `ServedInv`, `WaitInv`: the servers have the trainer's version except between its update and the transfer, where
   the batch is empty; so what was taken when a sample was put is bounded by the version it is stamped with
   (`ServedBound`), its place in the queue bounds what is taken until it is its turn, and `VersionsApart` turns
   samples into versions.
8. `MoveInv`: who has the lock or is in line for it is about to use it (`LockInv`), the event loop belongs to a
   coroutine that has not suspended (`LoopInv`), a processor sleeps only while `paused`, and the feeder has
   put the end signal before it is done (`ProcInv`), the Trainer waits only for a call it has made and for
   samples only while there are none (`CallInv`). `SomeoneMoves` is the disjunction of the guards of all actions, written
   out; of the monitor, which goes round for ever, only the steps that help somebody count. `NoCircularWait`: always
   `SomeoneMoves`, or `Over` (both `fit()` have returned, or the Rollouter's raised), or `Starved`: the Trainer waits, the
   queue is empty, nothing runs, and the processor sleeps because of the count that `reset_staleness` left. So the lock,
   the event loop, the condition variables and the two calls cannot block each other, and the only standstill
   is one of counting.
9. `RecountInv`: `reset_staleness` exceeds what is outstanding or taken for this version (`Available`) by at most the task
   slots, unless the Trainer will be `Supplied` anyway: a version's samples are there, the data is at its end or a
   generation failed. `PipelineKeepsMoving`: where `max_required_samples` has room for the samples of a version beside the
   task slots (`RecountRoom`), `Starved` is impossible. This is the room of the instance of `pipeline_live`, where
   TLC checks `Termination`; without it TLC finds `Starved` reached, when the answer to `put_sample` is slower than a
   training step and `len(active_tasks)` counts a task that has ended.

`MaxRequiredType` derives from the configuration that the truncated budget is positive; the lemmas on
cardinalities and on what a put or a take does to the set of queued samples are stated once. Assumptions:
`ConfigAssumption` and `FreqAssumption` only, no lower bound on the slack (but `RecountRoom` for `PipelineKeepsMoving`) and
no assumption about failures. TLC checked the first three layers as invariants of the instance of `pipeline`, and the last
two on three instances of five to nine samples, before they were proved; there the guards were also found equal to
`ENABLED` of the actions.

`Distillation_proofs` proves of a self-distillation step, for every number of prompts, answers and workers, every
set of scorers and every setting: `DistillationTypeCorrect` (`[]TypeOK`), `DemonstrationAnswersPrompt`
(`[]DemonstrationFits`), `FeedbackBelongsToAnswer` (`[]FeedbackAboutOwnAnswer`), `MaskAgrees`
(`[]MaskTellsReprompted`) and `AdvantageOfPrompt` (`[]AdvantageWithinPrompt`). They rest on `StepInv`, whose core is
`Fitting`: in every column that the teacher or the advantage reads, a row has what belongs to the answer in it, no
answer is in two rows and none is missing. The union of the repeated prompts with the agent loops' columns
establishes it (`MergedFits`: row `i` is for prompt `(i - 1) \div n + 1` on both sides), and every permutation keeps it
(`ReorderedFits`). The advantage needs a sum over a group of rows to be the sum over the answers in them
(`SumRenamed`); so the fold of the community modules is shown to be a sum that does not depend
on the order in which the elements are taken. Its recursion is on sets: instead of induction, the
lemmas take a smallest set for which they would fail (`SmallestSubset`, from the well-foundedness of the
subsets of a finite set, which the library states without an operator parameter).

Of the failures of a step it proves `FailureNeedsMixedKeys` (`[]FailsOnMixedKeys`): the two places that join the results by
the keys of the first row, `_postprocess` of a chunk and `generate_sequences` over the chunks, fail only if
two answers of the batch have results with different keys, and `OneScorerNeverFails`
(`[]NeverFails`): not when all scorers return the same keys and none times out or raises. `ChunkRows` says that the
chunks together are the rows of the batch. Assumptions: `SizesAssumption`, `ConfigsAssumption`.

Of the actor it proves, for every number of mini-batches, epochs, updates and crashes: `ActorTypeCorrect`,
`OneTeacher` (`[]OneTeacherPerUpdate`), `TeacherFollows` (`[]TeacherFollowsStudent`) and `ZeroRateFreezes`. `TypeInv` adds to
`TypeOK` a bound on the student by the mini-batches done (`StudentBounded`), which is what keeps its type inductive.
`OneTeacherPerUpdate` follows from `ScoredByTeacher`: while an update trains, every target is what the present
teacher gives, and afterwards the targets stay as they were when the teacher moves on. `TeacherFollowsStudent` is inductive: an
append to the history of students is an append to its rest (`RestAppended`), and a restart leaves both
empty. Assumption: `ActorAssumption`.

`AsyncResume_proofs` proves, for every batch size, data set, pipeline, number of passes, save frequency and number
of crashes: `ResumeTypeCorrect` (`[]TypeOK`), `PromptsOnce` (`[]NoPromptTwice`), `LossesBounded` (`[]OnlyInFlightLost`)
and, for `trigger_parameter_sync_step = 1`, `VersionsCount` (`[]VersionCountsSamples`; with more local steps a
version it does not hold, see 5.2). `ResumeInv` is the invariant they rest on, with a layer for the pipeline:
`PipeInv` bounds what is pending by `pending_queue` and the feeder's hand, what is outstanding by the throttle and the
processor's hand, and a batch under collection by `required_samples`; hence at most `MaxInFlight` prompts are in flight. The others:

1. `BoundInv`: the version and the local steps count, in samples, no more than the feeder has counted
   (`StepsTaken`); a restart recomputes the feeder's count from the version, which adds at most one prompt
   that is not fed yet. Hence a version names a folder. What is being saved is never what the tracker names.
2. `SavedInv`: the weights are written before the position of the data loader, and the Rollouter only moves
   forward, so that a folder's position covers what its weights have seen. This order of the two calls in
   `_save_checkpoint` is what `NoPromptTwice` needs: `trained` stays within `1 .. position` over a restart.
3. `LossInv`: `Missing` bounds what a folder would lose if it were resumed from: what was in flight when
   its position was saved, and what was lost or dropped before. Training between the two saves only moves samples out of flight
   in the live state, and the Trainer does not train while it saves.
4. `CountInv`: the folder of the tracker has exactly the samples of its version.

Assumption: `ResumeAssumption`. TLC checked every layer as an invariant of the instance of `async_resume` first.

`RateLimitedReward_proofs` proves `QuotaKept` (`[]WithinQuota`) for every number of requests, workers and limiters, and
costs below or above `max_tokens`. A bucket may be overdrawn, and a request that overdraws it sleeps, so that the
quota is not a bound on the bucket alone. `BucketInv`: tokens left and tokens given out are covered by the
refills up to `last_update`. `ReadyInv`, which generalises the quota from now to every time `t`: the requests of a
limiter whose sleep is over by `t` cost no more than `max_tokens + rate_limit * t`. It is inductive because a
request that takes its tokens at `now` and sleeps until `t` leaves at least `-(t - now) * rate_limit` in the bucket
(`AcquireGives`, on the operators of `AsyncTokenBucket`), and later sleeps only move a request further away.
`PastInv`: who waits for the semaphore has passed every limiter, however the queue is served.
`RewardTypeCorrect` (`[]TypeOK`) and `CallsAreBounded` (`[]CallsBounded`) rest on `WorkerInv`: the line of a
semaphore is the requests of its worker that wait for it, each once (`LineInv`); a score under way belongs to a request
that holds the semaphore, unless the scorer is a function, whose thread outlives the timeout
(`CallsInv`); permits left and holders add up to `max_concurrent`, and the threads of the pool are as many as its size at
most (`SlotsInv`). So the semaphore bounds the calls of a coroutine only; those of a function are bounded by
the pool alone, see 5.2. Assumptions: `RewardAssumption`, `LimitersAssumption`.

`PartialRollout_proofs` proves, where aborting pauses the engine (`EnginePauses = TRUE`; before vLLM 0.12 it does not, see
5.2), for every number of requests, workers, servers and updates, all lengths and both settings of
`partial_rollout`: `LoadsUndisturbed` (`[]NoneRunsWhileLoading`), `Continues` (`[]ContinuesItself`), `Accounted`
(`[]InflightAccounted`) and `Refinement` (`Spec => Stream!Spec`). They rest on `RolloutInv`, whose parts need each other:

1. `SyncInv`: in each phase of `update_weights` the stages the replicas can be in, and from them which engines are
   paused, which version a replica has loaded and which one it is stamped with. Hence all replicas that serve
   produce the same version (`Current`), and it changes only while none serves (`CurrentGrows`).
2. `CallInv`: a request has asked the balancer at most once, and waits for the answer.
3. `LimitInv`: whether `sampling_params` holds a limit is the same for all requests for good, and a limit never grows.
4. `RequestInv`: a request runs only on a replica that serves; what it may still generate fits the budget
   (`RoomInv`); the positions of merged tokens and of the chunk under way (`PositionInv`); all tokens of a chunk come
   from one version, the one the answer is stamped with, which no earlier token exceeds (`SpanInv`).

`Accounted` adds `AccountInv`: a request has a server exactly from the answer of `acquire` to the merge of its
answer. The places of releases in the workers' calls are counted by a bijection when the first call is taken
and the rest move up (`PlaceTaken`). It follows that a release never finds a count of 0.

In the refinement a generated token is `Grow`, the return of a request `Close`, the call of `update_weights` `Publish`,
and everything else a stutter: aborts, drains, merges, the balancer. Assumptions: `LengthsAssumption`,
`BalancerAssumption`, `SyncAssumption` and `LimitFits`: twice the initial limit fits the room after the prompt
(+ 1), or no limit is given. The last one is needed because the requests of a worker share `sampling_params`: a request
takes as its limit what another one has left there, which need not be what remains of its own.

`ToolAgentLoop_proofs` proves, for all lengths, limits, numbers of turns, calls, images and weight updates:
`TrajectoryTypeCorrect` (`[]TypeOK`), `Released` (`[]InstancesReleased`), `ImagesStay` (`[]ImagesMatch`), `TurnsFit`
(`[]RequestFits`) and `Aligned` (`[]OutputAligned`). The handlers append to `prompt_ids`, `response_mask` and
`response_logprobs` one by one, and the output is cut from the tail of the first by the length of the second. So the
invariant is about tails: `TailInv` says that mask and log-probs stand beside the last `Len(response_mask)` tokens and
that only the prompt comes before. It also says that the mask is not empty once the policy has answered; without that
`prompt_ids[-0:]` would return the whole sequence as the response. `InstanceInv`: an instance belongs to a call
between its create and its release. `FitInv`: the room left in each state. `ImageInv` counts the
placeholders of the sequence: those of what is put behind are disjoint from those before (`ImagesBehind`), and the
images of a turn's lists come on top of those before (`MoreLists`).
`TurnsEnd` (`[]TurnsBounded`) bounds the turns of a trajectory, which no counter of the code does when
both limits are 0: every turn of the other side adds to the mask, and after one that does not end the trajectory the mask
has room (`TurnInv`). Assumption: `ToolAgentAssumption`.

`Checkpoint_proofs` proves, for every number of ranks, worker groups, steps and crashes: `CheckpointTypeCorrect`
(`[]TypeOK`), `Resumed` (`[]DataMatchesWeights`), `KeptBound` (`[]KeptPerRun`) and, unless `MaxKeep = 1`, `Tracked`
(`[]TrackedComplete`); with `MaxKeep = 1` the last one does not hold, see 5.2. The layers of `CheckpointInv`:

1. `StepInv`: loop, data loader and weights go step by step, and the tracker is behind while a save is under way.
2. `ContentInv` and `DataInv`: what is in the folder of a step was trained up to that step, and `data.pt` is there before
   the tracker names it. With the first they give `Resumed` over any number of crashes: a restart reads both.
3. `ListInv`: the steps a manager remembers increase; the last is what the tracker names, until the manager has saved
   the present step, and then the last but one is. `DiskInv`: what a run wrote it remembers, and a manager that has saved has
   written the files of all ranks.
4. `TrackInv`, for `MaxKeep # 1`: the checkpoint of the tracker was written by one run, all of it. It stays because
   both rotations leave at least the last step a manager remembers (`TrackedStays`).

`StartsUnlessTorn` (`[]FailsWhenTorn`) follows from the last layer: a start finds no checkpoint to load only if the crash
came between opening the tracker's file and writing it, the divergence of 5.2; no other crash stops a run for good.

Assumption: `CheckpointAssumption`; the managers are distinct.

Only model-checked: liveness (`PausedWakes`, `Termination`, `EveryRequestReturns`, `AllReceived`,
`TotalReached`, `EveryAnswered`; out of the prover's reach); every invariant and every action property of the passing runs is proved.

## 7. Not modelled

- *Numerical code*: losses, advantages other than the group-relative one, kernels, models, sharding, offloading,
  sequence parallelism (`trainer/ppo/core_algos.py`, `utils/kernel`, `models`, most of `workers`). It has no
  state that a model checker could explore; what could be wrong is arithmetic on tensors. This is the
  bulk of the repository's lines, together with the vision-language-action experiment, recipes, examples,
  dataset preparation and scripts, so the share of all lines that the modules stand for is small, while
  it is large in the files of section 1.
- *Other engines*: SGLang and TensorRT servers, HCCL, NIXL, Kimi and Mooncake transfers, the Megatron
  checkpoint manager with asynchronous saves. They follow the protocols modelled here with other libraries;
  modelling them would mean modelling these libraries.
- *Start-up and shutdown of processes*, Ray placement groups, HTTP routers of reward models: I/O.
- *Tool parsers, chat templates, tokenizers*: data; a token's origin is what the properties tell apart.
- *Exceptions in clean-up*: `tool.release` that raises (`tool_agent_loop.py:447`), which would end the trajectory while other
  calls of its turn go on; `server.generate` that raises in the interruptible loop, after which the `finally` clause
  releases the server as it does after an answer.
- *Images of the prompt*: `image_data` counts those of the tools only. For the parser `gpt-oss` the text of the
  answers is formatted by hand, without placeholders.
- *Validation*: it changes no state of the modelled parts.
- *A component that dies* in the asynchronous pipeline (`ray.cancel` in the driver): the driver re-raises and
  the job ends; a crash of the whole job is in `AsyncResume`.
- *Liveness* is beyond the prover and is checked only. *Induction over data* is, too: the library's induction theorems
  take an operator as a parameter. Section 6 replaces it where it is needed by a smallest counterexample.

## 8. Plan

Done: everything in section 2, checked as in section 3, and the theorems of section 6. What is left, the
most important first:

1. The restart of the asynchronous pipeline in full (`FullyAsync` with crashes) in place of the abstraction of
   `AsyncResume`.
2. What remains of liveness without `ENABLED`: for each component, that in every state some process that is
   not done passes its guard, as an invariant on the guards. Done for the weight transfer (`NoDeadlock`) and the pipeline
   (`NoCircularWait`, `PipelineKeepsMoving`); next is the rate-limited reward manager.
