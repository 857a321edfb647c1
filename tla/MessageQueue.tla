---------------------------- MODULE MessageQueue ----------------------------
(***************************************************************************)
(* The MessageQueue actor (message_queue.py) that carries rollout samples  *)
(* from the Rollouter to the Trainer: a bounded queue that drops its       *)
(* OLDEST element when a producer finds it full, and whose consumers wait  *)
(* on a condition variable.                                                *)
(*                                                                         *)
(* Every method body runs under the actor's asyncio lock and suspends only *)
(* in Condition.wait, so a method is one action, except that get_sample is *)
(* cut where it waits.  The operations take the sample as a parameter; in  *)
(* the standalone specification the k-th sample ever put is the number k,  *)
(* so that order, loss and duplication are visible in the queue itself.    *)
(***************************************************************************)
EXTENDS Naturals, Sequences

CONSTANTS
  Consumers,     \* coroutines that call get_sample
  MaxQueueSize,  \* max_queue_size
  MaxProduced,   \* bound of the model: how many samples are ever put
  MaxValidate    \* bound of the model: entries of the validation queue

ASSUME MaxQueueSizeAssumption == MaxQueueSize \in Nat \ {0}
ASSUME BoundsAssumption == MaxProduced \in Nat /\ MaxValidate \in Nat

VARIABLES
  queue,            \* self.queue
  running,          \* self.running
  total_produced,   \* self.total_produced
  total_consumed,   \* self.total_consumed
  dropped_samples,  \* self.dropped_samples
  val_queue,        \* self.val_queue, as the number of its entries
  getter            \* where each consumer's get_sample stands

vars == <<queue, running, total_produced, total_consumed, dropped_samples,
          val_queue, getter>>
counters == <<total_produced, total_consumed, dropped_samples>>

\* "idle": no call in progress; "waiting": in Condition.wait; "notified": woken
\* and about to re-test the loop condition under the lock.
GetterState == {"idle", "waiting", "notified"}

Init ==
  /\ queue = <<>>
  /\ running = TRUE
  /\ total_produced = 0
  /\ total_consumed = 0
  /\ dropped_samples = 0
  /\ val_queue = 0
  /\ getter = [c \in Consumers |-> "idle"]

-----------------------------------------------------------------------------

\* Bugs for TLC to find: the bound tested one too late or one too soon.
FullTooLate == Len(queue) > MaxQueueSize
FullTooSoon == Len(queue) + 1 >= MaxQueueSize

Full == Len(queue) >= MaxQueueSize

\* What put_sample returns: FALSE says that an OLDER sample made room for this
\* one, which is stored all the same.
PutReturns == ~Full

\* A bug: Condition.notify, which wakes one waiter.
NotifyOne ==
  LET waiting == {c \in Consumers : getter[c] = "waiting"}
  IN IF waiting = {} THEN UNCHANGED getter
     ELSE \E c \in waiting : getter' = [getter EXCEPT ![c] = "notified"]

\* Condition.notify_all
NotifyAll ==
  getter' = [c \in Consumers |->
               IF getter[c] = "waiting" THEN "notified" ELSE getter[c]]

\* Bugs: appendleft; a displaced sample is not counted.
PutSampleInFront(s) ==
  /\ queue' = <<s>> \o (IF Full THEN Tail(queue) ELSE queue)
  /\ dropped_samples' = IF Full THEN dropped_samples + 1 ELSE dropped_samples
  /\ total_produced' = total_produced + 1
  /\ NotifyAll
  /\ UNCHANGED <<running, total_consumed, val_queue>>

PutSampleUncounted(s) ==
  /\ queue' = Append(IF Full THEN Tail(queue) ELSE queue, s)
  /\ total_produced' = total_produced + 1
  /\ NotifyAll
  /\ UNCHANGED <<running, total_consumed, dropped_samples, val_queue>>

PutSample(s) ==
  /\ queue' = Append(IF Full THEN Tail(queue) ELSE queue, s)
  /\ dropped_samples' = IF Full THEN dropped_samples + 1 ELSE dropped_samples
  /\ total_produced' = total_produced + 1
  /\ NotifyAll
  /\ UNCHANGED <<running, total_consumed, val_queue>>

\* A bug: the sample is read and stays in the queue.
GetSampleCopy(c) ==
  /\ getter[c] # "waiting"
  /\ queue # <<>>
  /\ total_consumed' = total_consumed + 1
  /\ getter' = [getter EXCEPT ![c] = "idle"]
  /\ UNCHANGED <<queue, running, total_produced, dropped_samples, val_queue>>

\* One evaluation of get_sample's body from the loop condition on: the consumer
\* takes the head, or is told that the queue is closed, or waits.
GetSample(c) ==
  /\ getter[c] # "waiting"
  /\ queue # <<>>
  /\ queue' = Tail(queue)
  /\ total_consumed' = total_consumed + 1
  /\ getter' = [getter EXCEPT ![c] = "idle"]
  /\ UNCHANGED <<running, total_produced, dropped_samples, val_queue>>

GetNone(c) ==
  /\ getter[c] # "waiting"
  /\ queue = <<>> /\ ~running
  /\ getter' = [getter EXCEPT ![c] = "idle"]
  /\ UNCHANGED <<queue, running, counters, val_queue>>

GetWait(c) ==
  /\ getter[c] # "waiting"
  /\ queue = <<>> /\ running
  /\ getter' = [getter EXCEPT ![c] = "waiting"]
  /\ UNCHANGED <<queue, running, counters, val_queue>>

\* get_queue_size and the queue_size entry of get_statistics
QueueSize == Len(queue)

ClearQueue ==
  /\ queue' = <<>>
  /\ UNCHANGED <<running, counters, val_queue, getter>>

Shutdown ==
  /\ running' = FALSE
  /\ NotifyAll
  /\ UNCHANGED <<queue, counters, val_queue>>

PutValidate ==
  /\ val_queue' = val_queue + 1
  /\ UNCHANGED <<queue, running, counters, getter>>

\* get_validate returns None instead of waiting when there is nothing.
GetValidate ==
  /\ val_queue > 0
  /\ val_queue' = val_queue - 1
  /\ UNCHANGED <<queue, running, counters, getter>>

-----------------------------------------------------------------------------

Resume(c) == getter[c] = "notified" /\ (GetSample(c) \/ GetNone(c) \/ GetWait(c))

Next ==
  \/ total_produced < MaxProduced /\ PutSample(total_produced + 1)
  \/ \E c \in Consumers : GetSample(c) \/ GetNone(c) \/ GetWait(c)
  \/ ClearQueue
  \/ Shutdown
  \/ val_queue < MaxValidate /\ PutValidate
  \/ GetValidate

\* asyncio runs a woken coroutine again; nothing obliges anyone to call a method.
Fairness == \A c \in Consumers : WF_vars(Resume(c))

Spec == Init /\ [][Next]_vars /\ Fairness

-----------------------------------------------------------------------------

TypeOK ==
  /\ queue \in Seq(Nat)
  /\ running \in BOOLEAN
  /\ total_produced \in Nat
  /\ total_consumed \in Nat
  /\ dropped_samples \in Nat
  /\ val_queue \in Nat
  /\ getter \in [Consumers -> GetterState]

\* The queue never exceeds max_queue_size and always holds exactly the most
\* recently put samples, in the order of put_sample: what it loses, to a consumer,
\* to an overflow or to clear_queue, it loses from the old end.
HoldsNewest ==
  /\ Len(queue) <= MaxQueueSize
  /\ Len(queue) <= total_produced
  /\ \A i \in 1 .. Len(queue) : queue[i] = (total_produced - Len(queue)) + i

\* No consumer sleeps in Condition.wait while there is a sample to take or after
\* shutdown: the wakeup of put_sample and shutdown cannot be lost.
NoLostWakeup ==
  \A c \in Consumers : getter[c] = "waiting" => queue = <<>> /\ running

\* Only clear_queue makes samples disappear from the statistics; every other
\* method keeps total_produced in balance with consumed, dropped and queued.
OnlyClearUnaccounted ==
  [][ \/ ClearQueue
      \/ total_produced' + (total_consumed + dropped_samples + Len(queue))
           = total_produced + (total_consumed' + dropped_samples' + Len(queue')) ]_vars

\* The queue is the abstract log: positions head+1 .. tail of the stream of samples
\* are held, and every method is an append, a read of the oldest or a discard.
Log == INSTANCE DropOldestLog
         WITH Cap <- MaxQueueSize, MaxTail <- MaxProduced,
              tail <- total_produced, head <- total_produced - Len(queue)
ImplementsLog == Log!Spec
=============================================================================
