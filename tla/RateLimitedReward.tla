-------------------------- MODULE RateLimitedReward --------------------------
(***************************************************************************)
(* RateLimitedRewardManager.run_single (reward_manager/limited.py) in the  *)
(* processes of the RewardLoopWorkers: the limiters for requests and for   *)
(* tokens, the semaphore, the score with its timeout, and the default      *)
(* thread pool of the event loop, which decodes responses and runs scores  *)
(* that are not coroutines.  The limiters, the semaphore and the pool are  *)
(* those of a process.                                                     *)
(***************************************************************************)
EXTENDS AsyncTokenBucket, Sequences, FiniteSets

CONSTANTS
  Requests, Workers,
  WorkerOf,         \* the RewardLoopWorker that a request is sent to
  Limiters,         \* those configured, in order: [limit, cost] for max_rpm and max_tpm
  MaxConcurrent,    \* max_concurrent
  Timeout,          \* timeout
  SyncScores,       \* whether compute_score is no coroutine function: a set of choices
  PoolThreads,      \* threads of the default executor
  Hanging,          \* requests whose score never returns by itself
  LastArrival, MaxTime \* bounds of the model: of the time a request comes, and of time

ASSUME RewardAssumption ==
  /\ IsFiniteSet(Requests) /\ WorkerOf \in [Requests -> Workers]
  /\ {MaxConcurrent, Timeout, PoolThreads} \subseteq Nat \ {0}
  /\ SyncScores \subseteq BOOLEAN /\ Hanging \subseteq Requests
  /\ LastArrival \in Nat /\ MaxTime \in Nat
\* init_class builds a limiter from a positive rate; tokens are whole here (AsyncTokenBucket).
ASSUME LimitersAssumption ==
  Limiters \in Seq([limit : [rate_limit : Nat \ {0}, max_tokens : Nat], cost : Nat])

VARIABLES
  sync,       \* compute_score is no coroutine function; it never changes
  now,
  buckets,    \* of a worker, one for each of Limiters
  pc,         \* where run_single is
  stage,      \* the limiter it is at
  wake,       \* when its sleep there is over
  waiters,    \* of a worker's semaphore, first come first served
  started,    \* when the score began to count for the timeout
  calls,      \* scores under way: coroutines, or threads of the pool
  result

vars == <<sync, now, buckets, pc, stage, wake, waiters, started, calls, result>>

Pc == {"coming", "decode", "limit", "semaphore", "score", "returned"}
Results == {"none", "score", "timeout"}

RewardInit ==
  /\ sync \in SyncScores /\ now = 0
  /\ buckets = [w \in Workers |-> [i \in DOMAIN Limiters |-> FullBucket(Limiters[i].limit)]]
  /\ pc = [r \in Requests |-> "coming"] /\ stage = [r \in Requests |-> 1]
  /\ wake = [r \in Requests |-> 0] /\ waiters = [w \in Workers |-> <<>>]
  /\ started = [r \in Requests |-> 0] /\ calls = {} /\ result = [r \in Requests |-> "none"]
-----------------------------------------------------------------------------
Threads(w) == IF sync THEN {r \in calls : WorkerOf[r] = w} ELSE {}
Holders(w) == {r \in Requests : WorkerOf[r] = w /\ pc[r] = "score"}
PoolHasRoom(w) == Cardinality(Threads(w)) < PoolThreads

\* A response is finished: RewardLoopWorker.compute_score.
Arrive(r) ==
  /\ pc[r] = "coming" /\ pc' = [pc EXCEPT ![r] = "decode"]
  /\ UNCHANGED <<sync, now, buckets, stage, wake, waiters, started, calls, result>>

\* tokenizer.decode, in the pool.
Decode(r) ==
  /\ pc[r] = "decode" /\ PoolHasRoom(WorkerOf[r])
  /\ pc' = [pc EXCEPT ![r] = "limit"]
  /\ UNCHANGED <<sync, now, buckets, stage, wake, waiters, started, calls, result>>

\* An iteration of a limiter's acquire.
AcquireTokens(r) ==
  LET w == WorkerOf[r]
      i == stage[r]
      a == Acquire(Limiters[i].limit, buckets[w][i], Limiters[i].cost, now)
  IN /\ pc[r] = "limit" /\ i \in DOMAIN Limiters /\ wake[r] <= now
     /\ buckets' = [buckets EXCEPT ![w][i] = a.bucket]
     /\ wake' = [wake EXCEPT ![r] = now + a.sleep]
     /\ stage' = [stage EXCEPT ![r] = IF a.acquired THEN i + 1 ELSE i]
     /\ UNCHANGED <<sync, now, pc, waiters, started, calls, result>>

\* The semaphore is asked for when all tokens are there.
EnterSemaphore(r) ==
  /\ pc[r] = "limit" /\ stage[r] > Len(Limiters) /\ wake[r] <= now
  /\ pc' = [pc EXCEPT ![r] = "semaphore"]
  /\ waiters' = [waiters EXCEPT ![WorkerOf[r]] = Append(@, r)]
  /\ UNCHANGED <<sync, now, buckets, stage, wake, started, calls, result>>

SlotFree(w) == Cardinality(Holders(w)) < MaxConcurrent

\* A coroutine begins at once; a function waits for a thread of the pool.
StartScore(w) ==
  /\ waiters[w] # <<>> /\ SlotFree(w)
  /\ LET r == Head(waiters[w])
     IN /\ pc' = [pc EXCEPT ![r] = "score"] /\ started' = [started EXCEPT ![r] = now]
        /\ calls' = IF sync THEN calls ELSE calls \cup {r}
  /\ waiters' = [waiters EXCEPT ![w] = Tail(@)]
  /\ UNCHANGED <<sync, now, buckets, stage, wake, result>>

StartThread(r) ==
  /\ sync /\ pc[r] = "score" /\ r \notin calls /\ PoolHasRoom(WorkerOf[r])
  /\ calls' = calls \cup {r}
  /\ UNCHANGED <<sync, now, buckets, pc, stage, wake, waiters, started, result>>

\* The score is there, or it raises; that of a request timed out before is dropped.
ScoreReturns(r) ==
  /\ r \in calls \ Hanging /\ calls' = calls \ {r}
  /\ IF pc[r] = "score"
     THEN pc' = [pc EXCEPT ![r] = "returned"] /\ result' = [result EXCEPT ![r] = "score"]
     ELSE UNCHANGED <<sync, pc, result>>
  /\ UNCHANGED <<sync, now, buckets, stage, wake, waiters, started>>

\* A bug: a score that has begun is waited for.
ExpiredUnstarted(r) == now >= started[r] + Timeout /\ r \notin calls
Expired(r) == now >= started[r] + Timeout

Timed(r) == pc[r] = "score"

\* wait_for: a coroutine is cancelled; a thread cannot be, and runs on.
TimeOut(r) ==
  /\ Timed(r) /\ Expired(r)
  /\ pc' = [pc EXCEPT ![r] = "returned"] /\ result' = [result EXCEPT ![r] = "timeout"]
  /\ calls' = IF sync THEN calls ELSE calls \ {r}
  /\ UNCHANGED <<sync, now, buckets, stage, wake, waiters, started>>

\* The event loop keeps up: time passes when no coroutine is due.
Due(r) ==
  \/ pc[r] = "coming" /\ now >= LastArrival
  \/ pc[r] = "decode" /\ PoolHasRoom(WorkerOf[r])
  \/ pc[r] = "limit" /\ wake[r] <= now
  \/ pc[r] = "semaphore" /\ SlotFree(WorkerOf[r])
  \/ pc[r] = "score" /\ now >= started[r] + Timeout
Tick ==
  /\ now < MaxTime /\ (\A r \in Requests : ~Due(r)) /\ now' = now + 1
  /\ UNCHANGED <<sync, buckets, pc, stage, wake, waiters, started, calls, result>>

Work(r) ==
  \/ Arrive(r) \/ Decode(r) \/ AcquireTokens(r) \/ EnterSemaphore(r) \/ StartThread(r)
  \/ ScoreReturns(r) \/ TimeOut(r)
Next == Tick \/ (\E r \in Requests : Work(r)) \/ \E w \in Workers : StartScore(w)
Spec == RewardInit /\ [][Next]_vars

\* The event loop and the pool run; a score that does not hang may still take any time.
FairSpec ==
  /\ Spec /\ WF_vars(Tick) /\ (\A w \in Workers : WF_vars(StartScore(w)))
  /\ \A r \in Requests : WF_vars(Work(r))
-----------------------------------------------------------------------------
\* The type invariant of the workers.
TypeOK ==
  /\ sync \in BOOLEAN /\ now \in 0 .. MaxTime /\ pc \in [Requests -> Pc] /\ result \in [Requests -> Results]
  /\ \A r \in Requests : stage[r] \in 1 .. Len(Limiters) + 1
  /\ waiters \in [Workers -> Seq({r \in Requests : pc[r] = "semaphore"})]
  /\ calls \subseteq Requests
  /\ \A r \in Requests : pc[r] = "returned" <=> result[r] # "none"
  /\ \A w \in Workers : \A i \in DOMAIN Limiters : buckets[w][i].last_update <= now

\* What a worker has started by any time is within what each of its limiters has given
\* out by then, although the limiters, the semaphore and late wake-ups reorder requests.
Started(w) == {r \in Requests : WorkerOf[r] = w /\ pc[r] \in {"score", "returned"}}
WithinQuota ==
  \A w \in Workers, i \in DOMAIN Limiters :
    Cardinality(Started(w)) * Limiters[i].cost
      <= Limiters[i].limit.max_tokens + Limiters[i].limit.rate_limit * now

\* Every request gets a reward: the score or, after the timeout, 0, as long as scores in
\* threads that hang leave one thread of the pool to the others.
EveryAnswered == <>(\A r \in Requests : pc[r] = "returned")
=============================================================================
