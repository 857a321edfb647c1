----------------------- MODULE RateLimitedReward_proofs -----------------------
(***************************************************************************)
(* The quota of a rate-limited reward worker, and the bound on its calls   *)
(* by the semaphore and the pool, for every number of requests, every      *)
(* sequence of limiters and every order in which the event loop, the       *)
(* semaphore and the pool take the requests up.                            *)
(***************************************************************************)
EXTENDS RateLimitedReward, FiniteSetTheorems, SequenceTheorems, TLAPS

Bucket == [tokens : Int, last_update : Nat]
Limit == [rate_limit : Nat \ {0}, max_tokens : Nat]

(***************************************************************************)
(* The inductive invariant                                                 *)
(***************************************************************************)

TypeInv ==
  /\ now \in Nat /\ pc \in [Requests -> Pc]
  /\ stage \in [Requests -> Nat \ {0}] /\ wake \in [Requests -> Int]
  /\ waiters \in [Workers -> Seq(Requests)]
  /\ buckets \in [Workers -> [DOMAIN Limiters -> Bucket]]
  /\ \A w \in Workers, i \in DOMAIN Limiters : buckets[w][i].last_update <= now

\* A request that has asked for the semaphore has passed every limiter and slept.
Past(r) == stage[r] > Len(Limiters) /\ wake[r] <= now
PastInv ==
  /\ \A r \in Requests : pc[r] \in {"semaphore", "score", "returned"} => Past(r)
  /\ \A w \in Workers : \A k \in 1 .. Len(waiters[w]) : Past(waiters[w][k])

\* What a limiter has given out, and to whom it is due by some time.
Taken(w, i) == {r \in Requests : WorkerOf[r] = w /\ stage[r] > i}
Ready(w, i, t) == {r \in Taken(w, i) : wake[r] <= t}
Given(i, t) == Limiters[i].limit.max_tokens + Limiters[i].limit.rate_limit * t

\* Tokens in the bucket and tokens given out come from the refills.
BucketInv ==
  \A w \in Workers, i \in DOMAIN Limiters :
    buckets[w][i].tokens + Cardinality(Taken(w, i)) * Limiters[i].cost
      <= Given(i, buckets[w][i].last_update)

\* The sleep of a request puts it where its tokens are there, those of all before it taken out.
ReadyInv ==
  \A w \in Workers, i \in DOMAIN Limiters, t \in Nat :
    Cardinality(Ready(w, i, t)) * Limiters[i].cost <= Given(i, t)

-----------------------------------------------------------------------------
\* Numbers and sets.

\* A wait in whole ticks is no shorter than what the rate needs.
LEMMA RoundedUp ==
  ASSUME NEW x \in Nat, NEW d \in Nat \ {0}
  PROVE  /\ (x + d - 1) \div d \in Nat
         /\ x <= d * ((x + d - 1) \div d)
<1> DEFINE y == x + d - 1
<1>1. y \in Nat
  OBVIOUS
<1> HIDE DEF y
<1>2. y \div d \in Nat /\ y < d * (y \div d) + d
  BY <1>1
<1>3. d * (y \div d) \in Nat
  BY <1>2
<1>4. y = x + d - 1
  BY DEF y
<1>5. x <= d * (y \div d)
  <2> DEFINE z == d * (y \div d)
  <2>1. z \in Nat /\ y < z + d
    BY <1>2, <1>3
  <2> HIDE DEF z
  <2>2. x <= z
    BY <1>4, <2>1
  <2> QED
    BY <2>2 DEF z
<1> QED
  BY <1>2, <1>5 DEF y

\* Products of natural numbers grow with a factor.
LEMMA Grows ==
  ASSUME NEW a \in Nat, NEW b \in Nat, NEW c \in Nat, a <= b
  PROVE  a * c <= b * c /\ c * a <= c * b /\ a * c \in Nat /\ c * a \in Nat
<1>1. (b - a) * c \in Nat /\ b * c = a * c + (b - a) * c
  OBVIOUS
<1>2. a * c \in Nat /\ c * a = a * c /\ c * b = b * c
  OBVIOUS
<1> QED
  BY <1>1, <1>2

\* A set of requests.
LEMMA SomeRequests ==
  ASSUME NEW S \in SUBSET Requests
  PROVE  IsFiniteSet(S) /\ Cardinality(S) \in Nat
<1>1. IsFiniteSet(S)
  BY RewardAssumption, FS_Subset
<1> QED
  BY <1>1, FS_CardinalityType

\* Fewer requests cost less.
LEMMA FewerCost ==
  ASSUME NEW S \in SUBSET Requests, NEW B \in SUBSET S, NEW c \in Nat
  PROVE  Cardinality(B) * c <= Cardinality(S) * c /\ Cardinality(S) * c \in Nat
<1>1. Cardinality(B) <= Cardinality(S) /\ Cardinality(B) \in Nat /\ Cardinality(S) \in Nat
  BY SomeRequests, FS_Subset
<1> QED
  BY <1>1, Grows

\* What the configuration gives for a limiter.
LEMMA LimiterType ==
  ASSUME NEW i \in DOMAIN Limiters
  PROVE  /\ i \in 1 .. Len(Limiters) /\ Limiters[i].limit \in Limit
         /\ Limiters[i].limit.rate_limit \in Nat \ {0} /\ Limiters[i].limit.max_tokens \in Nat
         /\ Limiters[i].cost \in Nat
<1> DEFINE Each == [limit : Limit, cost : Nat]
<1>1. i \in 1 .. Len(Limiters) /\ Limiters[i] \in Each
  <2>1. Limiters \in Seq(Each)
    BY LimitersAssumption DEF Limit
  <2> HIDE DEF Each
  <2> QED
    BY <2>1
<1>2. Limiters[i].limit \in Limit /\ Limiters[i].cost \in Nat
  BY <1>1
<1> QED
  BY <1>1, <1>2 DEF Limit

\* What a limiter gives by some time is a number.
LEMMA GivenType ==
  ASSUME NEW i \in DOMAIN Limiters, NEW t \in Nat
  PROVE  Given(i, t) \in Nat
<1>1. Limiters[i].limit.rate_limit \in Nat /\ Limiters[i].limit.max_tokens \in Nat
  BY LimiterType
<1>2. Limiters[i].limit.rate_limit * t \in Nat
  BY <1>1
<1> QED
  BY <1>1, <1>2 DEF Given

-----------------------------------------------------------------------------
\* The token bucket.

\* What an iteration of acquire gives, after k tokens have been given out.
Gives(a, limit, n, t, k) ==
  /\ a.bucket \in Bucket /\ a.bucket.last_update = t
  /\ a.sleep \in Nat /\ a.acquired \in BOOLEAN
  /\ ~a.acquired => a.bucket.tokens + k <= limit.max_tokens + limit.rate_limit * t
  /\ a.acquired =>
       /\ a.bucket.tokens + (k + n) <= limit.max_tokens + limit.rate_limit * t
       /\ k + n <= limit.max_tokens + limit.rate_limit * (t + a.sleep)

\* An iteration of acquire: what has been given out is covered by the refills, and a
\* request that has its tokens sleeps until they are there.
LEMMA AcquireGives ==
  ASSUME NEW limit \in Limit, NEW b \in Bucket, NEW n \in Nat, NEW t \in Nat, NEW k \in Nat,
         b.last_update <= t,
         b.tokens + k <= limit.max_tokens + limit.rate_limit * b.last_update,
         NEW a, a = Acquire(limit, b, n, t)
  PROVE  Gives(a, limit, n, t, k)
<1> USE DEF Gives
<1> DEFINE r == Refilled(limit, b, t)
           most == limit.max_tokens
           rate == limit.rate_limit
<1>1. /\ most \in Nat /\ rate \in Nat \ {0} /\ b.tokens \in Int /\ b.last_update \in Nat
  BY DEF Limit, Bucket
<1>2. /\ r.tokens \in Int /\ r.last_update = t /\ r.tokens <= most
      /\ r.tokens + k <= most + rate * t /\ r \in Bucket
  <2> DEFINE u == b.last_update
  <2>1. u \in Nat /\ t - u \in Nat
    BY <1>1
  <2>2. /\ (t - u) * rate \in Nat /\ rate * u \in Nat /\ rate * t \in Nat
        /\ rate * t = rate * u + (t - u) * rate
    <3> HIDE DEF u, rate, most
    <3> QED
      BY <1>1, <2>1
  <2>3. r = [tokens |-> LesserOf(most, b.tokens + (t - u) * rate), last_update |-> t]
    BY DEF Refilled
  <2>4. b.tokens + k <= most + rate * u
    OBVIOUS
  <2> DEFINE x == b.tokens
             p == (t - u) * rate
             q == rate * u
             s == rate * t
             m == LesserOf(most, x + p)
  <2>5. m \in Int /\ m <= most /\ m + k <= most + s
    <3>1. x \in Int /\ p \in Nat /\ q \in Nat /\ s \in Nat /\ s = q + p /\ x + k <= most + q
      BY <1>1, <2>2, <2>4
    <3> HIDE DEF x, p, q, s, most, rate, u
    <3> QED
      BY <1>1, <3>1 DEF LesserOf
  <2> HIDE DEF m
  <2> QED
    BY <2>3, <2>5 DEF m, Bucket
<1>3. ASSUME r.tokens <= n
      PROVE  /\ WaitTime(limit, r, n) \in Nat
             /\ n - r.tokens <= rate * WaitTime(limit, r, n)
  <2> DEFINE x == n - r.tokens
  <2>1. x \in Nat
    BY <1>2, <1>3
  <2>2. WaitTime(limit, r, n) = (x + rate - 1) \div rate
    BY DEF WaitTime
  <2> HIDE DEF x, rate, r
  <2>3. (x + rate - 1) \div rate \in Nat /\ x <= rate * ((x + rate - 1) \div rate)
    BY <1>1, <2>1, RoundedUp
  <2> QED
    BY <2>2, <2>3 DEF x
<1>4. CASE Oversized(limit, n)
  <2>1. a = [bucket |-> Consumed(r, n), sleep |-> WaitTime(limit, r, n), acquired |-> TRUE]
    BY <1>4 DEF Acquire
  <2>2. r.tokens <= n
    BY <1>1, <1>2, <1>4 DEF Oversized
  <2> DEFINE z == WaitTime(limit, r, n)
  <2>3. z \in Nat /\ n - r.tokens <= rate * z
    BY <1>3, <2>2
  <2>4. rate * (t + z) = rate * t + rate * z /\ rate * t \in Nat /\ rate * z \in Nat
    <3> HIDE DEF z, rate
    <3> QED
      BY <1>1, <2>3
  <2>5. k + n <= most + rate * (t + z)
    <3> DEFINE x == r.tokens
               p == rate * t
               q == rate * z
    <3>1. x \in Int /\ x + k <= most + p /\ n - x <= q /\ p \in Nat /\ q \in Nat
      BY <1>2, <2>3, <2>4
    <3>2. k + n <= most + (p + q)
      <4> HIDE DEF x, p, q, most
      <4> QED
        BY <1>1, <3>1
    <3> QED
      BY <2>4, <3>2
  <2>6. /\ Consumed(r, n) \in Bucket /\ Consumed(r, n).tokens = r.tokens - n
        /\ Consumed(r, n).last_update = t
    <3> HIDE DEF r
    <3> QED
      BY <1>2 DEF Consumed, Bucket
  <2>7. (r.tokens - n) + (k + n) <= most + rate * t
    <3> DEFINE x == r.tokens
               s == most + rate * t
    <3>1. x \in Int /\ x + k <= s
      BY <1>2
    <3> HIDE DEF x, s
    <3>2. (x - n) + (k + n) = x + k
      BY <3>1
    <3> QED
      BY <3>1, <3>2 DEF x, s
  <2>8. a.bucket = Consumed(r, n) /\ a.sleep = z /\ a.acquired = TRUE
    BY <2>1
  <2> HIDE DEF r, z, most, rate
  <2> QED
    BY <2>3, <2>5, <2>6, <2>7, <2>8 DEF most, rate
<1>5. CASE ~Oversized(limit, n) /\ r.tokens >= n
  <2>1. a.bucket = Consumed(r, n) /\ a.sleep = 0 /\ a.acquired = TRUE
    BY <1>5 DEF Acquire
  <2>6. /\ Consumed(r, n) \in Bucket /\ Consumed(r, n).tokens = r.tokens - n
        /\ Consumed(r, n).last_update = t
    <3> HIDE DEF r
    <3> QED
      BY <1>2 DEF Consumed, Bucket
  <2>2. /\ (r.tokens - n) + (k + n) <= most + rate * t
        /\ k + n <= most + rate * (t + 0)
    <3> DEFINE x == r.tokens
               s == most + rate * t
    <3>1. x \in Int /\ x + k <= s /\ x >= n /\ s \in Int
      BY <1>1, <1>2, <1>5
    <3>2. t + 0 = t
      OBVIOUS
    <3>3. (x - n) + (k + n) <= s /\ k + n <= s
      <4> HIDE DEF x, s
      <4> QED
        BY <3>1
    <3> QED
      BY <3>2, <3>3
  <2>3. /\ a.bucket.tokens + (k + n) <= most + rate * t
        /\ k + n <= most + rate * (t + a.sleep)
    BY <2>1, <2>2, <2>6
  <2>4. a.sleep \in Nat /\ a.bucket \in Bucket /\ a.bucket.last_update = t
    BY <2>1, <2>6
  <2> HIDE DEF r, most, rate
  <2> QED
    BY <2>1, <2>3, <2>4 DEF most, rate
<1>6. CASE ~Oversized(limit, n) /\ ~(r.tokens >= n)
  <2>1. a.bucket = r /\ a.sleep = WaitTime(limit, r, n) /\ a.acquired = FALSE
    BY <1>6 DEF Acquire
  <2>2. r.tokens <= n
    BY <1>2, <1>6
  <2>3. WaitTime(limit, r, n) \in Nat
    BY <1>3, <2>2
  <2> HIDE DEF r
  <2> QED
    BY <1>2, <2>1, <2>3
<1> QED
  BY <1>4, <1>5, <1>6

-----------------------------------------------------------------------------
\* The invariant holds at first: buckets are full and nobody has passed a limiter.
LEMMA RewardInitial == RewardInit => TypeInv /\ PastInv /\ BucketInv /\ ReadyInv
<1> SUFFICES ASSUME RewardInit PROVE TypeInv /\ PastInv /\ BucketInv /\ ReadyInv
  OBVIOUS
<1>1. TypeInv
  <2>1. \A i \in DOMAIN Limiters : FullBucket(Limiters[i].limit) \in Bucket
    BY LimiterType DEF FullBucket, Bucket
  <2>2. buckets \in [Workers -> [DOMAIN Limiters -> Bucket]]
    BY <2>1 DEF RewardInit
  <2>3. \A w \in Workers, i \in DOMAIN Limiters : buckets[w][i].last_update <= now
    BY DEF RewardInit, FullBucket
  <2>4. waiters \in [Workers -> Seq(Requests)]
    BY DEF RewardInit
  <2> QED
    BY <2>2, <2>3, <2>4 DEF RewardInit, TypeInv, Pc
<1>2. PastInv
  BY DEF RewardInit, PastInv
<1>3. ASSUME NEW w \in Workers, NEW i \in DOMAIN Limiters
      PROVE  Taken(w, i) = {} /\ Cardinality({}) * Limiters[i].cost = 0
  <2>1. i \in Nat /\ i >= 1
    BY LimiterType
  <2>2. Taken(w, i) = {}
    BY <2>1 DEF RewardInit, Taken
  <2> QED
    BY <2>2, LimiterType, FS_EmptySet
<1>4. BucketInv
  <2> SUFFICES ASSUME NEW w \in Workers, NEW i \in DOMAIN Limiters
               PROVE  buckets[w][i].tokens + Cardinality(Taken(w, i)) * Limiters[i].cost
                        <= Given(i, buckets[w][i].last_update)
    BY DEF BucketInv
  <2>1. buckets[w][i].tokens = Limiters[i].limit.max_tokens /\ buckets[w][i].last_update = 0
    BY DEF RewardInit, FullBucket
  <2>2. Cardinality(Taken(w, i)) * Limiters[i].cost = 0
    BY <1>3
  <2> QED
    BY <2>1, <2>2, LimiterType DEF Given
<1>5. ReadyInv
  <2> SUFFICES ASSUME NEW w \in Workers, NEW i \in DOMAIN Limiters, NEW t \in Nat
               PROVE  Cardinality(Ready(w, i, t)) * Limiters[i].cost <= Given(i, t)
    BY DEF ReadyInv
  <2>1. Ready(w, i, t) = {}
    BY <1>3 DEF Ready
  <2>2. Limiters[i].limit.rate_limit * t \in Nat /\ Limiters[i].limit.max_tokens \in Nat
    BY LimiterType
  <2> QED
    BY <1>3, <2>1, <2>2 DEF Given
<1> QED
  BY <1>1, <1>2, <1>4, <1>5

\* What an iteration of acquire does to the limiter a request is at.
LEMMA Acquires ==
  ASSUME TypeInv, BucketInv, NEW r \in Requests, AcquireTokens(r)
  PROVE  LET w == WorkerOf[r]
             i == stage[r]
             a == Acquire(Limiters[i].limit, buckets[w][i], Limiters[i].cost, now)
             k == Cardinality(Taken(w, i)) * Limiters[i].cost
             n == Limiters[i].cost
         IN /\ w \in Workers /\ i \in DOMAIN Limiters /\ k \in Nat
            /\ a.bucket \in Bucket /\ a.bucket.last_update = now
            /\ a.sleep \in Nat /\ a.acquired \in BOOLEAN
            /\ ~a.acquired => a.bucket.tokens + k <= Given(i, now)
            /\ a.acquired =>
                 a.bucket.tokens + (k + n) <= Given(i, now) /\ k + n <= Given(i, now + a.sleep)
<1> DEFINE w == WorkerOf[r]
           i == stage[r]
           a == Acquire(Limiters[i].limit, buckets[w][i], Limiters[i].cost, now)
           k == Cardinality(Taken(w, i)) * Limiters[i].cost
           n == Limiters[i].cost
<1>1. w \in Workers /\ i \in DOMAIN Limiters
  BY RewardAssumption DEF AcquireTokens
<1>2. k \in Nat /\ n \in Nat /\ Limiters[i].limit \in Limit
  <2>1. Taken(w, i) \in SUBSET Requests
    BY DEF Taken
  <2>2. Cardinality(Taken(w, i)) \in Nat
    BY <2>1, SomeRequests
  <2> QED
    BY <1>1, <2>2, LimiterType
<1>3. /\ buckets[w][i] \in Bucket /\ buckets[w][i].last_update <= now /\ now \in Nat
  BY <1>1 DEF TypeInv
<1>4. buckets[w][i].tokens + k
        <= Limiters[i].limit.max_tokens + Limiters[i].limit.rate_limit * buckets[w][i].last_update
  BY <1>1 DEF BucketInv, Given
<1> DEFINE l == Limiters[i].limit
           b == buckets[w][i]
<1>5. /\ a = Acquire(l, b, n, now) /\ l \in Limit /\ b \in Bucket /\ n \in Nat /\ k \in Nat
      /\ now \in Nat /\ b.last_update <= now
      /\ b.tokens + k <= l.max_tokens + l.rate_limit * b.last_update
  BY <1>2, <1>3, <1>4
<1> HIDE DEF w, i, k, n, a, l, b
<1>6. Gives(a, l, n, now, k)
  BY <1>5, AcquireGives
<1>7. \A t : l.max_tokens + l.rate_limit * t = Given(i, t)
  BY DEF Given, l
<1> QED
  BY <1>1, <1>2, <1>6, <1>7 DEF Gives, w, i, k, n, a

\* Every step keeps the types.
LEMMA TypeStep == ASSUME TypeInv, PastInv, BucketInv, [Next]_vars PROVE TypeInv'
<1> USE DEF TypeInv
<1>1. CASE UNCHANGED vars
  BY <1>1 DEF vars
<1>2. CASE Tick
  <2>1. now' = now + 1 /\ UNCHANGED <<buckets, pc, stage, wake, waiters>>
    BY <1>2 DEF Tick
  <2>2. \A w \in Workers, i \in DOMAIN Limiters : buckets'[w][i].last_update <= now'
    <3> SUFFICES ASSUME NEW w \in Workers, NEW i \in DOMAIN Limiters
                 PROVE  buckets[w][i].last_update <= now + 1
      BY <2>1
    <3>1. buckets[w][i] \in Bucket /\ buckets[w][i].last_update <= now
      OBVIOUS
    <3> QED
      BY <3>1 DEF Bucket
  <2> QED
    BY <2>1, <2>2
<1>3. ASSUME NEW r \in Requests, AcquireTokens(r) PROVE TypeInv'
  <2> DEFINE w == WorkerOf[r]
             i == stage[r]
             a == Acquire(Limiters[i].limit, buckets[w][i], Limiters[i].cost, now)
  <2>1. /\ w \in Workers /\ i \in DOMAIN Limiters /\ a.bucket \in Bucket
        /\ a.bucket.last_update = now /\ a.sleep \in Nat
    BY <1>3, Acquires
  <2>2. /\ buckets' = [buckets EXCEPT ![w][i] = a.bucket]
        /\ wake' = [wake EXCEPT ![r] = now + a.sleep]
        /\ stage' = [stage EXCEPT ![r] = IF a.acquired THEN i + 1 ELSE i]
        /\ UNCHANGED <<now, pc, waiters>>
    BY <1>3 DEF AcquireTokens
  <2>3. i \in Nat \ {0}
    OBVIOUS
  <2> HIDE DEF w, i, a
  <2>4. buckets' \in [Workers -> [DOMAIN Limiters -> Bucket]]
    BY <2>1, <2>2
  <2>5. wake' \in [Requests -> Int] /\ stage' \in [Requests -> Nat \ {0}]
    BY <2>1, <2>2, <2>3
  <2>6. \A v \in Workers, j \in DOMAIN Limiters : buckets'[v][j].last_update <= now
    <3> SUFFICES ASSUME NEW v \in Workers, NEW j \in DOMAIN Limiters
                 PROVE  buckets'[v][j].last_update <= now
      OBVIOUS
    <3>1. buckets'[v][j] = IF v = w /\ j = i THEN a.bucket ELSE buckets[v][j]
      BY <2>1, <2>2
    <3> QED
      BY <2>1, <3>1
  <2> QED
    BY <2>2, <2>4, <2>5, <2>6
<1>4. ASSUME NEW r \in Requests, EnterSemaphore(r) PROVE TypeInv'
  <2>1. waiters' \in [Workers -> Seq(Requests)]
    <3>1. waiters' = [waiters EXCEPT ![WorkerOf[r]] = Append(waiters[WorkerOf[r]], r)]
      BY <1>4 DEF EnterSemaphore
    <3>2. WorkerOf[r] \in Workers
      BY RewardAssumption
    <3>3. Append(waiters[WorkerOf[r]], r) \in Seq(Requests)
      BY <3>2
    <3> QED
      BY <3>1, <3>2, <3>3
  <2> QED
    BY <1>4, <2>1 DEF EnterSemaphore, Pc
<1>5. ASSUME NEW w \in Workers, StartScore(w) PROVE TypeInv'
  <2>1. waiters[w] \in Seq(Requests) /\ waiters[w] # <<>>
    BY <1>5 DEF StartScore
  <2>2. Tail(waiters[w]) \in Seq(Requests)
    BY <2>1
  <2> QED
    BY <1>5, <2>2 DEF StartScore, Pc
<1>6. ASSUME NEW r \in Requests,
             Arrive(r) \/ Decode(r) \/ StartThread(r) \/ ScoreReturns(r) \/ TimeOut(r)
      PROVE  TypeInv'
  <2>1. UNCHANGED <<now, buckets, stage, wake, waiters>>
    BY <1>6 DEF Arrive, Decode, StartThread, ScoreReturns, TimeOut
  <2>2. pc' \in [Requests -> Pc]
    <3>1. CASE ScoreReturns(r)
      BY <3>1 DEF ScoreReturns, Pc
    <3>2. CASE Arrive(r) \/ Decode(r) \/ StartThread(r) \/ TimeOut(r)
      BY <3>2 DEF Arrive, Decode, StartThread, TimeOut, Pc
    <3> QED
      BY <1>6, <3>1, <3>2
  <2> QED
    BY <2>1, <2>2
<1> QED
  BY <1>1, <1>2, <1>3, <1>4, <1>5, <1>6 DEF Next, Work

\* Every step: whoever has passed the limiters stays past them.
LEMMA PastStep == ASSUME TypeInv, PastInv, [Next]_vars PROVE PastInv'
<1> DEFINE Len0 == Len(Limiters)
<1>0. Len0 \in Nat /\ DOMAIN Limiters = 1 .. Len0
  <2>1. \E Each : Limiters \in Seq(Each)
    BY LimitersAssumption
  <2> QED
    BY <2>1
<1> HIDE DEF Len0
<1>1. CASE UNCHANGED vars
  BY <1>1 DEF vars, PastInv, Past
<1>2. CASE Tick
  <2>1. now' = now + 1 /\ UNCHANGED <<pc, stage, wake, waiters>>
    BY <1>2 DEF Tick
  <2>2. \A r \in Requests : wake[r] \in Int
    BY DEF TypeInv
  <2>3. \A r \in Requests : Past(r) => Past(r)'
    BY <2>1, <2>2 DEF Past, TypeInv
  <2>4. \A w \in Workers : \A k \in 1 .. Len(waiters[w]) : waiters[w][k] \in Requests
    BY DEF TypeInv
  <2> QED
    BY <2>1, <2>3, <2>4 DEF PastInv
<1>3. ASSUME NEW r \in Requests, AcquireTokens(r) PROVE PastInv'
  <2>1. ~Past(r)
    <3>1. stage[r] \in 1 .. Len0
      BY <1>0, <1>3 DEF AcquireTokens
    <3> QED
      BY <1>0, <3>1 DEF Past, Len0
  <2>2. /\ UNCHANGED <<now, pc, waiters>>
        /\ \A q \in Requests : q # r => stage'[q] = stage[q] /\ wake'[q] = wake[q]
    BY <1>3 DEF AcquireTokens, TypeInv
  <2>3. \A q \in Requests : Past(q) => Past(q)'
    BY <2>1, <2>2 DEF Past
  <2>4. \A w \in Workers : \A k \in 1 .. Len(waiters[w]) : waiters[w][k] \in Requests
    BY DEF TypeInv
  <2> QED
    BY <2>2, <2>3, <2>4 DEF PastInv
<1>4. ASSUME NEW r \in Requests, EnterSemaphore(r) PROVE PastInv'
  <2>1. Past(r) /\ UNCHANGED <<now, stage, wake>>
    BY <1>4 DEF EnterSemaphore, Past
  <2>2. \A q \in Requests : pc'[q] \in {"semaphore", "score", "returned"} => q = r \/ pc'[q] = pc[q]
    BY <1>4 DEF EnterSemaphore, TypeInv
  <2>3. \A w \in Workers : \A k \in 1 .. Len(waiters'[w]) : Past(waiters'[w][k])
    <3> SUFFICES ASSUME NEW w \in Workers, NEW k \in 1 .. Len(waiters'[w])
                 PROVE  Past(waiters'[w][k])
      OBVIOUS
    <3>1. waiters' = [waiters EXCEPT ![WorkerOf[r]] = Append(waiters[WorkerOf[r]], r)]
      BY <1>4 DEF EnterSemaphore
    <3>2. waiters[w] \in Seq(Requests)
      BY DEF TypeInv
    <3>3. CASE w = WorkerOf[r]
      <4>1. waiters'[w] = Append(waiters[w], r)
        BY <3>1, <3>3 DEF TypeInv
      <4>2. \/ k \in 1 .. Len(waiters[w]) /\ waiters'[w][k] = waiters[w][k]
            \/ waiters'[w][k] = r
        BY <3>2, <4>1
      <4> QED
        BY <2>1, <4>2 DEF PastInv
    <3>4. CASE w # WorkerOf[r]
      BY <3>1, <3>4 DEF TypeInv, PastInv
    <3> QED
      BY <3>3, <3>4
  <2> QED
    BY <2>1, <2>2, <2>3 DEF PastInv, Past
<1>5. ASSUME NEW w \in Workers, StartScore(w) PROVE PastInv'
  <2> DEFINE h == Head(waiters[w])
  <2>1. waiters[w] \in Seq(Requests) /\ waiters[w] # <<>>
    BY <1>5 DEF StartScore, TypeInv
  <2>2. h \in Requests /\ Past(h)
    <3>1. h = waiters[w][1] /\ 1 \in 1 .. Len(waiters[w])
      BY <2>1
    <3> QED
      BY <2>1, <3>1 DEF PastInv
  <2>3. UNCHANGED <<now, stage, wake>> /\ pc' = [pc EXCEPT ![h] = "score"]
        /\ waiters' = [waiters EXCEPT ![w] = Tail(waiters[w])]
    BY <1>5 DEF StartScore
  <2>4. \A q \in Requests : q = h \/ pc'[q] = pc[q]
    BY <2>3 DEF TypeInv
  <2>5. \A v \in Workers : \A k \in 1 .. Len(waiters'[v]) : Past(waiters'[v][k])
    <3> SUFFICES ASSUME NEW v \in Workers, NEW k \in 1 .. Len(waiters'[v])
                 PROVE  Past(waiters'[v][k])
      OBVIOUS
    <3>1. CASE v = w
      <4>1. waiters'[w] = Tail(waiters[w])
        BY <2>3 DEF TypeInv
      <4>2. k + 1 \in 1 .. Len(waiters[w]) /\ waiters'[v][k] = waiters[w][k + 1]
        BY <2>1, <3>1, <4>1
      <4> QED
        BY <4>2 DEF PastInv
    <3>2. CASE v # w
      BY <2>3, <3>2 DEF TypeInv, PastInv
    <3> QED
      BY <3>1, <3>2
  <2> QED
    BY <2>2, <2>3, <2>4, <2>5 DEF PastInv, Past
<1>6. ASSUME NEW r \in Requests,
             Arrive(r) \/ Decode(r) \/ StartThread(r) \/ ScoreReturns(r) \/ TimeOut(r)
      PROVE  PastInv'
  <2>1. UNCHANGED <<now, stage, wake, waiters>>
    BY <1>6 DEF Arrive, Decode, StartThread, ScoreReturns, TimeOut
  <2>2. \A q \in Requests : pc'[q] \in {"semaphore", "score", "returned"} =>
                              pc[q] \in {"semaphore", "score", "returned"}
    <3>1. CASE ScoreReturns(r)
      BY <3>1 DEF ScoreReturns, TypeInv
    <3>2. CASE Arrive(r) \/ Decode(r) \/ StartThread(r)
      BY <3>2 DEF Arrive, Decode, StartThread, TypeInv
    <3>3. CASE TimeOut(r)
      BY <3>3 DEF TimeOut, Timed, TypeInv
    <3> QED
      BY <1>6, <3>1, <3>2, <3>3
  <2> QED
    BY <2>1, <2>2 DEF PastInv, Past
<1> QED
  BY <1>1, <1>2, <1>3, <1>4, <1>5, <1>6 DEF Next, Work

\* Who has passed a limiter after an iteration of acquire: the same, and the request if its
\* tokens have been taken.
LEMMA TakenNext ==
  ASSUME TypeInv, BucketInv, NEW r \in Requests, AcquireTokens(r),
         NEW w \in Workers, NEW i \in DOMAIN Limiters
  PROVE  LET a == Acquire(Limiters[stage[r]].limit, buckets[WorkerOf[r]][stage[r]],
                          Limiters[stage[r]].cost, now)
         IN  IF w = WorkerOf[r] /\ i = stage[r] /\ a.acquired
             THEN /\ Taken(w, i)' = Taken(w, i) \cup {r}
                  /\ Cardinality(Taken(w, i)') = Cardinality(Taken(w, i)) + 1
             ELSE Taken(w, i)' = Taken(w, i)
<1> DEFINE j == stage[r]
           a == Acquire(Limiters[j].limit, buckets[WorkerOf[r]][j], Limiters[j].cost, now)
<1>1. stage' = [stage EXCEPT ![r] = IF a.acquired THEN j + 1 ELSE j] /\ j \in Nat /\ i \in Nat
  <2>1. i \in Nat
    BY LimiterType
  <2> QED
    BY <2>1 DEF AcquireTokens, TypeInv
<1> HIDE DEF a
<1>2. \A q \in Requests : q # r => stage'[q] = stage[q]
  BY <1>1 DEF TypeInv
<1>3. stage'[r] = IF a.acquired THEN j + 1 ELSE j
  BY <1>1 DEF TypeInv
<1>4. CASE w = WorkerOf[r] /\ i = j /\ a.acquired
  <2>1. Taken(w, i)' = Taken(w, i) \cup {r} /\ r \notin Taken(w, i)
    BY <1>1, <1>2, <1>3, <1>4 DEF Taken
  <2>2. IsFiniteSet(Taken(w, i))
    BY SomeRequests DEF Taken
  <2>3. Cardinality(Taken(w, i) \cup {r}) = Cardinality(Taken(w, i)) + 1
    BY <2>1, <2>2, FS_AddElement
  <2>4. Cardinality(Taken(w, i)') = Cardinality(Taken(w, i)) + 1
    BY <2>1, <2>3
  <2> QED
    BY <1>4, <2>1, <2>4 DEF a
<1>5. CASE ~(w = WorkerOf[r] /\ i = j /\ a.acquired)
  <2>1. w = WorkerOf[r] => (stage'[r] > i <=> j > i)
    BY <1>1, <1>3, <1>5
  <2>2. Taken(w, i)' = Taken(w, i)
    BY <1>2, <2>1 DEF Taken
  <2> QED
    BY <1>5, <2>2 DEF a
<1> QED
  BY <1>4, <1>5

\* Every step: a bucket loses what its limiter gives out, and gains what time refills.
LEMMA BucketStep ==
  ASSUME TypeInv, BucketInv, [Next]_vars
  PROVE  BucketInv'
<1>1. ASSUME NEW r \in Requests, AcquireTokens(r) PROVE BucketInv'
  <2> SUFFICES ASSUME NEW w \in Workers, NEW i \in DOMAIN Limiters
               PROVE  buckets'[w][i].tokens + Cardinality(Taken(w, i)') * Limiters[i].cost
                        <= Given(i, buckets'[w][i].last_update)
    BY DEF BucketInv, Given
  <2> DEFINE v == WorkerOf[r]
             j == stage[r]
             a == Acquire(Limiters[j].limit, buckets[v][j], Limiters[j].cost, now)
             k == Cardinality(Taken(v, j)) * Limiters[j].cost
             n == Limiters[j].cost
  <2>1. /\ v \in Workers /\ j \in DOMAIN Limiters /\ k \in Nat
        /\ a.bucket.last_update = now /\ a.acquired \in BOOLEAN
        /\ ~a.acquired => a.bucket.tokens + k <= Given(j, now)
        /\ a.acquired => a.bucket.tokens + (k + n) <= Given(j, now)
    BY <1>1, Acquires
  <2>2. buckets' = [buckets EXCEPT ![v][j] = a.bucket]
    BY <1>1 DEF AcquireTokens
  <2>3. IF w = v /\ i = j /\ a.acquired
        THEN Cardinality(Taken(w, i)') = Cardinality(Taken(w, i)) + 1
        ELSE Taken(w, i)' = Taken(w, i)
    BY <1>1, TakenNext
  <2> HIDE DEF v, j, a
  <2>4. CASE w = v /\ i = j
    <3>1. buckets'[w][i] = a.bucket
      BY <2>1, <2>2, <2>4 DEF TypeInv
    <3>2. CASE a.acquired
      <4>1. Cardinality(Taken(w, i)') * n = k + n
        <5>1. Taken(v, j) \in SUBSET Requests
          BY DEF Taken
        <5>2. Cardinality(Taken(v, j)) \in Nat /\ n \in Nat
          <6>1. Cardinality(Taken(v, j)) \in Nat
            BY <5>1, SomeRequests
          <6>2. n \in Nat
            BY <2>1, LimiterType
          <6> QED
            BY <6>1, <6>2
        <5>3. (Cardinality(Taken(v, j)) + 1) * n = Cardinality(Taken(v, j)) * n + n
          <6> DEFINE c == Cardinality(Taken(v, j))
          <6> HIDE DEF c, n
          <6>1. (c + 1) * n = c * n + n
            BY <5>2 DEF c
          <6> QED
            BY <6>1 DEF c
        <5> QED
          BY <2>3, <2>4, <3>2, <5>3
      <4> HIDE DEF k, n
      <4> QED
        BY <2>1, <2>4, <3>1, <3>2, <4>1 DEF n
    <3>3. CASE ~a.acquired
      <4>1. Cardinality(Taken(w, i)') * Limiters[i].cost = k
        BY <2>3, <2>4, <3>3
      <4> QED
        BY <2>1, <2>4, <3>1, <3>3, <4>1
    <3> QED
      BY <3>2, <3>3
  <2>5. CASE ~(w = v /\ i = j)
    <3>1. buckets'[w][i] = buckets[w][i]
      BY <2>1, <2>2, <2>5 DEF TypeInv
    <3> QED
      BY <2>3, <2>5, <3>1 DEF BucketInv
  <2> QED
    BY <2>4, <2>5
<1>2. CASE UNCHANGED <<buckets, stage>>
  BY <1>2 DEF BucketInv, Taken, Given
<1>3. (\E r \in Requests : AcquireTokens(r)) \/ UNCHANGED <<buckets, stage>>
  <2>1. CASE Next
    BY <2>1 DEF Next, Work, Tick, Arrive, Decode, EnterSemaphore, StartThread, ScoreReturns,
                TimeOut, StartScore
  <2>2. CASE UNCHANGED vars
    BY <2>2 DEF vars
  <2> QED
    BY <2>1, <2>2
<1> QED
  BY <1>1, <1>2, <1>3

\* Every step: what becomes due by any time is covered by then.
LEMMA ReadyStep ==
  ASSUME TypeInv, BucketInv, ReadyInv, [Next]_vars
  PROVE  ReadyInv'
<1>1. ASSUME NEW r \in Requests, AcquireTokens(r) PROVE ReadyInv'
  <2> SUFFICES ASSUME NEW w \in Workers, NEW i \in DOMAIN Limiters, NEW t \in Nat
               PROVE  Cardinality(Ready(w, i, t)') * Limiters[i].cost <= Given(i, t)
    BY DEF ReadyInv, Given, Ready
  <2> DEFINE v == WorkerOf[r]
             j == stage[r]
             a == Acquire(Limiters[j].limit, buckets[v][j], Limiters[j].cost, now)
             k == Cardinality(Taken(v, j)) * Limiters[j].cost
             n == Limiters[j].cost
  <2>1. /\ v \in Workers /\ j \in DOMAIN Limiters /\ k \in Nat /\ a.sleep \in Nat
        /\ a.acquired => k + n <= Given(j, now + a.sleep)
    BY <1>1, Acquires
  <2>2. IF w = v /\ i = j /\ a.acquired
        THEN /\ Taken(w, i)' = Taken(w, i) \cup {r}
             /\ Cardinality(Taken(w, i)') = Cardinality(Taken(w, i)) + 1
        ELSE Taken(w, i)' = Taken(w, i)
    BY <1>1, TakenNext
  <2>3. /\ wake' = [wake EXCEPT ![r] = now + a.sleep] /\ wake[r] <= now /\ now \in Nat
    BY <1>1 DEF AcquireTokens, TypeInv
  <2>4. wake'[r] = now + a.sleep /\ \A q \in Requests : wake'[q] >= wake[q]
    <3> HIDE DEF a
    <3> QED
      BY <2>1, <2>3 DEF TypeInv
  <2>5. Ready(w, i, t) \in SUBSET Requests /\ Ready(w, i, t)' \in SUBSET Requests
        /\ Taken(w, i) \in SUBSET Requests /\ Taken(w, i)' \in SUBSET Requests
        /\ Ready(w, i, t)' \subseteq Taken(w, i)' /\ Limiters[i].cost \in Nat
    <3>1. Limiters[i].cost \in Nat
      BY LimiterType
    <3> QED
      BY <3>1 DEF Ready, Taken
  <2> HIDE DEF v, j, a
  <2>6. CASE w = v /\ i = j /\ a.acquired /\ now + a.sleep <= t
    <3>1. Cardinality(Taken(w, i)') * Limiters[i].cost = k + n
      <4>1. Cardinality(Taken(w, i)) \in Nat
        BY <2>5, SomeRequests
      <4>2. (Cardinality(Taken(w, i)) + 1) * Limiters[i].cost
              = Cardinality(Taken(w, i)) * Limiters[i].cost + Limiters[i].cost
        BY <2>5, <4>1
      <4> QED
        BY <2>2, <2>6, <4>2
    <3>2. Cardinality(Ready(w, i, t)') * Limiters[i].cost
            <= Cardinality(Taken(w, i)') * Limiters[i].cost
      BY <2>5, FewerCost
    <3>3. Given(i, now + a.sleep) <= Given(i, t) /\ Given(i, t) \in Nat
          /\ Given(i, now + a.sleep) \in Nat
      <4>1. now + a.sleep \in Nat
        BY <2>1, <2>3
      <4>2. Limiters[i].limit.rate_limit \in Nat /\ Limiters[i].limit.max_tokens \in Nat
        BY LimiterType
      <4>3. /\ Limiters[i].limit.rate_limit * (now + a.sleep) <= Limiters[i].limit.rate_limit * t
            /\ Limiters[i].limit.rate_limit * (now + a.sleep) \in Nat
            /\ Limiters[i].limit.rate_limit * t \in Nat
        BY <2>6, <4>1, <4>2, Grows
      <4> QED
        BY <4>2, <4>3 DEF Given
    <3>4. Cardinality(Ready(w, i, t)') * Limiters[i].cost \in Nat
      <4>1. Cardinality(Ready(w, i, t)') \in Nat
        BY <2>5, SomeRequests
      <4> QED
        BY <2>5, <4>1
    <3>5. k + n <= Given(i, now + a.sleep) /\ k + n \in Nat
      BY <2>1, <2>5, <2>6
    <3> HIDE DEF k, n
    <3> QED
      BY <3>1, <3>2, <3>3, <3>4, <3>5
  <2>7. CASE ~(w = v /\ i = j /\ a.acquired /\ now + a.sleep <= t)
    <3>1. Ready(w, i, t)' \subseteq Ready(w, i, t)
      <4> SUFFICES ASSUME NEW q \in Ready(w, i, t)' PROVE q \in Ready(w, i, t)
        OBVIOUS
      <4>1. q \in Taken(w, i)' /\ wake'[q] <= t /\ q \in Requests
        BY <2>5 DEF Ready
      <4>2. wake[q] <= t
        <5>1. wake[q] \in Int /\ wake'[q] \in Int /\ wake'[q] >= wake[q]
          BY <2>1, <2>3, <2>4, <4>1 DEF TypeInv
        <5> QED
          BY <4>1, <5>1
      <4>3. q \in Taken(w, i)
        BY <2>2, <2>4, <2>7, <4>1
      <4> QED
        BY <4>2, <4>3 DEF Ready
    <3>2. /\ Cardinality(Ready(w, i, t)') * Limiters[i].cost
               <= Cardinality(Ready(w, i, t)) * Limiters[i].cost
          /\ Cardinality(Ready(w, i, t)) * Limiters[i].cost \in Nat
      BY <2>5, <3>1, FewerCost
    <3>3. Cardinality(Ready(w, i, t)) * Limiters[i].cost <= Given(i, t)
      BY DEF ReadyInv
    <3>4. Given(i, t) \in Nat
      BY GivenType
    <3>5. Cardinality(Ready(w, i, t)') * Limiters[i].cost \in Nat
      <4>1. Cardinality(Ready(w, i, t)') \in Nat
        BY <2>5, SomeRequests
      <4> QED
        BY <2>5, <4>1
    <3> QED
      BY <3>2, <3>3, <3>4, <3>5
  <2> QED
    BY <2>6, <2>7
<1>2. CASE UNCHANGED <<stage, wake>>
  BY <1>2 DEF ReadyInv, Ready, Taken, Given
<1>3. (\E r \in Requests : AcquireTokens(r)) \/ UNCHANGED <<stage, wake>>
  <2>1. CASE Next
    BY <2>1 DEF Next, Work, Tick, Arrive, Decode, EnterSemaphore, StartThread, ScoreReturns,
                TimeOut, StartScore
  <2>2. CASE UNCHANGED vars
    BY <2>2 DEF vars
  <2> QED
    BY <2>1, <2>2
<1> QED
  BY <1>1, <1>2, <1>3

-----------------------------------------------------------------------------
\* The theorems.

\* The invariant of the worker: the buckets, the sleeps and the order of run_single.
THEOREM RewardInvariant == Spec => [](TypeInv /\ PastInv /\ BucketInv /\ ReadyInv)
<1>1. TypeInv /\ PastInv /\ BucketInv /\ ReadyInv /\ [Next]_vars
        => (TypeInv /\ PastInv /\ BucketInv /\ ReadyInv)'
  BY TypeStep, PastStep, BucketStep, ReadyStep
<1> QED
  BY <1>1, RewardInitial, PTL DEF Spec

\* However run_single's requests overtake each other at the limiters and the semaphore, and
\* however late they wake, what a worker has started by any time is within max_tokens plus
\* what rate_limit has refilled, for every limiter, also with estimates above max_tokens.
THEOREM QuotaKept == Spec => []WithinQuota
<1>1. TypeInv /\ PastInv /\ ReadyInv => WithinQuota
  <2> SUFFICES ASSUME TypeInv, PastInv, ReadyInv,
                      NEW w \in Workers, NEW i \in DOMAIN Limiters
               PROVE  Cardinality(Started(w)) * Limiters[i].cost <= Given(i, now)
    BY DEF WithinQuota, Given
  <2>1. Started(w) \subseteq Ready(w, i, now) /\ Ready(w, i, now) \subseteq Requests
    <3>1. i \in 1 .. Len(Limiters) /\ Len(Limiters) \in Nat
      <4>1. \E Each : Limiters \in Seq(Each)
        BY LimitersAssumption
      <4> QED
        BY <4>1
    <3>2. \A r \in Started(w) : stage[r] > i /\ wake[r] <= now
      BY <3>1 DEF Started, PastInv, Past, TypeInv
    <3> QED
      BY <3>2 DEF Started, Ready, Taken
  <2>2. Limiters[i].cost \in Nat /\ Given(i, now) \in Nat
    <3>1. now \in Nat
      BY DEF TypeInv
    <3> QED
      BY <3>1, LimiterType, GivenType
  <2>3. /\ Cardinality(Started(w)) * Limiters[i].cost
             <= Cardinality(Ready(w, i, now)) * Limiters[i].cost
        /\ Cardinality(Ready(w, i, now)) * Limiters[i].cost \in Nat
    BY <2>1, <2>2, FewerCost
  <2>4. Cardinality(Ready(w, i, now)) * Limiters[i].cost <= Given(i, now)
    BY DEF ReadyInv, TypeInv
  <2>5. Cardinality(Started(w)) * Limiters[i].cost \in Nat
    <3>1. Cardinality(Started(w)) \in Nat
      BY <2>1, SomeRequests
    <3> QED
      BY <2>2, <3>1
  <2> QED
    BY <2>2, <2>3, <2>4, <2>5
<1> QED
  BY <1>1, RewardInvariant, PTL

-----------------------------------------------------------------------------
\* The semaphore and the pool.

\* The requests in a semaphore's line are those that wait for it, each once.
LineInv ==
  \A w \in Workers :
    /\ \A k \in 1 .. Len(waiters[w]) :
         pc[waiters[w][k]] = "semaphore" /\ WorkerOf[waiters[w][k]] = w
    /\ \A k, l \in 1 .. Len(waiters[w]) : waiters[w][k] = waiters[w][l] => k = l

\* A coroutine is under way exactly while its request holds the semaphore; a thread may
\* outlive it.
CallsInv ==
  /\ ~sync => calls = {r \in Requests : pc[r] = "score"}
  /\ \A r \in calls : pc[r] \in {"score", "returned"}

\* Neither gives out more than it has.
SlotsInv ==
  \A w \in Workers :
    Cardinality(Holders(w)) <= MaxConcurrent /\ Cardinality(Threads(w)) <= PoolThreads

\* How many scores a worker has under way: with a coroutine no more than the semaphore
\* admits, with a function no more than the pool has threads.
CallsOf(w) == {r \in calls : WorkerOf[r] = w}
CallsBounded ==
  \A w \in Workers :
    /\ Cardinality(Holders(w)) <= MaxConcurrent
    /\ Cardinality(CallsOf(w)) <= IF sync THEN PoolThreads ELSE MaxConcurrent

WorkerInv == TypeOK /\ LineInv /\ CallsInv /\ SlotsInv

\* A set of requests that loses one, or is given one.
LEMMA FewerRequests ==
  ASSUME NEW S, NEW T, S \subseteq Requests, T \subseteq S
  PROVE  Cardinality(T) \in Nat /\ Cardinality(S) \in Nat /\ Cardinality(T) <= Cardinality(S)
<1>1. IsFiniteSet(S)
  BY RewardAssumption, FS_Subset
<1> QED
  BY <1>1, FS_Subset, FS_CardinalityType

\* One more request goes where there was room for it.
LEMMA RoomForOne ==
  ASSUME NEW S, NEW T, S \subseteq Requests, NEW r, T \subseteq S \cup {r}, T \subseteq Requests,
         NEW n \in Nat, Cardinality(S) < n
  PROVE  Cardinality(T) <= n
<1>1. IsFiniteSet(S) /\ IsFiniteSet(S \cup {r})
  BY RewardAssumption, FS_Subset, FS_AddElement
<1>2. Cardinality(S) \in Nat /\ Cardinality(S \cup {r}) \in Nat
  BY <1>1, FS_CardinalityType
<1>3. Cardinality(S \cup {r}) <= Cardinality(S) + 1
  <2>1. CASE r \in S
    <3>1. S \cup {r} = S
      BY <2>1
    <3> QED
      BY <1>2, <3>1
  <2>2. CASE r \notin S
    BY <1>1, <1>2, <2>2, FS_AddElement
  <2> QED
    BY <2>1, <2>2
<1>4. Cardinality(T) <= Cardinality(S \cup {r}) /\ Cardinality(T) \in Nat
  BY <1>1, FS_Subset, FS_CardinalityType
<1> QED
  BY <1>2, <1>3, <1>4

\* No request has come yet.
LEMMA WorkerInitially == RewardInit => WorkerInv
<1> SUFFICES ASSUME RewardInit PROVE WorkerInv
  OBVIOUS
<1>1. Len(Limiters) \in Nat /\ DOMAIN Limiters = 1 .. Len(Limiters)
  BY LimitersAssumption, LenProperties
<1>2. TypeOK
  <2>1. sync \in BOOLEAN /\ now \in 0 .. MaxTime /\ pc \in [Requests -> Pc]
        /\ result \in [Requests -> Results] /\ calls \subseteq Requests
    BY RewardAssumption DEF RewardInit, Pc, Results
  <2>2. \A r \in Requests : stage[r] \in 1 .. Len(Limiters) + 1
    BY <1>1 DEF RewardInit
  <2>3. waiters \in [Workers -> Seq({r \in Requests : pc[r] = "semaphore"})]
    BY EmptySeq DEF RewardInit
  <2>4. \A r \in Requests : pc[r] = "returned" <=> result[r] # "none"
    BY DEF RewardInit
  <2>5. \A w \in Workers : \A i \in DOMAIN Limiters : buckets[w][i].last_update <= now
    BY DEF RewardInit, FullBucket
  <2> QED
    BY <2>1, <2>2, <2>3, <2>4, <2>5 DEF TypeOK
<1>3. LineInv
  BY DEF RewardInit, LineInv
<1>4. CallsInv
  BY DEF RewardInit, CallsInv
<1>5. SlotsInv
  <2>1. \A w \in Workers : Holders(w) = {} /\ Threads(w) = {}
    BY DEF RewardInit, Holders, Threads
  <2> QED
    BY <2>1, RewardAssumption, FS_EmptySet DEF SlotsInv
<1> QED
  BY <1>2, <1>3, <1>4, <1>5 DEF WorkerInv

\* What the steps do not touch, and where a request can go.
LEMMA WorkerFrame ==
  ASSUME TypeOK, [Next]_vars
  PROVE  /\ sync' = sync /\ now' \in 0 .. MaxTime /\ now <= now'
         /\ pc' \in [Requests -> Pc] /\ result' \in [Requests -> Results] /\ calls' \subseteq Requests
         /\ \A r \in Requests : pc'[r] = "returned" <=> result'[r] # "none"
<1> USE DEF TypeOK, Pc, Results
<1>0. MaxTime \in Nat /\ now \in 0 .. MaxTime
  BY RewardAssumption
<1>1. CASE Tick
  BY <1>0, <1>1 DEF Tick
<1>2. ASSUME NEW r \in Requests, Arrive(r) \/ Decode(r) \/ AcquireTokens(r) \/ EnterSemaphore(r)
                                  \/ StartThread(r)
      PROVE  /\ sync' = sync /\ now' = now /\ result' = result
             /\ pc' \in [Requests -> Pc] /\ calls' \subseteq Requests
             /\ \A q \in Requests : pc'[q] = "returned" <=> pc[q] = "returned"
  BY <1>2 DEF Arrive, Decode, AcquireTokens, EnterSemaphore, StartThread
<1>3. ASSUME NEW r \in Requests, ScoreReturns(r) \/ TimeOut(r)
      PROVE  /\ sync' = sync /\ now' = now
             /\ pc' \in [Requests -> Pc] /\ result' \in [Requests -> Results] /\ calls' \subseteq Requests
             /\ \A q \in Requests : pc'[q] = "returned" <=> result'[q] # "none"
  <2>1. CASE ScoreReturns(r)
    BY <2>1 DEF ScoreReturns
  <2>2. CASE TimeOut(r)
    BY <2>2 DEF TimeOut
  <2> QED
    BY <1>3, <2>1, <2>2
<1>4. ASSUME NEW w \in Workers, StartScore(w)
      PROVE  /\ sync' = sync /\ now' = now /\ result' = result
             /\ pc' \in [Requests -> Pc] /\ calls' \subseteq Requests
             /\ \A q \in Requests : pc'[q] = "returned" <=> pc[q] = "returned"
  <2>1. Head(waiters[w]) \in {r \in Requests : pc[r] = "semaphore"}
    BY <1>4, HeadTailProperties DEF StartScore
  <2>2. PICK r : r = Head(waiters[w])
    OBVIOUS
  <2>3. /\ sync' = sync /\ now' = now /\ result' = result
        /\ pc' = [pc EXCEPT ![r] = "score"]
        /\ calls' = IF sync THEN calls ELSE calls \cup {r}
    BY <1>4, <2>2 DEF StartScore
  <2> QED
    BY <2>1, <2>2, <2>3
<1>5. CASE UNCHANGED vars
  BY <1>0, <1>5 DEF vars
<1> QED
  BY <1>0, <1>1, <1>2, <1>3, <1>4, <1>5 DEF Next, Work

\* The line of the semaphore.
LEMMA LineStep ==
  ASSUME TypeOK, LineInv, [Next]_vars
  PROVE  LineInv' /\ waiters' \in [Workers -> Seq({r \in Requests : pc'[r] = "semaphore"})]
<1>1. waiters \in [Workers -> Seq({r \in Requests : pc[r] = "semaphore"})] /\ pc \in [Requests -> Pc]
  BY DEF TypeOK
<1>2. \A w \in Workers :
        /\ waiters[w] \in Seq(Requests) /\ Len(waiters[w]) \in Nat
        /\ \A k \in 1 .. Len(waiters[w]) : waiters[w][k] \in Requests
  <2> SUFFICES ASSUME NEW w \in Workers
               PROVE  /\ waiters[w] \in Seq(Requests) /\ Len(waiters[w]) \in Nat
                      /\ \A k \in 1 .. Len(waiters[w]) : waiters[w][k] \in Requests
    OBVIOUS
  <2>1. waiters[w] \in Seq({r \in Requests : pc[r] = "semaphore"})
    BY <1>1
  <2>2. waiters[w] \in Seq(Requests)
    BY <2>1
  <2> QED
    BY <2>2, LenProperties, ElementOfSeq
<1>3. ASSUME LineInv', waiters' \in [Workers -> Seq(Requests)]
      PROVE  waiters' \in [Workers -> Seq({r \in Requests : pc'[r] = "semaphore"})]
  <2> DEFINE S == {r \in Requests : pc'[r] = "semaphore"}
  <2>1. ASSUME NEW w \in Workers PROVE waiters'[w] \in Seq(S)
    <3>1. waiters'[w] \in Seq(Requests)
      BY <1>3
    <3>2. PICK s \in Seq(Requests) : s = waiters'[w]
      BY <3>1
    <3>3. \A k \in 1 .. Len(s) : s[k] \in S
      <4>1. \A k \in 1 .. Len(s) : s[k] \in Requests
        BY ElementOfSeq
      <4>2. \A k \in 1 .. Len(s) : pc'[s[k]] = "semaphore"
        BY <1>3, <3>2 DEF LineInv
      <4> QED
        BY <4>1, <4>2
    <3>4. s = [k \in 1 .. Len(s) |-> s[k]] /\ Len(s) \in Nat
      BY LenProperties
    <3> HIDE DEF S
    <3>5. s \in Seq(S)
      BY <3>3, <3>4, IsASeq
    <3> QED
      BY <3>2, <3>5
  <2> HIDE DEF S
  <2>2. waiters' \in [Workers -> Seq(S)]
    BY <1>3, <2>1
  <2> QED
    BY <2>2 DEF S
<1>4. CASE /\ waiters' = waiters
           /\ \A r \in Requests : pc[r] = "semaphore" => pc'[r] = "semaphore"
  <2>1. LineInv'
    BY <1>2, <1>4 DEF LineInv
  <2> QED
    BY <1>2, <1>3, <1>4, <2>1, <1>1
<1>5. ASSUME NEW r \in Requests, EnterSemaphore(r)
      PROVE  LineInv' /\ waiters' \in [Workers -> Seq(Requests)]
  <2>1. PICK v \in Workers : v = WorkerOf[r]
    BY RewardAssumption
  <2>2. PICK s \in Seq(Requests) : s = waiters[v]
    BY <1>2
  <2>3. /\ pc[r] = "limit" /\ pc' = [pc EXCEPT ![r] = "semaphore"]
        /\ waiters' = [waiters EXCEPT ![v] = Append(s, r)]
    BY <1>5, <2>1, <2>2 DEF EnterSemaphore
  <2>4. /\ Append(s, r) \in Seq(Requests) /\ Len(Append(s, r)) = Len(s) + 1 /\ Len(s) \in Nat
        /\ \A k \in 1 .. Len(s) : Append(s, r)[k] = s[k]
        /\ Append(s, r)[Len(s) + 1] = r
    BY AppendProperties, LenProperties
  <2>5. waiters' \in [Workers -> Seq(Requests)]
    BY <1>1, <1>2, <2>3, <2>4
  <2>6. ASSUME NEW w \in Workers, w # v
        PROVE  /\ \A k \in 1 .. Len(waiters'[w]) :
                    pc'[waiters'[w][k]] = "semaphore" /\ WorkerOf[waiters'[w][k]] = w
               /\ \A k, l \in 1 .. Len(waiters'[w]) : waiters'[w][k] = waiters'[w][l] => k = l
    <3>1. waiters'[w] = waiters[w]
      BY <1>1, <2>3, <2>6
    <3>2. \A k \in 1 .. Len(waiters[w]) : pc'[waiters[w][k]] = "semaphore"
      BY <1>1, <1>2, <2>3 DEF LineInv
    <3> QED
      BY <3>1, <3>2 DEF LineInv
  <2>7. /\ \A k \in 1 .. Len(waiters'[v]) :
             pc'[waiters'[v][k]] = "semaphore" /\ WorkerOf[waiters'[v][k]] = v
        /\ \A k, l \in 1 .. Len(waiters'[v]) : waiters'[v][k] = waiters'[v][l] => k = l
    <3>1. waiters'[v] = Append(s, r)
      BY <1>1, <2>3
    <3>2. \A k \in 1 .. Len(s) : s[k] # r /\ pc'[s[k]] = "semaphore" /\ WorkerOf[s[k]] = v
      BY <1>1, <1>2, <2>2, <2>3 DEF LineInv
    <3>3. \A k, l \in 1 .. Len(s) : s[k] = s[l] => k = l
      BY <2>2 DEF LineInv
    <3>4. pc'[r] = "semaphore"
      BY <1>1, <2>3
    <3>5. \A k \in 1 .. Len(s) + 1 : k \in 1 .. Len(s) \/ k = Len(s) + 1
      BY <2>4
    <3> QED
      BY <2>1, <2>4, <3>1, <3>2, <3>3, <3>4, <3>5
  <2>8. LineInv'
    BY <2>6, <2>7 DEF LineInv
  <2> QED
    BY <2>5, <2>8
<1>6. ASSUME NEW v \in Workers, StartScore(v)
      PROVE  LineInv' /\ waiters' \in [Workers -> Seq(Requests)]
  <2>1. PICK s \in Seq(Requests) : s = waiters[v]
    BY <1>2
  <2>2. s # <<>> /\ waiters' = [waiters EXCEPT ![v] = Tail(s)]
        /\ pc' = [pc EXCEPT ![Head(s)] = "score"]
    BY <1>1, <1>6, <2>1 DEF StartScore
  <2>3. /\ Len(s) \in Nat \ {0} /\ Head(s) = s[1] /\ Head(s) \in Requests
        /\ Tail(s) \in Seq(Requests) /\ Len(Tail(s)) = Len(s) - 1
        /\ \A k \in 1 .. Len(Tail(s)) : Tail(s)[k] = s[k + 1]
    BY <2>2, HeadTailProperties, LenProperties, EmptySeq
  <2>4. waiters' \in [Workers -> Seq(Requests)]
    BY <1>1, <1>2, <2>2, <2>3
  <2>5. 1 \in 1 .. Len(s) /\ WorkerOf[Head(s)] = v
    BY <2>1, <2>3 DEF LineInv
  <2>6. ASSUME NEW w \in Workers, w # v
        PROVE  /\ \A k \in 1 .. Len(waiters'[w]) :
                    pc'[waiters'[w][k]] = "semaphore" /\ WorkerOf[waiters'[w][k]] = w
               /\ \A k, l \in 1 .. Len(waiters'[w]) : waiters'[w][k] = waiters'[w][l] => k = l
    <3>1. waiters'[w] = waiters[w]
      BY <1>1, <2>2, <2>6
    <3>2. \A k \in 1 .. Len(waiters[w]) : waiters[w][k] # Head(s) /\ pc[waiters[w][k]] = "semaphore"
      BY <2>5, <2>6 DEF LineInv
    <3>3. \A k \in 1 .. Len(waiters[w]) : pc'[waiters[w][k]] = "semaphore"
      BY <1>1, <1>2, <2>2, <3>2
    <3> QED
      BY <3>1, <3>3 DEF LineInv
  <2>7. /\ \A k \in 1 .. Len(waiters'[v]) :
             pc'[waiters'[v][k]] = "semaphore" /\ WorkerOf[waiters'[v][k]] = v
        /\ \A k, l \in 1 .. Len(waiters'[v]) : waiters'[v][k] = waiters'[v][l] => k = l
    <3>1. waiters'[v] = Tail(s)
      BY <1>1, <2>2
    <3>2. \A k \in 1 .. Len(Tail(s)) : k + 1 \in 1 .. Len(s) /\ k + 1 # 1
      BY <2>3
    <3>3. /\ \A k \in 1 .. Len(s) : s[k] \in Requests /\ pc[s[k]] = "semaphore" /\ WorkerOf[s[k]] = v
          /\ \A k, l \in 1 .. Len(s) : s[k] = s[l] => k = l
      BY <1>2, <2>1 DEF LineInv
    <3>4. \A k \in 1 .. Len(Tail(s)) : Tail(s)[k] # Head(s) /\ pc'[Tail(s)[k]] = "semaphore"
      BY <1>1, <2>2, <2>3, <2>5, <3>2, <3>3
    <3>5. \A k, l \in 1 .. Len(Tail(s)) : Tail(s)[k] = Tail(s)[l] => k = l
      <4> SUFFICES ASSUME NEW k \in 1 .. Len(Tail(s)), NEW l \in 1 .. Len(Tail(s)), Tail(s)[k] = Tail(s)[l]
                   PROVE  k = l
        OBVIOUS
      <4>1. k + 1 = l + 1
        BY <2>3, <3>2, <3>3
      <4> QED
        BY <2>3, <4>1
    <3> QED
      BY <2>3, <3>1, <3>2, <3>3, <3>4, <3>5
  <2>8. LineInv'
    BY <2>6, <2>7 DEF LineInv
  <2> QED
    BY <2>4, <2>8
<1>7. CASE Tick \/ UNCHANGED vars
  BY <1>4, <1>7 DEF Tick, vars
<1>8. ASSUME NEW r \in Requests, Arrive(r) \/ Decode(r) \/ AcquireTokens(r) \/ StartThread(r)
                                  \/ ScoreReturns(r) \/ TimeOut(r)
      PROVE  /\ waiters' = waiters
             /\ \A q \in Requests : pc[q] = "semaphore" => pc'[q] = "semaphore"
  BY <1>1, <1>8 DEF Arrive, Decode, AcquireTokens, StartThread, ScoreReturns, TimeOut, Timed
<1> QED
  BY <1>3, <1>4, <1>5, <1>6, <1>7, <1>8 DEF Next, Work

\* A request passes the limiters one by one.
LEMMA StageStep ==
  ASSUME TypeOK, [Next]_vars, stage \in [Requests -> Nat \ {0}]
  PROVE  \A r \in Requests : stage'[r] \in 1 .. Len(Limiters) + 1
<1>1. Len(Limiters) \in Nat /\ DOMAIN Limiters = 1 .. Len(Limiters)
  BY LimitersAssumption, LenProperties
<1>2. ASSUME NEW r \in Requests, AcquireTokens(r)
      PROVE  \A q \in Requests : stage'[q] \in 1 .. Len(Limiters) + 1
  <2>1. PICK i : i = stage[r]
    OBVIOUS
  <2>2. i \in 1 .. Len(Limiters)
    BY <1>1, <1>2, <2>1 DEF AcquireTokens
  <2>3. PICK j \in {i, i + 1} : stage' = [stage EXCEPT ![r] = j]
    BY <1>2, <2>1 DEF AcquireTokens
  <2>4. j \in 1 .. Len(Limiters) + 1
    BY <1>1, <2>2, <2>3
  <2> QED
    BY <2>3, <2>4 DEF TypeOK
<1>3. CASE stage' = stage
  BY <1>3 DEF TypeOK
<1>4. ASSUME NEW r \in Requests, Arrive(r) \/ Decode(r) \/ EnterSemaphore(r) \/ StartThread(r)
                                  \/ ScoreReturns(r) \/ TimeOut(r)
      PROVE  stage' = stage
  BY <1>4 DEF Arrive, Decode, EnterSemaphore, StartThread, ScoreReturns, TimeOut
<1>5. ASSUME NEW w \in Workers, StartScore(w) PROVE stage' = stage
  BY <1>5 DEF StartScore
<1>6. CASE Tick \/ UNCHANGED vars
  BY <1>3, <1>6 DEF Tick, vars
<1> QED
  BY <1>2, <1>3, <1>4, <1>5, <1>6 DEF Next, Work

\* Who holds the semaphore, and what the pool does: a request enters where there is room.
LEMMA SlotsStep ==
  ASSUME TypeOK, LineInv, CallsInv, SlotsInv, [Next]_vars
  PROVE  CallsInv' /\ SlotsInv'
<1>1. pc \in [Requests -> Pc] /\ calls \subseteq Requests /\ sync \in BOOLEAN
  BY DEF TypeOK
<1>2. sync' = sync
  BY WorkerFrame
<1>3. {MaxConcurrent, PoolThreads} \subseteq Nat /\ WorkerOf \in [Requests -> Workers]
  BY RewardAssumption
<1>4. ASSUME \A w \in Workers : Holders(w)' \subseteq Holders(w)
      PROVE  \A w \in Workers : Cardinality(Holders(w)') <= MaxConcurrent
  <2> SUFFICES ASSUME NEW w \in Workers PROVE Cardinality(Holders(w)') <= MaxConcurrent
    OBVIOUS
  <2>1. PICK S : S = Holders(w)
    OBVIOUS
  <2>2. PICK T : T = Holders(w)'
    OBVIOUS
  <2>3. S \subseteq Requests /\ T \subseteq S /\ Cardinality(S) <= MaxConcurrent
    BY <1>4, <2>1, <2>2 DEF Holders, SlotsInv
  <2>4. Cardinality(T) \in Nat /\ Cardinality(S) \in Nat /\ Cardinality(T) <= Cardinality(S)
    BY <2>3, FewerRequests
  <2> QED
    BY <1>3, <2>2, <2>3, <2>4
<1>5. ASSUME \A w \in Workers : Threads(w)' \subseteq Threads(w)
      PROVE  \A w \in Workers : Cardinality(Threads(w)') <= PoolThreads
  <2> SUFFICES ASSUME NEW w \in Workers PROVE Cardinality(Threads(w)') <= PoolThreads
    OBVIOUS
  <2>1. PICK S : S = Threads(w)
    OBVIOUS
  <2>2. PICK T : T = Threads(w)'
    OBVIOUS
  <2>3. S \subseteq Requests
    BY <1>1, <2>1 DEF Threads
  <2>4. T \subseteq S /\ Cardinality(S) <= PoolThreads
    BY <1>5, <2>1, <2>2 DEF SlotsInv
  <2>5. Cardinality(T) \in Nat /\ Cardinality(S) \in Nat /\ Cardinality(T) <= Cardinality(S)
    BY <2>3, <2>4, FewerRequests
  <2> QED
    BY <1>3, <2>2, <2>4, <2>5
<1>6. ASSUME NEW r \in Requests, Arrive(r) \/ Decode(r) \/ AcquireTokens(r) \/ EnterSemaphore(r)
      PROVE  CallsInv' /\ SlotsInv'
  <2>1. /\ pc[r] \in {"coming", "decode", "limit"} /\ calls' = calls /\ pc' \in [Requests -> Pc]
        /\ pc'[r] \in {"decode", "limit", "semaphore"} /\ \A q \in Requests : q # r => pc'[q] = pc[q]
    BY <1>1, <1>6 DEF Arrive, Decode, AcquireTokens, EnterSemaphore, Pc
  <2>2. CallsInv'
    BY <1>1, <1>2, <2>1 DEF CallsInv
  <2>3. \A w \in Workers : Holders(w)' \subseteq Holders(w)
    BY <2>1 DEF Holders
  <2>4. \A w \in Workers : Threads(w)' \subseteq Threads(w)
    BY <1>2, <2>1 DEF Threads
  <2> QED
    BY <1>4, <1>5, <2>2, <2>3, <2>4 DEF SlotsInv
<1>7. ASSUME NEW v \in Workers, StartScore(v) PROVE CallsInv' /\ SlotsInv'
  <2>1. PICK r : r = Head(waiters[v])
    OBVIOUS
  <2>2. waiters[v] # <<>> /\ SlotFree(v) /\ pc' = [pc EXCEPT ![r] = "score"]
        /\ calls' = IF sync THEN calls ELSE calls \cup {r}
    BY <1>7, <2>1 DEF StartScore
  <2>3. r \in Requests /\ pc[r] = "semaphore" /\ WorkerOf[r] = v
    <3>1. waiters[v] \in Seq({q \in Requests : pc[q] = "semaphore"})
      BY DEF TypeOK
    <3>2. r = waiters[v][1] /\ r \in Requests /\ pc[r] = "semaphore" /\ Len(waiters[v]) \in Nat \ {0}
      BY <2>1, <2>2, <3>1, HeadTailProperties, LenProperties, EmptySeq
    <3>3. 1 \in 1 .. Len(waiters[v])
      BY <3>2
    <3> QED
      BY <3>2, <3>3 DEF LineInv
  <2>4. CallsInv'
    <3>1. pc' \in [Requests -> Pc] /\ pc'[r] = "score" /\ \A q \in Requests : q # r => pc'[q] = pc[q]
      BY <1>1, <2>2, <2>3 DEF Pc
    <3>2. CASE sync = TRUE
      <4>1. calls' = calls /\ sync' = TRUE
        BY <1>2, <2>2, <3>2
      <4> QED
        BY <1>1, <2>3, <3>1, <4>1 DEF CallsInv
    <3>3. CASE sync = FALSE
      <4>1. calls' = calls \cup {r} /\ sync' = FALSE
        BY <1>2, <2>2, <3>3
      <4>2. calls = {q \in Requests : pc[q] = "score"}
        BY <3>3 DEF CallsInv
      <4> QED
        BY <2>3, <3>1, <4>1, <4>2 DEF CallsInv
    <3> QED
      BY <1>1, <3>2, <3>3
  <2>5. \A w \in Workers : Threads(w)' \subseteq Threads(w)
    <3>1. CASE sync = TRUE
      BY <1>2, <2>2, <3>1 DEF Threads
    <3>2. CASE sync = FALSE
      BY <1>2, <3>2 DEF Threads
    <3> QED
      BY <1>1, <3>1, <3>2
  <2>6. \A q \in Requests : pc'[q] = "score" => q = r \/ pc[q] = "score"
    BY <1>1, <2>2, <2>3
  <2>7. \A w \in Workers : Cardinality(Holders(w)') <= MaxConcurrent
    <3>1. ASSUME NEW w \in Workers, w # v PROVE Cardinality(Holders(w)') <= MaxConcurrent
      <4>1. PICK S : S = Holders(w)
        OBVIOUS
      <4>2. PICK T : T = Holders(w)'
        OBVIOUS
      <4>3. S \subseteq Requests /\ T \subseteq S /\ Cardinality(S) <= MaxConcurrent
        BY <2>3, <2>6, <3>1, <4>1, <4>2 DEF Holders, SlotsInv
      <4>4. Cardinality(T) \in Nat /\ Cardinality(S) \in Nat /\ Cardinality(T) <= Cardinality(S)
        BY <4>3, FewerRequests
      <4> QED
        BY <1>3, <4>2, <4>3, <4>4
    <3>2. Cardinality(Holders(v)') <= MaxConcurrent
      <4>1. PICK S : S = Holders(v)
        OBVIOUS
      <4>2. PICK T : T = Holders(v)'
        OBVIOUS
      <4>3. S \subseteq Requests /\ T \subseteq S \cup {r} /\ T \subseteq Requests
        BY <2>6, <4>1, <4>2 DEF Holders
      <4>4. Cardinality(S) < MaxConcurrent
        BY <2>2, <4>1 DEF SlotFree
      <4>5. Cardinality(T) <= MaxConcurrent
        BY <1>3, <4>3, <4>4, RoomForOne
      <4> QED
        BY <4>2, <4>5
    <3> QED
      BY <3>1, <3>2
  <2> QED
    BY <1>5, <2>4, <2>5, <2>7 DEF SlotsInv
<1>8. ASSUME NEW r \in Requests, StartThread(r) PROVE CallsInv' /\ SlotsInv'
  <2>1. sync = TRUE /\ pc' = pc /\ pc[r] = "score" /\ calls' = calls \cup {r} /\ PoolHasRoom(WorkerOf[r])
    BY <1>1, <1>8 DEF StartThread
  <2>2. CallsInv'
    BY <1>2, <2>1 DEF CallsInv
  <2>3. \A w \in Workers : Holders(w)' \subseteq Holders(w)
    BY <2>1 DEF Holders
  <2>4. \A w \in Workers : Cardinality(Threads(w)') <= PoolThreads
    <3>1. ASSUME NEW w \in Workers, w # WorkerOf[r] PROVE Threads(w)' = Threads(w)
      BY <1>2, <2>1, <3>1 DEF Threads
    <3>2. PICK v \in Workers : v = WorkerOf[r]
      BY <1>3
    <3>3. PICK S : S = Threads(v)
      OBVIOUS
    <3>4. PICK T : T = Threads(v)'
      OBVIOUS
    <3>5. S \subseteq Requests /\ T \subseteq S \cup {r} /\ T \subseteq Requests
      BY <1>1, <1>2, <2>1, <3>3, <3>4 DEF Threads
    <3>6. Cardinality(S) < PoolThreads
      BY <2>1, <3>2, <3>3 DEF PoolHasRoom
    <3>7. Cardinality(T) <= PoolThreads
      BY <1>3, <3>5, <3>6, RoomForOne
    <3> QED
      BY <3>1, <3>2, <3>4, <3>7 DEF SlotsInv
  <2> QED
    BY <1>4, <2>2, <2>3, <2>4 DEF SlotsInv
<1>9. ASSUME NEW r \in Requests, ScoreReturns(r) \/ TimeOut(r) PROVE CallsInv' /\ SlotsInv'
  <2>1. /\ calls' \subseteq calls /\ pc' \in [Requests -> Pc]
        /\ \A q \in Requests : q # r => pc'[q] = pc[q] /\ (q \in calls' <=> q \in calls)
        /\ pc'[r] = pc[r] \/ pc'[r] = "returned"
    <3>1. CASE ScoreReturns(r)
      BY <1>1, <3>1 DEF ScoreReturns, Pc
    <3>2. CASE TimeOut(r)
      BY <1>1, <3>2 DEF TimeOut, Pc
    <3> QED
      BY <1>9, <3>1, <3>2
  <2>2. ~sync => r \notin calls' /\ pc'[r] # "score"
    <3>1. CASE ScoreReturns(r)
      BY <1>1, <3>1 DEF ScoreReturns, CallsInv
    <3>2. CASE TimeOut(r)
      BY <1>1, <3>2 DEF TimeOut
    <3> QED
      BY <1>9, <3>1, <3>2
  <2>3. CallsInv'
    <3>1. \A q \in calls' : pc'[q] \in {"score", "returned"}
      BY <1>1, <2>1 DEF CallsInv
    <3>2. CASE sync = FALSE
      <4>1. calls = {q \in Requests : pc[q] = "score"}
        BY <3>2 DEF CallsInv
      <4>2. \A q \in Requests : q \in calls' <=> pc'[q] = "score"
        BY <2>1, <2>2, <3>2, <4>1
      <4>3. calls' \subseteq Requests
        BY <1>1, <2>1
      <4> QED
        BY <3>1, <4>2, <4>3 DEF CallsInv
    <3>3. CASE sync = TRUE
      BY <1>2, <3>1, <3>3 DEF CallsInv
    <3> QED
      BY <1>1, <3>2, <3>3
  <2>4. \A w \in Workers : Holders(w)' \subseteq Holders(w)
    BY <2>1 DEF Holders
  <2>5. \A w \in Workers : Threads(w)' \subseteq Threads(w)
    <3>1. CASE sync = TRUE
      BY <1>2, <2>1, <3>1 DEF Threads
    <3>2. CASE sync = FALSE
      BY <1>2, <3>2 DEF Threads
    <3> QED
      BY <1>1, <3>1, <3>2
  <2> QED
    BY <1>4, <1>5, <2>3, <2>4, <2>5 DEF SlotsInv
<1>10. CASE Tick \/ UNCHANGED vars
  <2>1. pc' = pc /\ calls' = calls
    BY <1>10 DEF Tick, vars
  <2> QED
    BY <1>2, <2>1 DEF CallsInv, SlotsInv, Holders, Threads
<1> QED
  BY <1>6, <1>7, <1>8, <1>9, <1>10 DEF Next, Work

\* Types, the line of the semaphore and the slots, for every number of requests and workers.
THEOREM WorkerInvariant == Spec => []WorkerInv
<1>1. RewardInit => WorkerInv
  BY WorkerInitially
<1>2. TypeInv /\ TypeInv' /\ WorkerInv /\ [Next]_vars => WorkerInv'
  <2> SUFFICES ASSUME TypeInv, TypeInv', WorkerInv, [Next]_vars PROVE WorkerInv'
    OBVIOUS
  <2>1. TypeOK /\ LineInv /\ CallsInv /\ SlotsInv
    BY DEF WorkerInv
  <2>2. /\ sync' = sync /\ now' \in 0 .. MaxTime /\ pc' \in [Requests -> Pc]
        /\ result' \in [Requests -> Results] /\ calls' \subseteq Requests
        /\ \A r \in Requests : pc'[r] = "returned" <=> result'[r] # "none"
    BY <2>1, WorkerFrame
  <2>3. LineInv' /\ waiters' \in [Workers -> Seq({r \in Requests : pc'[r] = "semaphore"})]
    BY <2>1, LineStep
  <2>4. CallsInv' /\ SlotsInv'
    BY <2>1, SlotsStep
  <2>5. \A r \in Requests : stage'[r] \in 1 .. Len(Limiters) + 1
    BY <2>1, StageStep DEF TypeInv
  <2>6. \A w \in Workers : \A i \in DOMAIN Limiters : buckets'[w][i].last_update <= now'
    BY DEF TypeInv
  <2>7. sync' \in BOOLEAN
    BY <2>1, <2>2 DEF TypeOK
  <2>8. TypeOK'
    BY <2>2, <2>3, <2>5, <2>6, <2>7 DEF TypeOK
  <2> QED
    BY <2>3, <2>4, <2>8 DEF WorkerInv
<1>3. Spec => []TypeInv
  BY RewardInvariant, PTL
<1> QED
  BY <1>1, <1>2, <1>3, PTL DEF Spec

\* Every reachable state of the workers is well typed; a request has a result exactly when
\* it has returned.
THEOREM RewardTypeCorrect == Spec => []TypeOK
<1>1. WorkerInv => TypeOK
  BY DEF WorkerInv
<1> QED
  BY <1>1, WorkerInvariant, PTL

\* "Limits the number of simultaneous API requests" (limited.py): a worker whose scorer is
\* a coroutine has never more than max_concurrent scores under way, whatever times out; one
\* whose scorer is a function is held by the pool alone.
THEOREM CallsAreBounded == Spec => []CallsBounded
<1>1. WorkerInv => CallsBounded
  <2> SUFFICES ASSUME WorkerInv, NEW w \in Workers
               PROVE  /\ Cardinality(Holders(w)) <= MaxConcurrent
                      /\ Cardinality(CallsOf(w)) <= IF sync THEN PoolThreads ELSE MaxConcurrent
    BY DEF CallsBounded
  <2>1. Cardinality(Holders(w)) <= MaxConcurrent /\ Cardinality(Threads(w)) <= PoolThreads
    BY DEF WorkerInv, SlotsInv
  <2>2. CASE sync = TRUE
    <3>1. CallsOf(w) = Threads(w)
      BY <2>2 DEF CallsOf, Threads
    <3> QED
      BY <2>1, <2>2, <3>1
  <2>3. CASE sync = FALSE
    <3>1. CallsOf(w) = Holders(w)
      BY <2>3 DEF CallsOf, Holders, WorkerInv, CallsInv
    <3> QED
      BY <2>1, <2>3, <3>1
  <2>4. sync \in BOOLEAN
    BY DEF WorkerInv, TypeOK
  <2> QED
    BY <2>2, <2>3, <2>4
<1> QED
  BY <1>1, WorkerInvariant, PTL
===============================================================================
