--------------------------- MODULE AsyncTokenBucket ---------------------------
(***************************************************************************)
(* AsyncTokenBucket (experimental/reward_loop/reward_manager/limited.py)   *)
(* as operators on a bucket, a record of tokens and last_update.  Its      *)
(* critical sections hold no await: each is one step of the event loop.    *)
(* Time is in ticks; tokens are scaled so that the rate is a whole number  *)
(* of tokens per tick.                                                     *)
(***************************************************************************)
EXTENDS Integers

LesserOf(a, b) == IF a <= b THEN a ELSE b

\* rate_limit and max_tokens of a limiter; a bucket starts full.
FullBucket(limit) == [tokens |-> limit.max_tokens, last_update |-> 0]

Refilled(limit, b, now) ==
  [tokens |-> LesserOf(limit.max_tokens, b.tokens + (now - b.last_update) * limit.rate_limit),
   last_update |-> now]

Consumed(b, n) == [b EXCEPT !.tokens = @ - n]

\* tokens_needed / rate_limit, in whole ticks.
WaitTime(limit, b, n) == (n - b.tokens + limit.rate_limit - 1) \div limit.rate_limit

Oversized(limit, n) == n > limit.max_tokens

\* An iteration of acquire: the bucket it leaves, how long it sleeps, and whether the
\* tokens are its own then.  A request above max_tokens takes them at once and the bucket
\* goes negative; any other tries again.

\* A bug: an oversized request waits without taking its tokens out.
AcquireUncharged(limit, b, n, now) ==
  LET r == Refilled(limit, b, now) IN
  IF Oversized(limit, n)
  THEN [bucket |-> r, sleep |-> WaitTime(limit, r, n), acquired |-> TRUE]
  ELSE IF r.tokens >= n
       THEN [bucket |-> Consumed(r, n), sleep |-> 0, acquired |-> TRUE]
       ELSE [bucket |-> r, sleep |-> WaitTime(limit, r, n), acquired |-> FALSE]

Acquire(limit, b, n, now) ==
  LET r == Refilled(limit, b, now) IN
  IF Oversized(limit, n)
  THEN [bucket |-> Consumed(r, n), sleep |-> WaitTime(limit, r, n), acquired |-> TRUE]
  ELSE IF r.tokens >= n
       THEN [bucket |-> Consumed(r, n), sleep |-> 0, acquired |-> TRUE]
       ELSE [bucket |-> r, sleep |-> WaitTime(limit, r, n), acquired |-> FALSE]
=============================================================================
