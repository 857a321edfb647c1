------------------------- MODULE MCRateLimitedReward -------------------------
\* An instance of RateLimitedReward: the last request goes to another process than the
\* others.  A tick refills one token.
EXTENDS RateLimitedReward
FourAndOne == [r \in Requests |-> IF r <= 4 THEN "w1" ELSE "w2"]
Rpm == [limit |-> [rate_limit |-> 1, max_tokens |-> 2], cost |-> 1]
\* The estimate is above what the bucket holds, as with the default of 2000 tokens.
Tpm == [limit |-> [rate_limit |-> 1, max_tokens |-> 1], cost |-> 2]
Both == <<Rpm, Tpm>>
=============================================================================
