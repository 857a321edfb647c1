--------------------------- MODULE MCPartialRollout ---------------------------
\* Instances of PartialRollout: which worker runs which request.
EXTENDS PartialRollout
CONSTANTS r1, r2, w1, w2
TwoWorkers == [r \in Requests |-> IF r = r1 THEN w1 ELSE w2]
=============================================================================
