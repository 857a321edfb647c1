-------------------------- MODULE MCWeightTransfer --------------------------
\* Instances of WeightTransfer: the sizes of the weights.
EXTENDS WeightTransfer
Sizes5 == <<1, 1, 2, 1, 2>>
=============================================================================
