---------------------------- MODULE MCCheckpoint ----------------------------
\* An instance of Checkpoint: the worker groups that save.
EXTENDS Checkpoint
ActorCritic == <<"actor", "critic">>
=============================================================================
