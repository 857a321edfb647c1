----------------------------- MODULE SampleFlow -----------------------------
(***************************************************************************)
(* What the fully asynchronous pipeline promises about its samples, without *)
(* tasks, queues or locks: a sample is started once, waits among a bounded  *)
(* number of outstanding ones, may get lost there, and is otherwise taken   *)
(* into one batch of the trainer, whose parameter version counts the        *)
(* batches it has trained on.                                               *)
(***************************************************************************)
EXTENDS Naturals, FiniteSets

CONSTANTS
  Samples,
  Budget,        \* how many samples may be outstanding
  BatchSize,     \* samples per training step
  StepsPerVersion

VARIABLES started, outstanding, batch, trained, version
vars == <<started, outstanding, batch, trained, version>>

Init ==
  /\ started = {} /\ outstanding = {} /\ batch = {} /\ trained = {}
  /\ version = 0

Start(s) ==
  /\ s \notin started
  /\ Cardinality(outstanding) < Budget
  /\ started' = started \cup {s}
  /\ outstanding' = outstanding \cup {s}
  /\ UNCHANGED <<batch, trained, version>>

Lose(L) ==
  /\ outstanding' = outstanding \ L
  /\ UNCHANGED <<started, batch, trained, version>>

Take(s) ==
  /\ s \in outstanding /\ Cardinality(batch) < BatchSize
  /\ outstanding' = outstanding \ {s}
  /\ batch' = batch \cup {s}
  /\ UNCHANGED <<started, trained, version>>

TrainBatch ==
  /\ Cardinality(batch) = BatchSize
  /\ trained' = trained \cup batch
  /\ batch' = {}
  /\ version' = Cardinality(trained') \div (BatchSize * StepsPerVersion)
  /\ UNCHANGED <<started, outstanding>>

\* The stream ended within a batch.
DiscardBatch ==
  /\ batch' = {}
  /\ UNCHANGED <<started, outstanding, trained, version>>

Next ==
  \/ \E s \in Samples : Start(s) \/ Take(s)
  \/ \E L \in SUBSET outstanding : Lose(L)
  \/ TrainBatch
  \/ DiscardBatch

Spec == Init /\ [][Next]_vars
=============================================================================
