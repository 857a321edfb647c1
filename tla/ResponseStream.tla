--------------------------- MODULE ResponseStream ---------------------------
(***************************************************************************)
(* What interruptible generation promises the agent loop and the trainer:  *)
(* every response is one stream of tokens that only grows, produced by     *)
(* weights that are never older than the version before the last one       *)
(* published and never go back, and is closed once, with the span of the   *)
(* versions in it.  Aborts, servers and resubmissions are not to be seen.  *)
(***************************************************************************)
EXTENDS Naturals, Sequences

CONSTANTS Requests, Budget, MaxVersion, NoSteps

VARIABLES
  version,   \* last version published
  stream,    \* the version that produced each token
  closed,    \* responses given back
  spans      \* their least and greatest version

vars == <<version, stream, closed, spans>>

Init ==
  /\ version = 0
  /\ stream = [r \in Requests |-> <<>>]
  /\ closed = {}
  /\ spans = [r \in Requests |-> <<NoSteps, NoSteps>>]

Publish ==
  /\ version < MaxVersion /\ version' = version + 1
  /\ UNCHANGED <<stream, closed, spans>>

Grow(r) ==
  /\ r \notin closed /\ Len(stream[r]) < Budget
  /\ \E v \in {version - 1, version} \cap Nat :
       /\ \A i \in DOMAIN stream[r] : stream[r][i] <= v
       /\ stream' = [stream EXCEPT ![r] = Append(@, v)]
  /\ UNCHANGED <<version, closed, spans>>

\* An answer without tokens widens the span, so the span is a bound, not the range.
Close(r) ==
  /\ r \notin closed /\ closed' = closed \cup {r}
  /\ \E lo, hi \in 0 .. version :
       /\ lo <= hi
       /\ \A i \in DOMAIN stream[r] : lo <= stream[r][i] /\ stream[r][i] <= hi
       /\ spans' = [spans EXCEPT ![r] = <<lo, hi>>]
  /\ UNCHANGED <<version, stream>>

Next == Publish \/ \E r \in Requests : Grow(r) \/ Close(r)

Spec == Init /\ [][Next]_vars
=============================================================================
