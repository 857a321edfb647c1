------------------------ MODULE PartialRollout_proofs ------------------------
(***************************************************************************)
(* Interruptible generation implements the stream of ResponseStream, and   *)
(* the balancer's counts are right, for every number of requests, workers, *)
(* servers and weight updates and every length, where aborting pauses the  *)
(* engine (vLLM 0.12).                                                     *)
(***************************************************************************)
EXTENDS PartialRollout, SequenceTheorems, FiniteSetTheorems, TLAPS

Token == [pos : Nat, ver : Nat]
Room == PromptLength + ResponseLength - PromptLen   \* the Budget of the stream

\* The requests of a worker share sampling_params: a limit that one of them has put back
\* may come on top of what another has.
LimitFits == TRUE \in LimitGiven => 2 * InitLimit <= Room + 1

(***************************************************************************)
(* The inductive invariants                                                *)
(***************************************************************************)

TypeInv ==
  /\ SyncTypeOK /\ pc \in [Requests -> Pc] /\ calls \in [Workers -> Seq(Calls)]
  /\ server \in [Requests -> Servers \cup {NoServer}]
  /\ prompted \in [Requests -> Nat] /\ allowed \in [Requests -> Nat]
  /\ chunk \in [Requests -> Seq(Token)] /\ final \in [Requests -> Seq(Token)]
  /\ stamped \in [Requests -> Nat]
  /\ minSteps \in [Requests -> Int] /\ maxSteps \in [Requests -> Int]
  /\ limit \in [Workers -> Int \cup {NoLimit}]
  /\ original \in [Requests -> Int \cup {NoLimit}]

\* Where the replicas are in a phase of update_weights, which engines are paused, and which
\* weights and which stamp a replica has.
Updated == syncPc \in {"idle", "resume"}
SyncInv ==
  /\ syncPc = "idle" \/ version > 0
  /\ \A s \in Servers :
       /\ syncPc = "idle" => stage[s] = "serving"
       /\ syncPc = "abort" => stage[s] \in {"serving", "aborted"}
       /\ syncPc = "drain" => stage[s] \in {"aborted", "drained"}
       /\ syncPc = "transfer" => stage[s] \in {"drained", "loading", "loaded", "stamped"}
       /\ syncPc = "resume" => stage[s] \in {"stamped", "serving"}
       /\ stage[s] # "serving" => engine_paused[s]
       /\ weights[s] = IF Updated \/ stage[s] \in {"loaded", "stamped"}
                       THEN version ELSE version - 1
       /\ global_steps[s] = IF Updated \/ stage[s] = "stamped" THEN version ELSE version - 1

\* The version that tokens are generated from now: the same on all replicas that serve.
Current == IF Updated THEN version ELSE version - 1

\* A request asks for a server once, and waits for it.
Asks(q, r) == {i \in 1 .. Len(q) : q[i] = AcquireCall(r)}
CallInv ==
  \A w \in Workers, r \in Requests :
    /\ \A i \in Asks(calls[w], r) : pc[r] = "acquire" /\ w = WorkerOf[r]
    /\ \A i, j \in Asks(calls[w], r) : i = j

\* The limit in sampling_params, where there is one, and what requests have read of it.
Unlimited == \A w \in Workers : limit[w] = NoLimit
LimitInv ==
  \/ Unlimited
  \/ /\ TRUE \in LimitGiven
     /\ \A w \in Workers : limit[w] \in Int /\ limit[w] <= InitLimit
     /\ \A r \in Requests : original[r] \in Int /\ original[r] <= InitLimit

\* A request: its server, the tokens it has and may still get, ...
AskedInv(r) ==
  /\ pc[r] \in {"submit", "waiting", "running", "answered"} => server[r] \in Servers
  /\ pc[r] = "running" => stage[server[r]] = "serving"
  /\ pc[r] \notin {"running", "answered"} => chunk[r] = <<>>
  /\ pc[r] \in {"waiting", "running", "answered"} => prompted[r] = Len(final[r])
RoomInv(r) ==
  /\ pc[r] \in {"start", "prompt", "acquire", "submit"} =>
       Unlimited \/ Len(final[r]) < InitLimit
  /\ pc[r] \in {"waiting", "running"} => allowed[r] = 0 \/ Len(final[r]) + allowed[r] <= Room
  /\ pc[r] = "running" => allowed[r] = 0 \/ Len(chunk[r]) < allowed[r]

\* ... their positions, ...
PositionInv(r) ==
  /\ \A i \in 1 .. Len(final[r]) : final[r][i].pos = i
  /\ \A i \in 1 .. Len(chunk[r]) : chunk[r][i].pos = Len(final[r]) + i

\* ... and the versions they come from.
SpanInv(r) ==
  /\ \/ minSteps[r] = NoSteps /\ maxSteps[r] = NoSteps /\ final[r] = <<>>
     \/ 0 <= minSteps[r] /\ minSteps[r] <= maxSteps[r]
  /\ maxSteps[r] <= Current
  /\ \A i \in 1 .. Len(final[r]) :
       minSteps[r] <= final[r][i].ver /\ final[r][i].ver <= maxSteps[r]
  /\ pc[r] = "running" => \A i \in 1 .. Len(chunk[r]) : chunk[r][i].ver = Current
  /\ pc[r] = "answered" =>
       /\ stamped[r] <= Current /\ maxSteps[r] <= stamped[r]
       /\ \A i \in 1 .. Len(chunk[r]) : chunk[r][i].ver = stamped[r]

RequestInv == \A r \in Requests : AskedInv(r) /\ RoomInv(r) /\ PositionInv(r) /\ SpanInv(r)

-----------------------------------------------------------------------------
\* The weight update.

SyncNext ==
  \/ UpdateWeights \/ NextPhase
  \/ \E s \in Servers : AbortReplica(s) \/ DrainReplica(s) \/ LoadBegins(s) \/ LoadEnds(s)
                        \/ Stamp(s) \/ ResumeReplica(s)

\* Every step of the whole is one of update_weights or leaves it alone.
LEMMA SyncSteps == ASSUME [Next]_vars PROVE SyncNext \/ UNCHANGED syncVars
<1>1. CASE Next
  BY <1>1 DEF Next, SyncNext, Start, Enter, Acquired, Submit, Admit, Generate, MergeAndContinue,
              MergeAndReturn, MergeState, Released, Abort, Drain, Sync
<1>2. CASE UNCHANGED vars
  BY <1>2 DEF vars
<1> QED
  BY <1>1, <1>2

\* Every step of update_weights keeps its types, ...
LEMMA SyncTypes == ASSUME SyncTypeOK, SyncNext PROVE SyncTypeOK'
<1> USE DEF SyncTypeOK, SyncPc, Stage
<1>1. CASE UpdateWeights
  BY <1>1 DEF UpdateWeights
<1>2. CASE NextPhase
  BY <1>2 DEF NextPhase, PhaseEnds
<1>3. ASSUME NEW s \in Servers, AbortReplica(s) PROVE SyncTypeOK'
  <2>1. engine_paused' \in [Servers -> BOOLEAN]
    BY <1>3, SyncAssumption DEF AbortReplica
  <2> QED
    BY <1>3, <2>1 DEF AbortReplica, Advance
<1>4. ASSUME NEW s \in Servers,
             DrainReplica(s) \/ LoadBegins(s) \/ LoadEnds(s) \/ Stamp(s) \/ ResumeReplica(s)
      PROVE  SyncTypeOK'
  BY <1>4 DEF DrainReplica, LoadBegins, LoadEnds, Stamp, ResumeReplica, Advance
<1> QED
  BY <1>1, <1>2, <1>3, <1>4 DEF SyncNext

\* ... and the phases their meaning, if aborting pauses.
LEMMA SyncKept == ASSUME EnginePauses = TRUE, SyncTypeOK, SyncInv, SyncNext PROVE SyncInv'
<1> USE DEF SyncTypeOK, SyncInv, Updated
<1>1. CASE UpdateWeights
  BY <1>1 DEF UpdateWeights
<1>2. CASE NextPhase
  <2>1. CASE PhaseEnds("abort", "aborted", "drain")
    BY <2>1 DEF PhaseEnds
  <2>2. CASE PhaseEnds("drain", "drained", "transfer")
    BY <2>2 DEF PhaseEnds
  <2>3. CASE PhaseEnds("transfer", "stamped", "resume")
    BY <2>3 DEF PhaseEnds
  <2>4. CASE PhaseEnds("resume", "serving", "idle")
    BY <2>4 DEF PhaseEnds
  <2> QED
    BY <1>2, <2>1, <2>2, <2>3, <2>4 DEF NextPhase
<1>3. ASSUME NEW s \in Servers, AbortReplica(s) PROVE SyncInv'
  BY <1>3 DEF AbortReplica, Advance
<1>4. ASSUME NEW s \in Servers, DrainReplica(s) PROVE SyncInv'
  BY <1>4 DEF DrainReplica, Advance
<1>5. ASSUME NEW s \in Servers, LoadBegins(s) PROVE SyncInv'
  BY <1>5 DEF LoadBegins, Advance
<1>6. ASSUME NEW s \in Servers, LoadEnds(s) PROVE SyncInv'
  BY <1>6 DEF LoadEnds, Advance
<1>7. ASSUME NEW s \in Servers, Stamp(s) PROVE SyncInv'
  BY <1>7 DEF Stamp, Advance
<1>8. ASSUME NEW s \in Servers, ResumeReplica(s) PROVE SyncInv'
  BY <1>8 DEF ResumeReplica, Advance
<1> QED
  BY <1>1, <1>2, <1>3, <1>4, <1>5, <1>6, <1>7, <1>8 DEF SyncNext

\* The version tokens are generated from never goes back, and changes only when no replica
\* serves.
LEMMA CurrentGrows ==
  ASSUME SyncTypeOK, SyncInv, SyncNext \/ UNCHANGED syncVars
  PROVE  /\ Current \in Int /\ Current' \in Int /\ Current <= Current'
         /\ Current = Current' \/ \A s \in Servers : stage[s] # "serving"
         /\ Current <= version /\ Current \in Nat
<1> USE DEF SyncTypeOK, SyncInv, Updated, Current
<1>1. Current \in Nat /\ Current <= version
  OBVIOUS
<1>2. CASE UNCHANGED syncVars
  BY <1>2 DEF syncVars
<1>3. CASE UpdateWeights
  BY <1>3 DEF UpdateWeights
<1>4. CASE NextPhase
  BY <1>4 DEF NextPhase, PhaseEnds
<1>5. ASSUME NEW s \in Servers,
             AbortReplica(s) \/ DrainReplica(s) \/ LoadBegins(s) \/ LoadEnds(s) \/ Stamp(s)
               \/ ResumeReplica(s)
      PROVE  UNCHANGED <<syncPc, version>>
  BY <1>5 DEF AbortReplica, DrainReplica, LoadBegins, LoadEnds, Stamp, ResumeReplica
<1> QED
  BY <1>1, <1>2, <1>3, <1>4, <1>5 DEF SyncNext

-----------------------------------------------------------------------------
\* The calls to the load balancer.

\* Kinds of calls and their arguments.
LEMMA CallKinds ==
  /\ \A r, q \in Requests : AcquireCall(r) = AcquireCall(q) => r = q
  /\ \A r \in Requests, s \in Servers : AcquireCall(r) # ReleaseCall(s)
  /\ \A r \in Requests : AcquireCall(r) \in Calls
  /\ \A s \in Servers : ReleaseCall(s) \in Calls
<1>1. ASSUME NEW r \in Requests, NEW q \in Requests, AcquireCall(r) = AcquireCall(q)
      PROVE  r = q
  <2>1. AcquireCall(r).request = AcquireCall(q).request
    BY <1>1
  <2> QED
    BY <2>1 DEF AcquireCall
<1>2. ASSUME NEW r \in Requests, NEW s \in Servers, AcquireCall(r) = ReleaseCall(s)
      PROVE  FALSE
  <2>1. AcquireCall(r).op = ReleaseCall(s).op
    BY <1>2
  <2> QED
    BY <2>1 DEF AcquireCall, ReleaseCall
<1> QED
  BY <1>1, <1>2 DEF Calls

\* One more call.
LEMMA AsksAppended ==
  ASSUME NEW q \in Seq(Calls), NEW c \in Calls, NEW r \in Requests
  PROVE  /\ Append(q, c) \in Seq(Calls)
         /\ Asks(Append(q, c), r) =
              IF c = AcquireCall(r) THEN Asks(q, r) \cup {Len(q) + 1} ELSE Asks(q, r)
<1>1. /\ Append(q, c) \in Seq(Calls) /\ Len(Append(q, c)) = Len(q) + 1
      /\ Append(q, c)[Len(q) + 1] = c /\ Len(q) \in Nat
  OBVIOUS
<1>2. \A i \in 1 .. Len(q) : Append(q, c)[i] = q[i]
  OBVIOUS
<1>3. 1 .. Len(q) + 1 = (1 .. Len(q)) \cup {Len(q) + 1}
  BY <1>1
<1>4. CASE c = AcquireCall(r)
  BY <1>1, <1>2, <1>3, <1>4 DEF Asks
<1>5. CASE c # AcquireCall(r)
  BY <1>1, <1>2, <1>3, <1>5 DEF Asks
<1> QED
  BY <1>1, <1>4, <1>5

\* The first call taken.
LEMMA AsksTaken ==
  ASSUME NEW q \in Seq(Calls), q # <<>>, NEW r \in Requests
  PROVE  /\ Tail(q) \in Seq(Calls)
         /\ \A i \in Asks(Tail(q), r) : i + 1 \in Asks(q, r)
         /\ Head(q) = AcquireCall(r) => 1 \in Asks(q, r)
<1>1. /\ Tail(q) \in Seq(Calls) /\ Len(Tail(q)) = Len(q) - 1 /\ Len(q) \in Nat \ {0}
      /\ Head(q) = q[1]
  OBVIOUS
<1>2. \A i \in 1 .. Len(q) - 1 : Tail(q)[i] = q[i + 1] /\ i + 1 \in 1 .. Len(q)
  OBVIOUS
<1> QED
  BY <1>1, <1>2 DEF Asks

\* Two calls at once are one after the other.
LEMMA TwoCalls ==
  ASSUME NEW q \in Seq(Calls), NEW b \in Calls, NEW c \in Calls
  PROVE  q \o <<b, c>> = Append(Append(q, b), c)
OBVIOUS

\* What a worker asks for after it has sent a call, or a release and a call.
LEMMA SentAsks ==
  ASSUME TypeInv, NEW w \in Workers, NEW c \in Calls, NEW s \in Servers,
         \/ Sent(w, c)
         \/ calls' = [calls EXCEPT ![w] = calls[w] \o <<ReleaseCall(s), c>>]
  PROVE  /\ calls' \in [Workers -> Seq(Calls)]
         /\ \E n \in Nat : \A v \in Workers, q \in Requests :
              Asks(calls'[v], q) = IF v = w /\ c = AcquireCall(q)
                                   THEN Asks(calls[v], q) \cup {n} ELSE Asks(calls[v], q)
<1>1. calls \in [Workers -> Seq(Calls)] /\ calls[w] \in Seq(Calls)
  BY DEF TypeInv
<1>2. CASE Sent(w, c)
  <2>1. calls' = [calls EXCEPT ![w] = Append(calls[w], c)]
    BY <1>2 DEF Sent
  <2>2. Append(calls[w], c) \in Seq(Calls) /\ Len(calls[w]) + 1 \in Nat
    BY <1>1
  <2>3. calls' \in [Workers -> Seq(Calls)]
    BY <1>1, <2>1, <2>2
  <2>4. \A v \in Workers, q \in Requests :
          Asks(calls'[v], q) = IF v = w /\ c = AcquireCall(q)
                               THEN Asks(calls[v], q) \cup {Len(calls[w]) + 1}
                               ELSE Asks(calls[v], q)
    <3> SUFFICES ASSUME NEW v \in Workers, NEW q \in Requests
                 PROVE  Asks(calls'[v], q) = IF v = w /\ c = AcquireCall(q)
                                             THEN Asks(calls[v], q) \cup {Len(calls[w]) + 1}
                                             ELSE Asks(calls[v], q)
      OBVIOUS
    <3>1. calls'[v] = IF v = w THEN Append(calls[w], c) ELSE calls[v]
      BY <1>1, <2>1
    <3>2. Asks(Append(calls[w], c), q) = IF c = AcquireCall(q)
                                         THEN Asks(calls[w], q) \cup {Len(calls[w]) + 1}
                                         ELSE Asks(calls[w], q)
      BY <1>1, AsksAppended
    <3> QED
      BY <3>1, <3>2
  <2> QED
    BY <2>2, <2>3, <2>4
<1>3. CASE calls' = [calls EXCEPT ![w] = calls[w] \o <<ReleaseCall(s), c>>]
  <2> DEFINE b == ReleaseCall(s)
             one == Append(calls[w], b)
  <2>1. b \in Calls /\ \A q \in Requests : b # AcquireCall(q)
    BY CallKinds
  <2>2. one \in Seq(Calls) /\ \A q \in Requests : Asks(one, q) = Asks(calls[w], q)
    BY <1>1, <2>1, AsksAppended
  <2>3. calls' = [calls EXCEPT ![w] = Append(one, c)]
    BY <1>1, <1>3, <2>1, TwoCalls
  <2> HIDE DEF one
  <2>4. Append(one, c) \in Seq(Calls) /\ Len(one) + 1 \in Nat
    BY <2>2
  <2>5. calls' \in [Workers -> Seq(Calls)]
    BY <1>1, <2>3, <2>4
  <2>6. \A q \in Requests :
          Asks(Append(one, c), q) = IF c = AcquireCall(q)
                                    THEN Asks(calls[w], q) \cup {Len(one) + 1}
                                    ELSE Asks(calls[w], q)
    BY <2>2, AsksAppended
  <2>7. \A v \in Workers, q \in Requests :
          Asks(calls'[v], q) = IF v = w /\ c = AcquireCall(q)
                               THEN Asks(calls[v], q) \cup {Len(one) + 1}
                               ELSE Asks(calls[v], q)
    BY <1>1, <2>3, <2>6
  <2> QED
    BY <2>4, <2>5, <2>7
<1> QED
  BY <1>2, <1>3

\* A call for no server leaves the askers alone; a request that has not asked may ask.
LEMMA CallSent ==
  ASSUME TypeInv, CallInv, NEW w \in Workers, NEW c \in Calls, NEW r \in Requests, NEW n \in Nat,
         \A v \in Workers, q \in Requests :
           Asks(calls'[v], q) = IF v = w /\ c = AcquireCall(q)
                                THEN Asks(calls[v], q) \cup {n} ELSE Asks(calls[v], q),
         pc[r] # "acquire",
         \/ pc' = [pc EXCEPT ![r] = "done"] /\ \A q \in Requests : c # AcquireCall(q)
         \/ c = AcquireCall(r) /\ w = WorkerOf[r] /\ pc' = [pc EXCEPT ![r] = "acquire"]
  PROVE  CallInv'
<1>1. pc \in [Requests -> Pc]
  BY DEF TypeInv
<1>2. \A q \in Requests : pc[q] = "acquire" => pc'[q] = "acquire"
  BY <1>1
<1> SUFFICES ASSUME NEW v \in Workers, NEW q \in Requests
             PROVE  /\ \A i \in Asks(calls'[v], q) : pc'[q] = "acquire" /\ v = WorkerOf[q]
                    /\ \A i, j \in Asks(calls'[v], q) : i = j
  BY DEF CallInv, Asks
<1>3. CASE v = w /\ c = AcquireCall(q)
  <2>1. w = WorkerOf[q] /\ pc[q] # "acquire" /\ pc'[q] = "acquire"
    BY <1>1, <1>3, CallKinds
  <2>2. Asks(calls[w], q) = {}
    BY <2>1 DEF CallInv
  <2>3. Asks(calls'[v], q) = {n}
    BY <1>3, <2>2
  <2> QED
    BY <1>3, <2>1, <2>3
<1>4. CASE ~(v = w /\ c = AcquireCall(q))
  <2>1. Asks(calls'[v], q) = Asks(calls[v], q)
    BY <1>4
  <2> QED
    BY <1>2, <2>1 DEF CallInv
<1> QED
  BY <1>3, <1>4

\* Other steps of requests leave the calls and who waits for an answer alone.
LEMMA CallsKept ==
  ASSUME CallInv, UNCHANGED calls,
         \A q \in Requests : pc[q] = "acquire" => pc'[q] = "acquire"
  PROVE  CallInv'
BY DEF CallInv, Asks

\* A call answered; that of a request to acquire lets it go on.
LEMMA CallAnswered ==
  ASSUME TypeInv, CallInv, NEW w \in Workers, NEW c \in Calls, Received(w, c),
         \/ pc' = pc /\ \A r \in Requests : c # AcquireCall(r)
         \/ \E r \in Requests :
              c = AcquireCall(r) /\ w = WorkerOf[r] /\ pc' = [pc EXCEPT ![r] = "submit"]
  PROVE  /\ CallInv' /\ calls' \in [Workers -> Seq(Calls)]
         /\ \A r \in Requests : c = AcquireCall(r) => pc[r] = "acquire"
<1>1. /\ calls \in [Workers -> Seq(Calls)] /\ calls[w] \in Seq(Calls) /\ calls[w] # <<>>
      /\ Head(calls[w]) = c
      /\ calls' = [calls EXCEPT ![w] = Tail(calls[w])] /\ pc \in [Requests -> Pc]
  BY DEF TypeInv, Received
<1>2. Tail(calls[w]) \in Seq(Calls)
  BY <1>1
<1>3. calls' \in [Workers -> Seq(Calls)]
  BY <1>1, <1>2
<1>4. \A v \in Workers : calls'[v] = IF v = w THEN Tail(calls[w]) ELSE calls[v]
  BY <1>1
<1>5. \A r \in Requests : c = AcquireCall(r) => pc[r] = "acquire"
  BY <1>1, AsksTaken DEF CallInv
<1>6. \A q \in Requests : c = AcquireCall(q) \/ pc'[q] = pc[q]
  BY <1>1
<1>7. ASSUME NEW v \in Workers, NEW q \in Requests
      PROVE  /\ \A i \in Asks(calls'[v], q) : pc'[q] = "acquire" /\ v = WorkerOf[q]
             /\ \A i, j \in Asks(calls'[v], q) : i = j
  <2>1. CASE v = w
    <3>1. \A i \in Asks(calls'[v], q) : i + 1 \in Asks(calls[v], q) /\ i \in Nat /\ i >= 1
      BY <1>1, <1>4, <2>1, AsksTaken DEF Asks
    <3>2. \A i, j \in Asks(calls'[v], q) : i = j
      BY <3>1 DEF CallInv
    <3>3. c = AcquireCall(q) => Asks(calls'[v], q) = {}
      <4> SUFFICES ASSUME c = AcquireCall(q), NEW i \in Asks(calls'[v], q) PROVE FALSE
        OBVIOUS
      <4>1. 1 \in Asks(calls[v], q)
        BY <1>1, <2>1, AsksTaken
      <4>2. i + 1 \in Asks(calls[v], q)
        BY <3>1
      <4>3. i + 1 = 1
        BY <4>1, <4>2 DEF CallInv
      <4> QED
        BY <3>1, <4>3
    <3> QED
      BY <1>6, <3>1, <3>2, <3>3 DEF CallInv
  <2>2. CASE v # w
    <3>1. calls'[v] = calls[v]
      BY <1>4, <2>2
    <3>2. c = AcquireCall(q) => Asks(calls[v], q) = {}
      <4> SUFFICES ASSUME c = AcquireCall(q), NEW i \in Asks(calls[v], q) PROVE FALSE
        OBVIOUS
      <4>1. 1 \in Asks(calls[w], q)
        BY <1>1, AsksTaken
      <4> QED
        BY <2>2, <4>1 DEF CallInv
    <3> QED
      BY <1>6, <3>1, <3>2 DEF CallInv
  <2> QED
    BY <2>1, <2>2
<1> QED
  BY <1>3, <1>5, <1>7 DEF CallInv, Asks

-----------------------------------------------------------------------------
\* Steps of requests: types.

\* What merging makes of the limit of a worker.
LEMMA MergedLimit ==
  ASSUME TypeInv, LimitInv, NEW r \in Requests, limit' = LimitAfter(r), UNCHANGED original
  PROVE  /\ limit' \in [Workers -> Int \cup {NoLimit}] /\ LimitInv'
         /\ Unlimited => Unlimited'
<1>1. WorkerOf[r] \in Workers /\ NoLimit \notin Int /\ InitLimit \in Nat
  BY BalancerAssumption, LengthsAssumption
<1>2. limit \in [Workers -> Int \cup {NoLimit}] /\ Merged(r) \in Seq(Token)
  BY DEF TypeInv, Merged
<1>3. CASE Unlimited
  <2>1. limit' = limit
    BY <1>1, <1>3 DEF LimitAfter, Limited, Unlimited
  <2> QED
    BY <1>2, <1>3, <2>1 DEF LimitInv, Unlimited
<1>4. CASE ~Unlimited
  <2>1. /\ TRUE \in LimitGiven
        /\ \A w \in Workers : limit[w] \in Int /\ limit[w] <= InitLimit
        /\ \A q \in Requests : original[q] \in Int /\ original[q] <= InitLimit
    BY <1>4 DEF LimitInv
  <2> DEFINE m == original[r] - Len(Merged(r))
  <2>2. Len(Merged(r)) \in Nat
    BY <1>2
  <2>3. m \in Int /\ m <= InitLimit
    BY <1>1, <2>1, <2>2
  <2>4. limit' = [limit EXCEPT ![WorkerOf[r]] = m]
    BY <1>1, <2>1 DEF LimitAfter, Limited
  <2> HIDE DEF m
  <2>5. limit' \in [Workers -> Int \cup {NoLimit}]
    BY <1>1, <1>2, <2>3, <2>4
  <2>6. \A w \in Workers : limit'[w] \in Int /\ limit'[w] <= InitLimit
    BY <1>1, <1>2, <2>1, <2>3, <2>4
  <2> QED
    BY <1>4, <2>1, <2>5, <2>6 DEF LimitInv
<1> QED
  BY <1>3, <1>4

\* Every step keeps the limit.
LEMMA LimitStep ==
  ASSUME TypeInv, LimitInv, [Next]_vars
  PROVE  LimitInv' /\ (Unlimited => Unlimited') /\ limit' \in [Workers -> Int \cup {NoLimit}]
<1>1. ASSUME NEW r \in Requests, Enter(r)
      PROVE  LimitInv' /\ (Unlimited => Unlimited') /\ limit' \in [Workers -> Int \cup {NoLimit}]
  <2>1. UNCHANGED limit /\ original' = [original EXCEPT ![r] = limit[WorkerOf[r]]]
    BY <1>1 DEF Enter, Set
  <2>2. WorkerOf[r] \in Workers
    BY BalancerAssumption
  <2>3. \A q \in Requests : original'[q] = IF q = r THEN limit[WorkerOf[r]] ELSE original[q]
    BY <2>1 DEF TypeInv
  <2> QED
    BY <2>1, <2>2, <2>3 DEF LimitInv, Unlimited, TypeInv
<1>2. ASSUME NEW r \in Requests, MergeAndContinue(r) \/ MergeAndReturn(r)
      PROVE  LimitInv' /\ (Unlimited => Unlimited') /\ limit' \in [Workers -> Int \cup {NoLimit}]
  <2>1. limit' = LimitAfter(r) /\ UNCHANGED original
    BY <1>2 DEF MergeAndContinue, MergeAndReturn, MergeState
  <2> QED
    BY <2>1, MergedLimit
<1>3. CASE UNCHANGED <<limit, original>>
  BY <1>3 DEF LimitInv, Unlimited, TypeInv
<1>4. \/ \E r \in Requests : Enter(r) \/ MergeAndContinue(r) \/ MergeAndReturn(r)
      \/ UNCHANGED <<limit, original>>
  <2>1. CASE Next
    BY <2>1 DEF Next, Start, Acquired, Submit, Admit, Generate, Released, Abort, Drain, Sync,
                requestVars
  <2>2. CASE UNCHANGED vars
    BY <2>2 DEF vars, requestVars
  <2> QED
    BY <2>1, <2>2
<1> QED
  BY <1>1, <1>2, <1>3, <1>4

\* The budget of a call is a natural number.
LEMMA BudgetType ==
  ASSUME TypeInv, NEW r \in Requests, NEW n \in Nat
  PROVE  MaxTokens(r, n) \in Nat
<1> DEFINE m == IF Limited(r) THEN limit[WorkerOf[r]]
                ELSE Minimum(ResponseLength, PromptLength + ResponseLength - n)
<1>1. m \in Int
  BY BalancerAssumption, LengthsAssumption DEF TypeInv, Limited, Minimum
<1>2. MaxTokens(r, n) = ClampTokens(m, n) /\ MaxModelLen - n \in Int
  BY LengthsAssumption DEF MaxTokens
<1> HIDE DEF m
<1> QED
  BY <1>1, <1>2 DEF ClampTokens, Minimum

\* Every step keeps the types.
LEMMA TypeStep ==
  ASSUME TypeInv, CallInv, LimitInv, RequestInv, SyncInv, [Next]_vars
  PROVE  TypeInv'
<1>1. SyncTypeOK'
  <2>1. CASE SyncNext
    BY <2>1, SyncTypes DEF TypeInv
  <2>2. CASE UNCHANGED syncVars
    BY <2>2 DEF TypeInv, SyncTypeOK, syncVars
  <2> QED
    BY <2>1, <2>2, SyncSteps
<1>2. limit' \in [Workers -> Int \cup {NoLimit}]
  BY LimitStep
<1> USE <1>1, <1>2 DEF Set, Goto, Pc
<1>3. ASSUME NEW r \in Requests, Start(r) PROVE TypeInv'
  BY <1>3 DEF Start, balancerVars, TypeInv
<1>4. ASSUME NEW r \in Requests, Enter(r) PROVE TypeInv'
  <2>1. WorkerOf[r] \in Workers /\ AcquireCall(r) \in Calls
    BY BalancerAssumption, CallKinds
  <2>2. calls' \in [Workers -> Seq(Calls)]
    <3>1. 1 \in Servers
      BY BalancerAssumption DEF Servers
    <3> QED
      BY <1>4, <2>1, <3>1, SentAsks DEF Enter
  <2> QED
    BY <1>4, <2>1, <2>2 DEF Enter, TypeInv
<1>5. ASSUME NEW r \in Requests, Acquired(r) PROVE TypeInv'
  <2>1. /\ Received(WorkerOf[r], AcquireCall(r)) /\ WorkerOf[r] \in Workers
        /\ AcquireCall(r) \in Calls /\ pc' = [pc EXCEPT ![r] = "submit"]
    BY <1>5, BalancerAssumption, CallKinds DEF Acquired
  <2>2. calls' \in [Workers -> Seq(Calls)]
    BY <2>1, CallAnswered
  <2> QED
    BY <1>5, <2>2 DEF Acquired, TypeInv
<1>6. ASSUME NEW r \in Requests, Submit(r) PROVE TypeInv'
  <2>1. Len(final[r]) \in Nat /\ PromptLen + Len(final[r]) \in Nat
    BY LengthsAssumption DEF TypeInv
  <2>2. MaxTokens(r, PromptLen + Len(final[r])) \in Nat
    BY <2>1, BudgetType
  <2>3. <<>> \in Seq(Token)
    OBVIOUS
  <2>4. /\ prompted' = [prompted EXCEPT ![r] = Len(final[r])]
        /\ allowed' = [allowed EXCEPT ![r] = MaxTokens(r, PromptLen + Len(final[r]))]
        /\ chunk' = [chunk EXCEPT ![r] = <<>>] /\ pc' = [pc EXCEPT ![r] = "waiting"]
        /\ UNCHANGED <<calls, server, stamped, final, minSteps, maxSteps, limit, original>>
    BY <1>6 DEF Submit, balancerVars
  <2>5. /\ prompted' \in [Requests -> Nat] /\ allowed' \in [Requests -> Nat]
        /\ chunk' \in [Requests -> Seq(Token)] /\ pc' \in [Requests -> Pc]
    BY <2>1, <2>2, <2>3, <2>4 DEF TypeInv
  <2> QED
    BY <2>4, <2>5 DEF TypeInv
<1>7. ASSUME NEW r \in Requests, Admit(r) PROVE TypeInv'
  BY <1>7 DEF Admit, balancerVars, TypeInv
<1>8. ASSUME NEW r \in Requests, Generate(r) PROVE TypeInv'
  <2>1. server[r] \in Servers
    BY <1>8 DEF Generate, RequestInv, AskedInv
  <2>2. NextToken(r) \in Token
    BY <2>1 DEF NextToken, Token, TypeInv, SyncTypeOK
  <2>3. Append(chunk[r], NextToken(r)) \in Seq(Token)
    BY <2>2 DEF TypeInv
  <2>4. global_steps[server[r]] \in Nat
    BY <2>1 DEF TypeInv, SyncTypeOK
  <2>5. /\ chunk' = [chunk EXCEPT ![r] = Append(chunk[r], NextToken(r))]
        /\ pc' = pc \/ pc' = [pc EXCEPT ![r] = "answered"]
        /\ stamped' = stamped \/ stamped' = [stamped EXCEPT ![r] = global_steps[server[r]]]
        /\ UNCHANGED <<calls, server, prompted, allowed, final, minSteps, maxSteps, limit, original>>
    BY <1>8 DEF Generate, balancerVars
  <2>6. /\ chunk' \in [Requests -> Seq(Token)] /\ pc' \in [Requests -> Pc]
        /\ stamped' \in [Requests -> Nat]
    BY <2>3, <2>4, <2>5 DEF TypeInv
  <2> QED
    BY <2>5, <2>6 DEF TypeInv
<1>9. ASSUME NEW r \in Requests, MergeAndContinue(r) \/ MergeAndReturn(r) PROVE TypeInv'
  <2>1. Merged(r) \in Seq(Token) /\ <<>> \in Seq(Token)
    BY DEF TypeInv, Merged
  <2>2. /\ final' = [final EXCEPT ![r] = Merged(r)] /\ chunk' = [chunk EXCEPT ![r] = <<>>]
        /\ server' = [server EXCEPT ![r] = NoServer]
        /\ minSteps' = [minSteps EXCEPT ![r] = IF minSteps[r] = NoSteps THEN stamped[r] ELSE minSteps[r]]
        /\ maxSteps' = [maxSteps EXCEPT ![r] = stamped[r]]
        /\ UNCHANGED <<original, prompted, allowed, stamped>>
    BY <1>9 DEF MergeAndContinue, MergeAndReturn, MergeState
  <2>3. pc' = [pc EXCEPT ![r] = "acquire"] \/ pc' = [pc EXCEPT ![r] = "done"]
    BY <1>9 DEF MergeAndContinue, MergeAndReturn
  <2>4. /\ final' \in [Requests -> Seq(Token)] /\ chunk' \in [Requests -> Seq(Token)]
        /\ server' \in [Requests -> Servers \cup {NoServer}] /\ pc' \in [Requests -> Pc]
    BY <2>1, <2>2, <2>3 DEF TypeInv
  <2>5. minSteps' \in [Requests -> Int] /\ maxSteps' \in [Requests -> Int]
    <3>1. stamped[r] \in Int /\ minSteps[r] \in Int
      BY DEF TypeInv
    <3> QED
      BY <2>2, <3>1 DEF TypeInv
  <2>6. calls' \in [Workers -> Seq(Calls)]
    <3>1. pc[r] = "answered" /\ WorkerOf[r] \in Workers
      BY <1>9, BalancerAssumption DEF MergeAndContinue, MergeAndReturn
    <3>2. server[r] \in Servers \cup {NoServer}
      BY DEF TypeInv
    <3>3. server[r] \in Servers
      BY <3>1 DEF RequestInv, AskedInv
    <3>4. ReleaseCall(server[r]) \in Calls /\ AcquireCall(r) \in Calls
      BY <3>3, CallKinds
    <3>5. \/ calls' = [calls EXCEPT ![WorkerOf[r]] =
                        calls[WorkerOf[r]] \o <<ReleaseCall(server[r]), AcquireCall(r)>>]
          \/ Sent(WorkerOf[r], ReleaseCall(server[r]))
      BY <1>9 DEF MergeAndContinue, MergeAndReturn
    <3> QED
      BY <3>1, <3>3, <3>4, <3>5, SentAsks
  <2> QED
    BY <2>2, <2>4, <2>5, <2>6 DEF TypeInv
<1>10. ASSUME NEW w \in Workers, Released(w) PROVE TypeInv'
  <2> PICK s \in Servers : Received(w, ReleaseCall(s))
    BY <1>10 DEF Released
  <2>1. /\ ReleaseCall(s) \in Calls /\ pc' = pc
        /\ \A r \in Requests : ReleaseCall(s) # AcquireCall(r)
    BY <1>10, CallKinds DEF Released, requestVars
  <2>2. calls' \in [Workers -> Seq(Calls)]
    BY <2>1, CallAnswered
  <2> QED
    BY <1>10, <2>2 DEF Released, requestVars, TypeInv
<1>11. ASSUME NEW s \in Servers, Abort(s) PROVE TypeInv'
  <2>1. global_steps[s] \in Nat
    BY DEF TypeInv, SyncTypeOK
  <2> QED
    BY <1>11, <2>1 DEF Abort, balancerVars, TypeInv
<1>12. CASE UNCHANGED <<balancerVars, requestVars>>
  BY <1>12 DEF balancerVars, requestVars, TypeInv
<1>13. CASE Sync \/ (\E s \in Servers : Drain(s)) \/ UNCHANGED vars
  BY <1>12, <1>13 DEF Sync, Drain, vars
<1> QED
  BY <1>3, <1>4, <1>5, <1>6, <1>7, <1>8, <1>9, <1>10, <1>11, <1>13 DEF Next

-----------------------------------------------------------------------------
\* Steps of requests: the invariants.

\* Every step keeps the calls in order.
LEMMA CallStep ==
  ASSUME TypeInv, CallInv, RequestInv, [Next]_vars
  PROVE  CallInv'
<1> USE DEF Set, Goto
<1>1. ASSUME NEW r \in Requests, Enter(r) PROVE CallInv'
  <2>1. /\ WorkerOf[r] \in Workers /\ AcquireCall(r) \in Calls /\ 1 \in Servers
        /\ Sent(WorkerOf[r], AcquireCall(r))
        /\ pc[r] # "acquire" /\ pc' = [pc EXCEPT ![r] = "acquire"]
    BY <1>1, BalancerAssumption, CallKinds DEF Enter, Servers
  <2> DEFINE u == WorkerOf[r]
             c == AcquireCall(r)
  <2>2. PICK n \in Nat : \A v \in Workers, q \in Requests :
          Asks(calls'[v], q) = IF v = u /\ c = AcquireCall(q)
                               THEN Asks(calls[v], q) \cup {n} ELSE Asks(calls[v], q)
    BY <2>1, SentAsks
  <2> QED
    BY <2>1, <2>2, CallSent
<1>2. ASSUME NEW r \in Requests, Acquired(r) PROVE CallInv'
  <2>1. /\ Received(WorkerOf[r], AcquireCall(r)) /\ WorkerOf[r] \in Workers
        /\ AcquireCall(r) \in Calls /\ pc' = [pc EXCEPT ![r] = "submit"]
    BY <1>2, BalancerAssumption, CallKinds DEF Acquired
  <2> QED
    BY <2>1, CallAnswered
<1>3. ASSUME NEW r \in Requests, MergeAndContinue(r) \/ MergeAndReturn(r) PROVE CallInv'
  <2>1. pc[r] = "answered" /\ WorkerOf[r] \in Workers
    BY <1>3, BalancerAssumption DEF MergeAndContinue, MergeAndReturn
  <2>2. server[r] \in Servers
    BY <2>1 DEF RequestInv, AskedInv
  <2>3. /\ ReleaseCall(server[r]) \in Calls /\ AcquireCall(r) \in Calls
        /\ \A q \in Requests : ReleaseCall(server[r]) # AcquireCall(q)
    BY <2>2, CallKinds
  <2>4. CASE MergeAndContinue(r)
    <3>1. /\ calls' = [calls EXCEPT ![WorkerOf[r]] =
                        calls[WorkerOf[r]] \o <<ReleaseCall(server[r]), AcquireCall(r)>>]
          /\ pc' = [pc EXCEPT ![r] = "acquire"]
      BY <2>4 DEF MergeAndContinue
    <3> DEFINE u == WorkerOf[r]
               c == AcquireCall(r)
    <3>2. PICK n \in Nat : \A v \in Workers, q \in Requests :
            Asks(calls'[v], q) = IF v = u /\ c = AcquireCall(q)
                                 THEN Asks(calls[v], q) \cup {n} ELSE Asks(calls[v], q)
      BY <2>1, <2>2, <2>3, <3>1, SentAsks
    <3> QED
      BY <2>1, <2>3, <3>1, <3>2, CallSent
  <2>5. CASE MergeAndReturn(r)
    <3>1. Sent(WorkerOf[r], ReleaseCall(server[r])) /\ pc' = [pc EXCEPT ![r] = "done"]
      BY <2>5 DEF MergeAndReturn
    <3> DEFINE u == WorkerOf[r]
               c == ReleaseCall(server[r])
    <3>2. PICK n \in Nat : \A v \in Workers, q \in Requests :
            Asks(calls'[v], q) = IF v = u /\ c = AcquireCall(q)
                                 THEN Asks(calls[v], q) \cup {n} ELSE Asks(calls[v], q)
      BY <2>1, <2>2, <2>3, <3>1, SentAsks
    <3> QED
      BY <2>1, <2>3, <3>1, <3>2, CallSent
  <2> QED
    BY <1>3, <2>4, <2>5
<1>4. ASSUME NEW w \in Workers, Released(w) PROVE CallInv'
  <2> PICK s \in Servers : Received(w, ReleaseCall(s))
    BY <1>4 DEF Released
  <2>1. /\ ReleaseCall(s) \in Calls /\ pc' = pc
        /\ \A r \in Requests : ReleaseCall(s) # AcquireCall(r)
    BY <1>4, CallKinds DEF Released, requestVars
  <2> QED
    BY <2>1, CallAnswered
<1>5. ASSUME NEW r \in Requests, Start(r) \/ Submit(r) \/ Admit(r) \/ Generate(r)
      PROVE  CallInv'
  <2>1. UNCHANGED calls
    BY <1>5 DEF Start, Submit, Admit, Generate, balancerVars
  <2>2. \A q \in Requests : pc[q] = "acquire" => pc'[q] = "acquire"
    BY <1>5 DEF Start, Submit, Admit, Generate, TypeInv
  <2> QED
    BY <2>1, <2>2, CallsKept
<1>6. ASSUME NEW s \in Servers, Abort(s) PROVE CallInv'
  <2>1. UNCHANGED calls /\ \A q \in Requests : pc[q] = "acquire" => pc'[q] = "acquire"
    BY <1>6 DEF Abort, RunningOn, balancerVars
  <2> QED
    BY <2>1, CallsKept
<1>7. CASE Sync \/ (\E s \in Servers : Drain(s)) \/ UNCHANGED vars
  <2>1. UNCHANGED <<calls, pc>>
    BY <1>7 DEF Sync, Drain, vars, balancerVars, requestVars
  <2> QED
    BY <2>1, CallsKept
<1> QED
  BY <1>1, <1>2, <1>3, <1>4, <1>5, <1>6, <1>7 DEF Next

\* A request that a step does not touch, on a replica that still serves.
Untouched(q) ==
  /\ pc'[q] = pc[q] /\ server'[q] = server[q]
  /\ prompted'[q] = prompted[q] /\ allowed'[q] = allowed[q]
  /\ chunk'[q] = chunk[q] /\ stamped'[q] = stamped[q] /\ final'[q] = final[q]
  /\ minSteps'[q] = minSteps[q] /\ maxSteps'[q] = maxSteps[q]
Each(q) == AskedInv(q) /\ RoomInv(q) /\ PositionInv(q) /\ SpanInv(q)

\* It keeps what is known of it.
LEMMA UntouchedKept ==
  ASSUME TypeInv, SyncInv, LimitInv, [Next]_vars, NEW q \in Requests, Each(q), Untouched(q),
         pc[q] = "running" => stage'[server[q]] = "serving"
  PROVE  Each(q)'
<1>1. /\ Current \in Int /\ Current' \in Int /\ Current <= Current'
      /\ Current = Current' \/ \A s \in Servers : stage[s] # "serving"
  BY SyncSteps, CurrentGrows DEF TypeInv
<1>2. Unlimited => Unlimited'
  BY LimitStep
<1>3. AskedInv(q)'
  BY DEF Each, Untouched, AskedInv
<1>4. RoomInv(q)'
  BY <1>2 DEF Each, Untouched, RoomInv
<1>5. PositionInv(q)'
  BY DEF Each, Untouched, PositionInv
<1>6. SpanInv(q)'
  <2>1. pc[q] = "running" => Current = Current'
    BY <1>1 DEF Each, AskedInv
  <2>2. stamped[q] \in Int /\ maxSteps[q] \in Int
    BY DEF TypeInv
  <2>3. maxSteps'[q] <= Current'
    BY <1>1, <2>2 DEF Each, SpanInv, Untouched
  <2>4. pc[q] = "answered" => stamped[q] <= Current'
    BY <1>1, <2>2 DEF Each, SpanInv
  <2> HIDE DEF Current
  <2> QED
    BY <2>1, <2>3, <2>4 DEF Each, SpanInv, Untouched
<1> QED
  BY <1>3, <1>4, <1>5, <1>6 DEF Each

\* A step of one request leaves the others.
LEMMA OthersKept ==
  ASSUME TypeInv, SyncInv, LimitInv, RequestInv, [Next]_vars, UNCHANGED syncVars,
         NEW r \in Requests, Each(r)', \A q \in Requests \ {r} : Untouched(q)
  PROVE  RequestInv'
<1> SUFFICES ASSUME NEW q \in Requests PROVE Each(q)'
  BY DEF RequestInv, Each
<1>1. CASE q = r
  BY <1>1
<1>2. CASE q # r
  <2>1. Each(q) /\ Untouched(q)
    BY <1>2 DEF RequestInv, Each
  <2>2. pc[q] = "running" => stage'[server[q]] = "serving"
    BY <2>1 DEF Each, AskedInv, syncVars
  <2> QED
    BY <2>1, <2>2, UntouchedKept
<1> QED
  BY <1>1, <1>2

\* What a request may still generate fits the budget of the response.
LEMMA SubmitRoom ==
  ASSUME LimitFits, TypeInv, LimitInv, NEW r \in Requests, pc[r] = "submit", RoomInv(r)
  PROVE  LET m == MaxTokens(r, PromptLen + Len(final[r]))
         IN  m = 0 \/ Len(final[r]) + m <= Room
<1> DEFINE f == Len(final[r])
           n == PromptLen + f
           b == IF Limited(r) THEN limit[WorkerOf[r]]
                ELSE Minimum(ResponseLength, PromptLength + ResponseLength - n)
           m == MaxTokens(r, n)
<1>1. /\ f \in Nat /\ PromptLen \in Nat /\ PromptLength \in Nat /\ ResponseLength \in Nat
      /\ MaxModelLen \in Nat /\ InitLimit \in Nat /\ NoLimit \notin Int /\ WorkerOf[r] \in Workers
  BY LengthsAssumption, BalancerAssumption DEF TypeInv
<1>2. b \in Int /\ m = ClampTokens(b, n)
  BY <1>1 DEF MaxTokens, TypeInv, Limited, Minimum
<1>3. m = 0 \/ m <= b
  <2>1. n \in Nat /\ MaxModelLen - n \in Int
    BY <1>1
  <2> HIDE DEF b, n, m
  <2> QED
    BY <1>1, <1>2, <2>1 DEF ClampTokens, Minimum
<1>4. m \in Nat
  <2>1. n \in Nat
    BY <1>1
  <2> QED
    BY <2>1, BudgetType
<1>5. CASE Unlimited
  <2>1. b <= PromptLength + ResponseLength - n
    BY <1>1, <1>5 DEF Unlimited, Limited, Minimum
  <2>2. f + b <= Room
    <3> HIDE DEF b
    <3> QED
      BY <1>1, <1>2, <2>1 DEF Room
  <2> HIDE DEF b, m, f
  <2> QED
    BY <1>1, <1>2, <1>3, <1>4, <2>2 DEF f, m, Room
<1>6. CASE ~Unlimited
  <2>1. /\ TRUE \in LimitGiven /\ limit[WorkerOf[r]] \in Int /\ limit[WorkerOf[r]] <= InitLimit
    BY <1>1, <1>6 DEF LimitInv
  <2>2. f < InitLimit
    BY <1>6 DEF RoomInv
  <2>3. b <= InitLimit
    BY <1>1, <2>1 DEF Limited
  <2>4. 2 * InitLimit <= Room + 1 /\ Room \in Int
    BY <1>1, <2>1 DEF LimitFits, Room
  <2>5. f + b <= Room
    <3> HIDE DEF b, f
    <3> QED
      BY <1>1, <1>2, <2>2, <2>3, <2>4
  <2> HIDE DEF b, m, f
  <2> QED
    BY <1>1, <1>2, <1>3, <1>4, <2>4, <2>5 DEF f, m
<1> QED
  BY <1>5, <1>6

\* The tokens of two chunks.
LEMMA Joined ==
  ASSUME NEW f \in Seq(Token), NEW c \in Seq(Token)
  PROVE  /\ f \o c \in Seq(Token) /\ Len(f \o c) = Len(f) + Len(c)
         /\ \A i \in 1 .. Len(f) : (f \o c)[i] = f[i]
         /\ \A i \in 1 .. Len(f \o c) :
              i \in 1 .. Len(f) \/ (i - Len(f) \in 1 .. Len(c) /\ (f \o c)[i] = c[i - Len(f)])
OBVIOUS

\* One more token.
LEMMA OneMore ==
  ASSUME NEW c \in Seq(Token), NEW t \in Token
  PROVE  /\ Append(c, t) \in Seq(Token) /\ Len(Append(c, t)) = Len(c) + 1 /\ Len(c) \in Nat
         /\ \A i \in 1 .. Len(c) : Append(c, t)[i] = c[i]
         /\ Append(c, t)[Len(c) + 1] = t
         /\ \A i \in 1 .. Len(Append(c, t)) : i \in 1 .. Len(c) \/ i = Len(c) + 1
OBVIOUS

\* Before a request runs.
LEMMA WaitingKept ==
  ASSUME LimitFits, TypeInv, SyncInv, LimitInv, RequestInv, [Next]_vars, NEW r \in Requests,
         Start(r) \/ Enter(r) \/ Acquired(r) \/ Submit(r) \/ Admit(r),
         pc[r] \in {"start", "prompt", "acquire", "submit", "waiting"},
         Acquired(r) => pc[r] = "acquire"
  PROVE  RequestInv'
<1> USE DEF Set, Goto
<1>1. UNCHANGED syncVars /\ \A q \in Requests \ {r} : Untouched(q)
  <2>1. UNCHANGED syncVars
    BY DEF Start, Enter, Acquired, Submit, Admit
  <2>2. ASSUME NEW q \in Requests \ {r} PROVE Untouched(q)
    BY DEF Start, Enter, Acquired, Submit, Admit, Untouched, TypeInv
  <2> QED
    BY <2>1, <2>2
<1>2. AskedInv(r) /\ RoomInv(r) /\ PositionInv(r) /\ SpanInv(r)
  BY DEF RequestInv
<1>3. Current' = Current /\ (Unlimited => Unlimited')
  BY <1>1, LimitStep DEF syncVars, Current, Updated
<1>4. /\ UNCHANGED <<final, stamped, minSteps, maxSteps>>
      /\ chunk[r] = <<>> /\ chunk'[r] = <<>>
  BY <1>2 DEF Start, Enter, Acquired, Submit, Admit, AskedInv, TypeInv
<1>5. pc'[r] \in {"prompt", "acquire", "submit", "waiting", "running"} /\ pc'[r] # "answered"
  BY DEF Start, Enter, Acquired, Submit, Admit, TypeInv
<1>6. PositionInv(r)'
  BY <1>2, <1>4 DEF PositionInv
<1>7. SpanInv(r)'
  <2> HIDE DEF Current
  <2>1. \A i : i \notin 1 .. Len(<<>>)
    OBVIOUS
  <2> QED
    BY <1>2, <1>3, <1>4, <1>5, <2>1 DEF SpanInv
<1>8. AskedInv(r)' /\ RoomInv(r)'
  <2>1. CASE Start(r) \/ Enter(r)
    <3>1. pc'[r] \in {"prompt", "acquire"} /\ pc[r] \in {"start", "prompt"}
      BY <2>1 DEF Start, Enter, TypeInv
    <3> QED
      BY <1>2, <1>3, <1>4, <3>1 DEF AskedInv, RoomInv
  <2>2. CASE Acquired(r)
    <3>1. pc'[r] = "submit" /\ server'[r] \in Servers
      BY <2>2 DEF Acquired, TypeInv
    <3>2. Unlimited' \/ Len(final'[r]) < InitLimit
      BY <1>2, <1>3, <1>4, <2>2 DEF RoomInv
    <3> QED
      BY <1>4, <3>1, <3>2 DEF AskedInv, RoomInv
  <2>3. CASE Submit(r)
    <3>1. /\ pc'[r] = "waiting" /\ pc[r] = "submit" /\ server'[r] = server[r]
          /\ prompted'[r] = Len(final[r])
          /\ allowed'[r] = MaxTokens(r, PromptLen + Len(final[r]))
      BY <2>3 DEF Submit, TypeInv
    <3>2. allowed'[r] = 0 \/ Len(final[r]) + allowed'[r] <= Room
      BY <1>2, <3>1, SubmitRoom
    <3> QED
      BY <1>2, <1>4, <3>1, <3>2 DEF AskedInv, RoomInv
  <2>4. CASE Admit(r)
    <3>1. /\ pc'[r] = "running" /\ pc[r] = "waiting" /\ server'[r] = server[r]
          /\ prompted'[r] = prompted[r] /\ allowed'[r] = allowed[r]
          /\ ~engine_paused[server[r]] /\ UNCHANGED syncVars
      BY <1>1, <2>4 DEF Admit, TypeInv
    <3>2. server[r] \in Servers
      BY <1>2, <3>1 DEF AskedInv
    <3>3. stage'[server'[r]] = "serving"
      BY <3>1, <3>2 DEF SyncInv, syncVars
    <3>4. allowed[r] = 0 \/ Len(chunk'[r]) < allowed[r]
      <4>1. Len(<<>>) = 0 /\ allowed[r] \in Nat
        BY DEF TypeInv
      <4> QED
        BY <1>4, <4>1
    <3> QED
      BY <1>2, <1>4, <3>1, <3>2, <3>3, <3>4 DEF AskedInv, RoomInv
  <2> QED
    BY <2>1, <2>2, <2>3, <2>4
<1> QED
  BY <1>1, <1>6, <1>7, <1>8, OthersKept DEF Each

\* A token more: it is the next one, and comes from the version of all tokens of the call.
LEMMA GenerateKept ==
  ASSUME TypeInv, SyncInv, LimitInv, RequestInv, [Next]_vars, NEW r \in Requests, Generate(r)
  PROVE  RequestInv'
<1> USE DEF Set, Goto
<1> DEFINE t == NextToken(r)
           c == Append(chunk[r], t)
<1>1. UNCHANGED syncVars /\ \A q \in Requests \ {r} : Untouched(q)
  BY DEF Generate, Untouched, TypeInv
<1>2. AskedInv(r) /\ RoomInv(r) /\ PositionInv(r) /\ SpanInv(r)
  BY DEF RequestInv
<1>3. Current' = Current
  BY <1>1 DEF syncVars, Current, Updated
<1>4. /\ pc[r] = "running" /\ server[r] \in Servers /\ stage[server[r]] = "serving"
      /\ allowed[r] > 0 /\ prompted[r] = Len(final[r])
  BY <1>2 DEF Generate, AskedInv
<1>5. weights[server[r]] = Current /\ global_steps[server[r]] = Current
  BY <1>4 DEF SyncInv, Current
<1>6. t.pos = Len(final[r]) + Len(chunk[r]) + 1 /\ t.ver = Current /\ t \in Token
  <2>1. t.pos = Len(final[r]) + Len(chunk[r]) + 1 /\ t.ver = Current
    BY <1>4, <1>5 DEF NextToken
  <2>2. t \in Token
    BY <1>4 DEF NextToken, Token, TypeInv, SyncTypeOK
  <2> QED
    BY <2>1, <2>2
<1> HIDE DEF t, Current
<1>7. /\ chunk[r] \in Seq(Token) /\ final[r] \in Seq(Token)
      /\ Len(c) = Len(chunk[r]) + 1 /\ Len(chunk[r]) \in Nat
      /\ \A i \in 1 .. Len(chunk[r]) : c[i] = chunk[r][i]
      /\ c[Len(chunk[r]) + 1] = t
      /\ \A i \in 1 .. Len(c) : i \in 1 .. Len(chunk[r]) \/ i = Len(chunk[r]) + 1
  BY <1>6, OneMore DEF TypeInv
<1> HIDE DEF c
<1>8. /\ UNCHANGED <<final, minSteps, maxSteps, server, prompted, allowed>> /\ chunk'[r] = c
      /\ \/ pc'[r] = "running" /\ Len(c) < allowed[r]
         \/ pc'[r] = "answered" /\ stamped'[r] = Current
  BY <1>4, <1>5 DEF Generate, TypeInv, c, t
<1>9. AskedInv(r)' /\ RoomInv(r)'
  <2>1. AskedInv(r)'
    BY <1>1, <1>4, <1>8 DEF AskedInv, syncVars
  <2>2. RoomInv(r)'
    BY <1>2, <1>4, <1>8 DEF RoomInv
  <2> QED
    BY <2>1, <2>2
<1>10. PositionInv(r)'
  <2>1. \A i \in 1 .. Len(c) : c[i].pos = Len(final[r]) + i
    <3> SUFFICES ASSUME NEW i \in 1 .. Len(c) PROVE c[i].pos = Len(final[r]) + i
      OBVIOUS
    <3>1. CASE i \in 1 .. Len(chunk[r])
      BY <1>2, <1>7, <3>1 DEF PositionInv
    <3>2. CASE i = Len(chunk[r]) + 1
      <4>1. Len(final[r]) \in Nat /\ Len(chunk[r]) \in Nat
        BY <1>7
      <4>2. c[i].pos = Len(final[r]) + Len(chunk[r]) + 1
        <5>1. c[i] = t
          BY <1>7, <3>2
        <5>2. t.pos = Len(final[r]) + Len(chunk[r]) + 1
          BY <1>6
        <5> QED
          BY <5>1, <5>2
      <4>3. Len(final[r]) + i = Len(final[r]) + Len(chunk[r]) + 1
        <5> DEFINE a == Len(final[r])
                   b == Len(chunk[r])
        <5>1. i = b + 1 /\ a \in Nat /\ b \in Nat
          BY <3>2, <4>1
        <5> HIDE DEF a, b
        <5>2. a + i = a + b + 1
          BY <5>1
        <5> QED
          BY <5>2 DEF a, b
      <4> QED
        BY <4>2, <4>3
    <3> QED
      BY <1>7, <3>1, <3>2
  <2> QED
    BY <1>2, <1>8, <2>1 DEF PositionInv
<1>11. SpanInv(r)'
  <2>1. \A i \in 1 .. Len(c) : c[i].ver = Current
    BY <1>2, <1>4, <1>6, <1>7 DEF SpanInv
  <2>2. maxSteps[r] <= Current /\ Current \in Int
    <3>1. Current \in Int
      BY CurrentGrows, SyncSteps DEF TypeInv
    <3> QED
      BY <1>2, <3>1 DEF SpanInv
  <2> QED
    BY <1>2, <1>3, <1>8, <2>1, <2>2 DEF SpanInv
<1> QED
  BY <1>1, <1>9, <1>10, <1>11, OthersKept DEF Each

\* An answer merged: the tokens go on where the response was, from no older version.
LEMMA MergeKept ==
  ASSUME TypeInv, SyncInv, LimitInv, RequestInv, [Next]_vars, NEW r \in Requests,
         MergeAndContinue(r) \/ MergeAndReturn(r)
  PROVE  RequestInv'
<1> USE DEF Set, Goto
<1> DEFINE f == final[r]
           c == chunk[r]
           m == f \o c
<1>1. UNCHANGED syncVars /\ \A q \in Requests \ {r} : Untouched(q)
  BY DEF MergeAndContinue, MergeAndReturn, MergeState, Untouched, TypeInv
<1>2. AskedInv(r) /\ RoomInv(r) /\ PositionInv(r) /\ SpanInv(r)
  BY DEF RequestInv
<1>3. Current' = Current /\ Current \in Nat
  BY <1>1, CurrentGrows, SyncSteps DEF syncVars, Current, Updated, TypeInv
<1> HIDE DEF Current
<1>4. /\ pc[r] = "answered" /\ pc'[r] \in {"acquire", "done"}
      /\ final'[r] = m /\ chunk'[r] = <<>>
      /\ minSteps'[r] = (IF minSteps[r] = NoSteps THEN stamped[r] ELSE minSteps[r])
      /\ maxSteps'[r] = stamped[r]
  BY DEF MergeAndContinue, MergeAndReturn, MergeState, Merged, TypeInv
<1>5. /\ f \in Seq(Token) /\ c \in Seq(Token) /\ stamped[r] \in Nat
      /\ minSteps[r] \in Int /\ maxSteps[r] \in Int
  BY DEF TypeInv
<1> HIDE DEF f, c
<1>6. /\ m \in Seq(Token) /\ Len(m) = Len(f) + Len(c)
      /\ \A i \in 1 .. Len(f) : m[i] = f[i]
      /\ \A i \in 1 .. Len(m) :
           i \in 1 .. Len(f) \/ (i - Len(f) \in 1 .. Len(c) /\ m[i] = c[i - Len(f)])
      /\ Len(f) \in Nat /\ Len(c) \in Nat
  <2>1. Len(f) \in Nat /\ Len(c) \in Nat
    BY <1>5
  <2> QED
    BY <1>5, <2>1, Joined
<1> HIDE DEF m
<1>7. AskedInv(r)'
  BY <1>4 DEF AskedInv
<1>8. RoomInv(r)'
  <2>1. CASE MergeAndReturn(r)
    BY <2>1 DEF MergeAndReturn, RoomInv, TypeInv
  <2>2. CASE MergeAndContinue(r)
    <3>1. Unlimited \/ Len(m) < InitLimit
      <4> SUFFICES ASSUME ~Unlimited PROVE Len(m) < InitLimit
        OBVIOUS
      <4>1. /\ limit[WorkerOf[r]] \in Int /\ original[r] \in Int /\ original[r] <= InitLimit
        BY BalancerAssumption DEF LimitInv
      <4>2. ~OverLimit(r) /\ Limited(r)
        BY <2>2, <4>1, LengthsAssumption DEF MergeAndContinue, LoopEnds, Limited
      <4>3. ~(Len(m) >= original[r])
        BY <4>2 DEF OverLimit, Merged, m, f, c
      <4>4. Len(m) \in Nat /\ InitLimit \in Int
        BY <1>6, LengthsAssumption
      <4> QED
        BY <4>1, <4>3, <4>4
    <3>2. Unlimited => Unlimited'
      BY LimitStep
    <3>3. pc'[r] = "acquire"
      BY <2>2 DEF MergeAndContinue, TypeInv
    <3> QED
      BY <1>4, <3>1, <3>2, <3>3 DEF RoomInv
  <2> QED
    BY <2>1, <2>2
<1>9. PositionInv(r)'
  <2>1. \A i \in 1 .. Len(m) : m[i].pos = i
    <3> SUFFICES ASSUME NEW i \in 1 .. Len(m) PROVE m[i].pos = i
      OBVIOUS
    <3>1. CASE i \in 1 .. Len(f)
      BY <1>2, <1>6, <3>1 DEF PositionInv, f
    <3>2. CASE i - Len(f) \in 1 .. Len(c) /\ m[i] = c[i - Len(f)]
      <4>1. m[i].pos = Len(f) + (i - Len(f))
        BY <1>2, <3>2 DEF PositionInv, f, c
      <4> QED
        BY <1>6, <4>1
    <3> QED
      BY <1>6, <3>1, <3>2
  <2>2. \A i : i \notin 1 .. Len(<<>>)
    OBVIOUS
  <2> QED
    BY <1>4, <2>1, <2>2 DEF PositionInv
<1>10. SpanInv(r)'
  <2>1. /\ stamped[r] <= Current /\ maxSteps[r] <= stamped[r]
        /\ \A i \in 1 .. Len(c) : c[i].ver = stamped[r]
    BY <1>2, <1>4 DEF SpanInv, c
  <2>2. /\ 0 <= minSteps'[r] /\ minSteps'[r] <= maxSteps'[r]
        /\ \A i \in 1 .. Len(f) : minSteps'[r] <= f[i].ver /\ f[i].ver <= maxSteps'[r]
    <3>1. CASE minSteps[r] = NoSteps
      <4>1. f = <<>>
        BY <1>2, <3>1 DEF SpanInv, NoSteps, f
      <4>2. \A i : i \notin 1 .. Len(f)
        BY <4>1
      <4> QED
        BY <1>4, <1>5, <3>1, <4>2
    <3>2. CASE minSteps[r] # NoSteps
      <4>1. /\ 0 <= minSteps[r] /\ minSteps[r] <= maxSteps[r]
            /\ \A i \in 1 .. Len(f) : minSteps[r] <= f[i].ver /\ f[i].ver <= maxSteps[r]
        BY <1>2, <3>2 DEF SpanInv, f
      <4>2. \A i \in 1 .. Len(f) : f[i].ver \in Nat
        <5>1. \A i \in 1 .. Len(f) : f[i] \in Token
          BY <1>5
        <5> QED
          BY <5>1 DEF Token
      <4>3. minSteps'[r] = minSteps[r] /\ maxSteps'[r] = stamped[r]
        BY <1>4, <3>2
      <4>4. minSteps[r] <= stamped[r]
        BY <1>5, <2>1, <4>1
      <4>5. \A i \in 1 .. Len(f) : f[i].ver <= stamped[r]
        BY <1>5, <2>1, <4>1, <4>2
      <4> QED
        BY <4>1, <4>3, <4>4, <4>5
    <3> QED
      BY <3>1, <3>2
  <2>3. \A i \in 1 .. Len(m) : minSteps'[r] <= m[i].ver /\ m[i].ver <= maxSteps'[r]
    <3> SUFFICES ASSUME NEW i \in 1 .. Len(m)
                 PROVE  minSteps'[r] <= m[i].ver /\ m[i].ver <= maxSteps'[r]
      OBVIOUS
    <3>1. CASE i \in 1 .. Len(f)
      BY <1>6, <2>2, <3>1
    <3>2. CASE i - Len(f) \in 1 .. Len(c) /\ m[i] = c[i - Len(f)]
      BY <1>4, <1>5, <2>1, <2>2, <3>2
    <3> QED
      BY <1>6, <3>1, <3>2
  <2>4. maxSteps'[r] <= Current' /\ pc'[r] # "running" /\ pc'[r] # "answered"
    BY <1>3, <1>4, <2>1
  <2> QED
    BY <1>4, <2>2, <2>3, <2>4 DEF SpanInv
<1> QED
  BY <1>1, <1>7, <1>8, <1>9, <1>10, OthersKept DEF Each

\* Aborting a replica answers what runs on it, with the version it was generated from.
LEMMA AbortKept ==
  ASSUME EnginePauses = TRUE, TypeInv, SyncInv, LimitInv, RequestInv, [Next]_vars,
         NEW s \in Servers, Abort(s)
  PROVE  RequestInv'
<1> SUFFICES ASSUME NEW q \in Requests PROVE Each(q)'
  BY DEF RequestInv, Each
<1>1. Each(q) /\ AskedInv(q) /\ RoomInv(q) /\ PositionInv(q) /\ SpanInv(q)
  BY DEF RequestInv, Each
<1>2. /\ UNCHANGED <<server, prompted, allowed, chunk, final, minSteps, maxSteps, limit>>
      /\ pc'[q] = (IF q \in RunningOn(s) THEN "answered" ELSE pc[q])
      /\ stamped'[q] = (IF q \in RunningOn(s) THEN global_steps[s] ELSE stamped[q])
      /\ AbortReplica(s)
  BY DEF Abort
<1>3. CASE q \in RunningOn(s)
  <2>1. pc[q] = "running" /\ server[q] = s /\ pc'[q] = "answered"
    BY <1>2, <1>3 DEF RunningOn
  <2>2. Current' = Current /\ stage[s] = "serving"
    BY <1>1, <1>2, <2>1 DEF AbortReplica, Current, Updated, AskedInv
  <2>3. stamped'[q] = Current
    BY <1>2, <1>3, <2>2 DEF SyncInv, Current
  <2>4. maxSteps[q] <= Current /\ Current \in Int
    <3>1. Current \in Int
      BY CurrentGrows, SyncSteps DEF TypeInv
    <3> QED
      BY <1>1, <3>1 DEF SpanInv
  <2>5. AskedInv(q)'
    BY <1>1, <1>2, <2>1 DEF AskedInv
  <2>6. RoomInv(q)' /\ PositionInv(q)'
    BY <1>1, <1>2, <2>1 DEF RoomInv, PositionInv
  <2>7. SpanInv(q)'
    <3> HIDE DEF Current
    <3> QED
      BY <1>1, <1>2, <2>1, <2>2, <2>3, <2>4 DEF SpanInv
  <2> QED
    BY <2>5, <2>6, <2>7 DEF Each
<1>4. CASE q \notin RunningOn(s)
  <2>1. Untouched(q)
    BY <1>2, <1>4 DEF Untouched
  <2>2. pc[q] = "running" => stage'[server[q]] = "serving"
    <3> SUFFICES ASSUME pc[q] = "running" PROVE stage'[server[q]] = "serving"
      OBVIOUS
    <3>1. server[q] \in Servers \ {s} /\ stage[server[q]] = "serving"
      BY <1>1, <1>4 DEF AskedInv, RunningOn
    <3> QED
      BY <1>2, <3>1 DEF AbortReplica, Advance, TypeInv, SyncTypeOK
  <2> QED
    BY <1>1, <2>1, <2>2, UntouchedKept
<1> QED
  BY <1>3, <1>4

\* Steps of update_weights, of the balancer and of nobody leave every request as it is.
LEMMA AloneKept ==
  ASSUME EnginePauses = TRUE, TypeInv, SyncInv, LimitInv, RequestInv, [Next]_vars,
         \/ Sync \/ (\E s \in Servers : Drain(s)) \/ (\E w \in Workers : Released(w))
         \/ UNCHANGED vars
  PROVE  RequestInv'
<1> SUFFICES ASSUME NEW q \in Requests PROVE Each(q)'
  BY DEF RequestInv, Each
<1>1. Each(q) /\ AskedInv(q)
  BY DEF RequestInv, Each
<1>2. Untouched(q)
  BY DEF Sync, Drain, Released, vars, requestVars, Untouched
<1>3. \A s \in Servers : stage[s] = "serving" => stage'[s] = "serving"
  <2>1. CASE Sync
    <3>1. CASE UpdateWeights \/ NextPhase
      BY <3>1 DEF UpdateWeights, NextPhase, PhaseEnds
    <3>2. ASSUME NEW s \in Servers,
                 LoadBegins(s) \/ LoadEnds(s) \/ Stamp(s) \/ ResumeReplica(s)
          PROVE  \A u \in Servers : stage[u] = "serving" => stage'[u] = "serving"
      BY <3>2 DEF LoadBegins, LoadEnds, Stamp, ResumeReplica, Advance, TypeInv, SyncTypeOK
    <3> QED
      BY <2>1, <3>1, <3>2 DEF Sync
  <2>2. CASE \E s \in Servers : Drain(s)
    BY <2>2 DEF Drain, DrainReplica, Advance, TypeInv, SyncTypeOK
  <2>3. CASE (\E w \in Workers : Released(w)) \/ UNCHANGED vars
    BY <2>3 DEF Released, vars, syncVars
  <2> QED
    BY <2>1, <2>2, <2>3
<1>4. pc[q] = "running" => stage'[server[q]] = "serving"
  BY <1>1, <1>3 DEF AskedInv
<1> QED
  BY <1>1, <1>2, <1>4, UntouchedKept

\* A request that a server is acquired for waits for it.
LEMMA AcquiredAsked ==
  ASSUME TypeInv, CallInv, NEW r \in Requests, Acquired(r)
  PROVE  pc[r] = "acquire"
<1>1. /\ Received(WorkerOf[r], AcquireCall(r)) /\ WorkerOf[r] \in Workers
      /\ AcquireCall(r) \in Calls /\ pc' = [pc EXCEPT ![r] = "submit"]
  BY BalancerAssumption, CallKinds DEF Acquired, Goto, Set
<1> QED
  BY <1>1, CallAnswered

\* Every step keeps what is known of every request.
LEMMA RequestStep ==
  ASSUME EnginePauses = TRUE, LimitFits,
         TypeInv, SyncInv, CallInv, LimitInv, RequestInv, [Next]_vars
  PROVE  RequestInv'
<1>1. ASSUME NEW r \in Requests, Acquired(r) PROVE pc[r] = "acquire"
  BY <1>1, AcquiredAsked
<1>2. ASSUME NEW r \in Requests, Start(r) \/ Enter(r) \/ Acquired(r) \/ Submit(r) \/ Admit(r)
      PROVE  RequestInv'
  <2>1. pc[r] \in {"start", "prompt", "acquire", "submit", "waiting"}
    BY <1>1, <1>2 DEF Start, Enter, Submit, Admit
  <2> QED
    BY <1>1, <1>2, <2>1, WaitingKept
<1>3. ASSUME NEW r \in Requests, Generate(r) PROVE RequestInv'
  BY <1>3, GenerateKept
<1>4. ASSUME NEW r \in Requests, MergeAndContinue(r) \/ MergeAndReturn(r) PROVE RequestInv'
  BY <1>4, MergeKept
<1>5. ASSUME NEW s \in Servers, Abort(s) PROVE RequestInv'
  BY <1>5, AbortKept
<1>6. CASE \/ Sync \/ (\E s \in Servers : Drain(s)) \/ (\E w \in Workers : Released(w))
           \/ UNCHANGED vars
  BY <1>6, AloneKept
<1> QED
  BY <1>2, <1>3, <1>4, <1>5, <1>6 DEF Next

-----------------------------------------------------------------------------
\* The theorems.

\* Nothing has been generated.
LEMMA Initially == Init => TypeInv /\ SyncInv /\ CallInv /\ LimitInv /\ RequestInv
<1> SUFFICES ASSUME Init PROVE TypeInv /\ SyncInv /\ CallInv /\ LimitInv /\ RequestInv
  OBVIOUS
<1> USE DEF Init, BalancerInit, SyncInit
<1>1. InitLimit \in Nat \ {0} /\ NoLimit \notin Int
  BY LengthsAssumption
<1>2. PICK given \in LimitGiven : limit = [w \in Workers |-> IF given THEN InitLimit ELSE NoLimit]
  OBVIOUS
<1>3. limit \in [Workers -> Int \cup {NoLimit}]
  BY <1>1, <1>2
<1>4. TypeInv
  <2>1. SyncTypeOK
    BY DEF SyncTypeOK, SyncPc, Stage
  <2>2. chunk \in [Requests -> Seq(Token)] /\ final \in [Requests -> Seq(Token)]
    OBVIOUS
  <2>3. calls \in [Workers -> Seq(Calls)]
    OBVIOUS
  <2> QED
    BY <1>3, <2>1, <2>2, <2>3 DEF TypeInv, Pc, NoSteps
<1>5. SyncInv
  BY DEF SyncInv, Updated
<1>6. CallInv
  <2>1. \A r \in Requests : Asks(<<>>, r) = {}
    BY DEF Asks
  <2> QED
    BY <2>1 DEF CallInv
<1>7. LimitInv
  <2>1. CASE given = TRUE
    <3>1. TRUE \in LimitGiven
      BY <2>1
    <3>2. \A w \in Workers : limit[w] = InitLimit
      BY <1>2, <2>1
    <3>3. \A w \in Workers : limit[w] \in Int /\ limit[w] <= InitLimit
      BY <1>1, <3>2
    <3>4. \A r \in Requests : original[r] \in Int /\ original[r] <= InitLimit
      BY <1>1
    <3> QED
      BY <3>1, <3>3, <3>4 DEF LimitInv
  <2>2. CASE given # TRUE
    <3>1. given = FALSE
      BY <2>2, LengthsAssumption
    <3> QED
      BY <1>2, <3>1 DEF LimitInv, Unlimited
  <2> QED
    BY <2>1, <2>2
<1>8. RequestInv
  <2> SUFFICES ASSUME NEW r \in Requests
               PROVE  AskedInv(r) /\ RoomInv(r) /\ PositionInv(r) /\ SpanInv(r)
    BY DEF RequestInv
  <2>1. Len(<<>>) = 0 /\ \A i : i \notin 1 .. Len(<<>>)
    OBVIOUS
  <2> QED
    BY <1>1, <2>1 DEF AskedInv, RoomInv, PositionInv, SpanInv, NoSteps, Current, Updated
<1> QED
  BY <1>4, <1>5, <1>6, <1>7, <1>8

Inv == TypeInv /\ SyncInv /\ CallInv /\ LimitInv /\ RequestInv

\* What is known of requests, calls, limits and weight updates together holds in every
\* state: generate and update_weights keep it, though neither waits for the other.
THEOREM RolloutInv ==
  ASSUME EnginePauses = TRUE, LimitFits
  PROVE  Spec => []Inv
<1>1. Init => Inv
  BY Initially DEF Inv
<1>2. Inv /\ [Next]_vars => Inv'
  <2> SUFFICES ASSUME Inv, [Next]_vars PROVE Inv'
    OBVIOUS
  <2>1. SyncInv'
    <3>1. CASE SyncNext
      BY <3>1, SyncKept DEF Inv, TypeInv
    <3>2. CASE UNCHANGED syncVars
      BY <3>2 DEF Inv, SyncInv, Updated, syncVars
    <3> QED
      BY <3>1, <3>2, SyncSteps
  <2> QED
    BY <2>1, TypeStep, CallStep, LimitStep, RequestStep DEF Inv
<1> QED
  BY <1>1, <1>2, PTL DEF Spec

\* No token comes out of half-loaded weights, where aborting pauses the engine.
THEOREM LoadsUndisturbed ==
  ASSUME EnginePauses = TRUE, LimitFits
  PROVE  Spec => []NoneRunsWhileLoading
<1>1. Inv => NoneRunsWhileLoading
  BY DEF Inv, RequestInv, AskedInv, NoneRunsWhileLoading, RunningOn
<1> QED
  BY <1>1, RolloutInv, PTL

\* However often generate resubmits a response, its tokens are each other's continuation.
THEOREM Continues ==
  ASSUME EnginePauses = TRUE, LimitFits
  PROVE  Spec => []ContinuesItself
<1>1. Inv => ContinuesItself
  <2> SUFFICES ASSUME Inv, NEW r \in Requests, NEW i \in DOMAIN Merged(r)
               PROVE  Merged(r)[i].pos = i
    BY DEF ContinuesItself
  <2> DEFINE f == final[r]
             c == chunk[r]
  <2>1. f \in Seq(Token) /\ c \in Seq(Token) /\ Merged(r) = f \o c
    BY DEF Inv, TypeInv, Merged
  <2>2. /\ \A j \in 1 .. Len(f) : f[j].pos = j
        /\ \A j \in 1 .. Len(c) : c[j].pos = Len(f) + j
    BY DEF Inv, RequestInv, PositionInv
  <2> HIDE DEF f, c
  <2>3. /\ Len(f) \in Nat /\ i \in 1 .. Len(f \o c) /\ i \in Nat
    BY <2>1
  <2>4. /\ \A j \in 1 .. Len(f) : (f \o c)[j] = f[j]
        /\ i \in 1 .. Len(f) \/ (i - Len(f) \in 1 .. Len(c) /\ (f \o c)[i] = c[i - Len(f)])
    BY <2>1, <2>3, Joined
  <2>5. CASE i \in 1 .. Len(f)
    BY <2>1, <2>2, <2>4, <2>5
  <2>6. CASE i - Len(f) \in 1 .. Len(c) /\ (f \o c)[i] = c[i - Len(f)]
    <3>1. (f \o c)[i].pos = Len(f) + (i - Len(f))
      BY <2>2, <2>6
    <3>2. Len(f) + (i - Len(f)) = i
      <4> DEFINE a == Len(f)
      <4> HIDE DEF a
      <4>1. a + (i - a) = i
        BY <2>3 DEF a
      <4> QED
        BY <4>1 DEF a
    <3> QED
      BY <2>1, <3>1, <3>2
  <2> QED
    BY <2>4, <2>5, <2>6
<1> QED
  BY <1>1, RolloutInv, PTL

-----------------------------------------------------------------------------
\* The refinement.

StreamNow == [r \in Requests |-> Versions(Merged(r))]
ClosedNow == {r \in Requests : pc[r] = "done"}
SpansNow ==
  [r \in Requests |-> IF pc[r] = "done" THEN <<minSteps[r], maxSteps[r]>> ELSE <<NoSteps, NoSteps>>]

\* The versions of tokens.
LEMMA VersionsOf ==
  ASSUME NEW s \in Seq(Token)
  PROVE  /\ Versions(s) \in Seq(Nat) /\ Len(Versions(s)) = Len(s)
         /\ \A i \in 1 .. Len(s) : Versions(s)[i] = s[i].ver
<1>1. Len(s) \in Nat /\ DOMAIN s = 1 .. Len(s)
  OBVIOUS
<1>2. \A i \in 1 .. Len(s) : s[i] \in Token
  OBVIOUS
<1>3. \A i \in 1 .. Len(s) : s[i].ver \in Nat
  BY <1>2 DEF Token
<1>4. Versions(s) = [i \in 1 .. Len(s) |-> s[i].ver]
  BY <1>1 DEF Versions
<1>5. Versions(s) \in [1 .. Len(s) -> Nat]
  BY <1>3, <1>4
<1>6. Versions(s) \in Seq(Nat) /\ Len(Versions(s)) = Len(s)
  BY <1>1, <1>5
<1> QED
  BY <1>4, <1>6

\* A token appended to the chunk is appended to the stream.
LEMMA VersionsAppended ==
  ASSUME NEW f \in Seq(Token), NEW c \in Seq(Token), NEW t \in Token
  PROVE  Versions(f \o Append(c, t)) = Append(Versions(f \o c), t.ver)
<1> DEFINE m == f \o c
           n == Append(m, t)
<1>1. m \in Seq(Token) /\ n \in Seq(Token) /\ t.ver \in Nat
  BY ConcatProperties, AppendProperties DEF Token
<1>2. f \o Append(c, t) = n
  <2>1. Append(c, t) = c \o <<t>> /\ n = m \o <<t>> /\ <<t>> \in Seq(Token)
    BY <1>1, AppendIsConcat
  <2> QED
    BY <2>1, ConcatAssociative
<1> HIDE DEF m
<1>3. /\ Len(n) = Len(m) + 1 /\ Len(m) \in Nat
      /\ \A i \in 1 .. Len(m) : n[i] = m[i]
      /\ n[Len(m) + 1] = t
      /\ \A i \in 1 .. Len(n) : i \in 1 .. Len(m) \/ i = Len(m) + 1
  BY <1>1, OneMore
<1> HIDE DEF n
<1> DEFINE a == Versions(n)
           b == Append(Versions(m), t.ver)
<1>4. /\ a \in Seq(Nat) /\ Len(a) = Len(n) /\ \A i \in 1 .. Len(n) : a[i] = n[i].ver
  BY <1>1, VersionsOf
<1>5. /\ Versions(m) \in Seq(Nat) /\ Len(Versions(m)) = Len(m)
      /\ \A i \in 1 .. Len(m) : Versions(m)[i] = m[i].ver
  BY <1>1, VersionsOf
<1>6. /\ b \in Seq(Nat) /\ Len(b) = Len(m) + 1 /\ b[Len(m) + 1] = t.ver
      /\ \A i \in 1 .. Len(m) : b[i] = m[i].ver
  BY <1>1, <1>5, AppendProperties
<1> HIDE DEF a, b
<1>7. \A i \in 1 .. Len(a) : a[i] = b[i]
  BY <1>3, <1>4, <1>6
<1>8. a = b
  <2>1. Len(a) = Len(b)
    BY <1>3, <1>4, <1>6
  <2> QED
    BY <1>4, <1>6, <1>7, <2>1, SeqEqual
<1> QED
  BY <1>2, <1>8 DEF a, b, m

\* A step that leaves the merged responses, who has returned and their spans alone.
LEMMA StreamSame ==
  ASSUME \A r \in Requests :
           /\ Merged(r)' = Merged(r)
           /\ pc'[r] = "done" <=> pc[r] = "done"
           /\ pc[r] = "done" => minSteps'[r] = minSteps[r] /\ maxSteps'[r] = maxSteps[r]
  PROVE  UNCHANGED <<StreamNow, ClosedNow, SpansNow>>
<1>1. StreamNow' = StreamNow
  BY DEF StreamNow
<1>2. ClosedNow' = ClosedNow
  BY DEF ClosedNow
<1>3. SpansNow' = SpansNow
  BY DEF SpansNow
<1> QED
  BY <1>1, <1>2, <1>3

\* A step that changes no request but r, and of r nothing that the stream shows.
LEMMA StreamStutters ==
  ASSUME NEW r \in Requests, \A q \in Requests \ {r} : Untouched(q),
         Merged(r)' = Merged(r), pc[r] # "done", pc'[r] # "done"
  PROVE  UNCHANGED <<StreamNow, ClosedNow, SpansNow>>
<1>1. ASSUME NEW q \in Requests \ {r}
      PROVE  /\ Merged(q)' = Merged(q) /\ pc'[q] = pc[q]
             /\ minSteps'[q] = minSteps[q] /\ maxSteps'[q] = maxSteps[q]
  BY <1>1 DEF Untouched, Merged
<1> QED
  BY <1>1, StreamSame

\* Before it runs a request shows nothing new.
LEMMA WaitingStutters ==
  ASSUME TypeInv, RequestInv, NEW r \in Requests,
         Start(r) \/ Enter(r) \/ Acquired(r) \/ Submit(r) \/ Admit(r),
         Acquired(r) => pc[r] = "acquire"
  PROVE  UNCHANGED <<version, StreamNow, ClosedNow, SpansNow>>
<1> USE DEF Set, Goto
<1>1. version' = version /\ \A q \in Requests \ {r} : Untouched(q)
  <2>1. version' = version
    BY DEF Start, Enter, Acquired, Submit, Admit, syncVars
  <2>2. ASSUME NEW q \in Requests \ {r} PROVE Untouched(q)
    BY DEF Start, Enter, Acquired, Submit, Admit, Untouched, TypeInv
  <2> QED
    BY <2>1, <2>2
<1>2. pc[r] \in {"start", "prompt", "acquire", "submit", "waiting"} /\ pc'[r] # "done"
  BY DEF Start, Enter, Acquired, Submit, Admit, TypeInv
<1>3. chunk[r] = <<>> /\ chunk'[r] = <<>> /\ final'[r] = final[r]
  BY <1>2 DEF Start, Enter, Acquired, Submit, Admit, RequestInv, AskedInv, TypeInv
<1>4. Merged(r)' = Merged(r)
  BY <1>3 DEF Merged
<1> QED
  BY <1>1, <1>2, <1>4, StreamStutters

\* A token generated is a token of the stream.
LEMMA GenerateGrows ==
  ASSUME TypeInv, SyncInv, RequestInv, NEW r \in Requests, Generate(r)
  PROVE  Stream!Grow(r)
<1> USE DEF Set, Goto
<1> DEFINE f == final[r]
           c == chunk[r]
           t == NextToken(r)
           m == f \o c
<1>1. version' = version /\ \A q \in Requests \ {r} : Untouched(q)
  BY DEF Generate, Untouched, TypeInv, syncVars
<1>2. AskedInv(r) /\ RoomInv(r) /\ SpanInv(r)
  BY DEF RequestInv
<1>3. /\ pc[r] = "running" /\ server[r] \in Servers /\ stage[server[r]] = "serving"
      /\ allowed[r] > 0 /\ prompted[r] = Len(f)
  BY <1>2 DEF Generate, AskedInv
<1>4. t.ver = Current /\ t \in Token
  <2>1. t.ver = Current
    BY <1>3 DEF NextToken, SyncInv, Current
  <2>2. t \in Token
    BY <1>3 DEF NextToken, Token, TypeInv, SyncTypeOK
  <2> QED
    BY <2>1, <2>2
<1>5. /\ Merged(r) = m /\ Merged(r)' = f \o Append(c, t)
      /\ pc'[r] # "done" /\ UNCHANGED <<minSteps, maxSteps>>
      /\ f \in Seq(Token) /\ c \in Seq(Token)
  BY <1>3 DEF Generate, Merged, TypeInv
<1>6. Current \in {version - 1, version} \cap Nat
  <2>1. Current \in Nat
    <3>1. UNCHANGED syncVars /\ SyncTypeOK
      BY DEF Generate, TypeInv
    <3> QED
      BY <3>1, CurrentGrows
  <2> QED
    BY <2>1 DEF Current
<1> HIDE DEF f, c, t, Current
<1>7. /\ m \in Seq(Token) /\ Len(m) = Len(f) + Len(c)
      /\ \A i \in 1 .. Len(f) : m[i] = f[i]
      /\ \A i \in 1 .. Len(m) :
           i \in 1 .. Len(f) \/ (i - Len(f) \in 1 .. Len(c) /\ m[i] = c[i - Len(f)])
      /\ Len(f) \in Nat /\ Len(c) \in Nat
  <2>1. Len(f) \in Nat /\ Len(c) \in Nat
    BY <1>5
  <2> QED
    BY <1>5, <2>1, Joined
<1>8. Versions(f \o Append(c, t)) = Append(Versions(m), Current)
  BY <1>4, <1>5, VersionsAppended
<1> HIDE DEF m
<1>9. Len(m) < Room
  <2> DEFINE lf == Len(f)
             lc == Len(c)
             a == allowed[r]
  <2>1. lf \in Nat /\ lc \in Nat /\ a \in Nat /\ Room \in Int /\ Len(m) = lf + lc
    BY <1>7, LengthsAssumption DEF TypeInv, Room
  <2>2. a > 0 /\ (a = 0 \/ lf + a <= Room) /\ (a = 0 \/ lc < a)
    BY <1>2, <1>3 DEF RoomInv, f, c
  <2> HIDE DEF lf, lc, a, Room
  <2> QED
    BY <2>1, <2>2
<1>10. \A i \in 1 .. Len(m) : m[i].ver <= Current
  <2> SUFFICES ASSUME NEW i \in 1 .. Len(m) PROVE m[i].ver <= Current
    OBVIOUS
  <2>1. m[i].ver \in Nat
    <3>1. m[i] \in Token
      BY <1>7
    <3> QED
      BY <3>1 DEF Token
  <2>2. CASE i \in 1 .. Len(f)
    <3>1. m[i].ver <= maxSteps[r] /\ maxSteps[r] <= Current
      BY <1>2, <1>7, <2>2 DEF SpanInv, f
    <3>2. maxSteps[r] \in Int
      BY DEF TypeInv
    <3> QED
      BY <1>6, <2>1, <3>1, <3>2
  <2>3. CASE i - Len(f) \in 1 .. Len(c) /\ m[i] = c[i - Len(f)]
    <3>1. m[i].ver = Current
      BY <1>2, <1>3, <2>3 DEF SpanInv, c
    <3> QED
      BY <2>1, <3>1
  <2> QED
    BY <1>7, <2>2, <2>3
<1>11. Versions(m) \in Seq(Nat) /\ DOMAIN Versions(m) = 1 .. Len(m) /\ Len(Versions(m)) = Len(m)
       /\ \A i \in 1 .. Len(m) : Versions(m)[i] = m[i].ver
  <2>1. /\ Versions(m) \in Seq(Nat) /\ Len(Versions(m)) = Len(m)
        /\ \A i \in 1 .. Len(m) : Versions(m)[i] = m[i].ver
    BY <1>7, VersionsOf
  <2>2. DOMAIN Versions(m) = 1 .. Len(Versions(m))
    BY <2>1
  <2> QED
    BY <2>1, <2>2
<1>12. StreamNow[r] = Versions(m) /\ r \notin ClosedNow
  BY <1>3, <1>5 DEF StreamNow, ClosedNow
<1>13. StreamNow' = [StreamNow EXCEPT ![r] = Append(@, Current)]
  <2>1. \A q \in Requests \ {r} : Merged(q)' = Merged(q)
    BY <1>1 DEF Untouched, Merged
  <2>2. \A q \in Requests \ {r} : Versions(Merged(q))' = Versions(Merged(q))
    BY <2>1 DEF Versions
  <2>3. Versions(Merged(r))' = Append(Versions(m), Current)
    BY <1>5, <1>8 DEF Versions
  <2> QED
    BY <1>12, <2>2, <2>3 DEF StreamNow
<1>14. ClosedNow' = ClosedNow /\ SpansNow' = SpansNow
  <2>1. \A q \in Requests : pc'[q] = "done" <=> pc[q] = "done"
    BY <1>1, <1>3, <1>5 DEF Untouched
  <2> QED
    BY <1>5, <2>1 DEF ClosedNow, SpansNow
<1>15. /\ r \notin ClosedNow /\ Len(StreamNow[r]) < Room
       /\ Current \in {version - 1, version} \cap Nat
       /\ \A i \in DOMAIN StreamNow[r] : StreamNow[r][i] <= Current
       /\ StreamNow' = [StreamNow EXCEPT ![r] = Append(@, Current)]
       /\ UNCHANGED <<version, ClosedNow, SpansNow>>
  BY <1>1, <1>6, <1>9, <1>10, <1>11, <1>12, <1>13, <1>14
<1> QED
  BY <1>15 DEF Stream!Grow, StreamNow, ClosedNow, SpansNow, Room

\* An answer merged shows nothing new while the request goes on, ...
LEMMA ContinueStutters ==
  ASSUME TypeInv, NEW r \in Requests, MergeAndContinue(r)
  PROVE  UNCHANGED <<version, StreamNow, ClosedNow, SpansNow>>
<1> USE DEF Set, Goto, MergeAndContinue, MergeState
<1>1. version' = version /\ \A q \in Requests \ {r} : Untouched(q)
  BY DEF Untouched, TypeInv, syncVars
<1>2. pc[r] # "done" /\ pc'[r] # "done"
  BY DEF TypeInv
<1>3. Merged(r)' = Merged(r)
  <2>1. final'[r] = Merged(r) /\ chunk'[r] = <<>>
    BY DEF TypeInv
  <2>2. Merged(r) \in Seq(Token)
    BY DEF Merged, TypeInv
  <2> QED
    BY <2>1, <2>2, ConcatEmptySeq DEF Merged
<1> QED
  BY <1>1, <1>2, <1>3, StreamStutters

\* ... and closes the stream with the span of its versions when it returns.
LEMMA ReturnCloses ==
  ASSUME TypeInv, SyncInv, TypeInv', SyncInv', RequestInv', NEW r \in Requests,
         MergeAndReturn(r)
  PROVE  Stream!Close(r)
<1> USE DEF Set, Goto
<1> DEFINE m == Merged(r)
           lo == minSteps'[r]
           hi == maxSteps'[r]
<1>1. UNCHANGED syncVars /\ version' = version /\ \A q \in Requests \ {r} : Untouched(q)
  BY DEF MergeAndReturn, MergeState, Untouched, TypeInv, syncVars
<1>2. /\ pc[r] = "answered" /\ pc'[r] = "done" /\ final'[r] = m /\ chunk'[r] = <<>>
      /\ hi = stamped[r] /\ stamped[r] \in Nat
  BY DEF MergeAndReturn, MergeState, TypeInv
<1>3. m \in Seq(Token) /\ Merged(r)' = m
  <2>1. m \in Seq(Token)
    BY DEF Merged, TypeInv
  <2> QED
    BY <1>2, <2>1, ConcatEmptySeq DEF Merged
<1>4. Current <= version /\ Current' = Current /\ Current \in Nat /\ version \in Nat
  <2>1. SyncTypeOK
    BY DEF TypeInv
  <2> QED
    BY <1>1, <2>1, CurrentGrows DEF SyncTypeOK, Current, Updated, syncVars
<1>5. /\ hi <= Current'
      /\ lo <= hi /\ 0 <= lo
      /\ \A i \in 1 .. Len(m) : lo <= m[i].ver /\ m[i].ver <= hi
  <2>1. SpanInv(r)'
    BY DEF RequestInv
  <2>2. hi # NoSteps
    BY <1>2 DEF NoSteps
  <2> HIDE DEF m, Current
  <2> QED
    BY <1>2, <2>1, <2>2 DEF SpanInv
<1>6. lo \in Int /\ hi \in Int
  BY DEF TypeInv
<1> HIDE DEF m, lo, hi, Current
<1>7. lo \in 0 .. version /\ hi \in 0 .. version
  BY <1>4, <1>5, <1>6
<1>8. /\ DOMAIN Versions(m) = 1 .. Len(m)
      /\ \A i \in 1 .. Len(m) : Versions(m)[i] = m[i].ver
  <2>1. /\ Versions(m) \in Seq(Nat) /\ Len(Versions(m)) = Len(m)
        /\ \A i \in 1 .. Len(m) : Versions(m)[i] = m[i].ver
    BY <1>3, VersionsOf
  <2>2. DOMAIN Versions(m) = 1 .. Len(Versions(m))
    BY <2>1
  <2> QED
    BY <2>1, <2>2
<1>9. StreamNow[r] = Versions(m) /\ r \notin ClosedNow
  BY <1>2 DEF StreamNow, ClosedNow, m
<1>10. StreamNow' = StreamNow
  <2>1. \A q \in Requests \ {r} : Merged(q)' = Merged(q)
    BY <1>1 DEF Untouched, Merged
  <2>2. Merged(r)' = Merged(r)
    BY <1>3 DEF m
  <2>3. \A q \in Requests : Versions(Merged(q))' = Versions(Merged(q))
    BY <2>1, <2>2 DEF Versions
  <2> QED
    BY <2>3 DEF StreamNow
<1>11. ClosedNow' = ClosedNow \cup {r}
  BY <1>1, <1>2 DEF ClosedNow, Untouched
<1>12. SpansNow' = [SpansNow EXCEPT ![r] = <<lo, hi>>]
  BY <1>1, <1>2 DEF SpansNow, Untouched, lo, hi
<1>13. /\ r \notin ClosedNow /\ ClosedNow' = ClosedNow \cup {r}
       /\ lo \in 0 .. version /\ hi \in 0 .. version /\ lo <= hi
       /\ \A i \in DOMAIN StreamNow[r] : lo <= StreamNow[r][i] /\ StreamNow[r][i] <= hi
       /\ SpansNow' = [SpansNow EXCEPT ![r] = <<lo, hi>>]
       /\ UNCHANGED <<version, StreamNow>>
  BY <1>1, <1>5, <1>7, <1>8, <1>9, <1>10, <1>11, <1>12
<1> QED
  BY <1>13 DEF Stream!Close, StreamNow, ClosedNow, SpansNow

\* A phase of update_weights shows nothing but a version published.
LEMMA SyncShows ==
  ASSUME TypeInv, Sync
  PROVE  Stream!Publish \/ UNCHANGED <<version, StreamNow, ClosedNow, SpansNow>>
<1>1. UNCHANGED <<StreamNow, ClosedNow, SpansNow>>
  <2>1. UNCHANGED <<final, chunk, pc, minSteps, maxSteps>>
    BY DEF Sync, requestVars
  <2> QED
    BY <2>1, StreamSame DEF Merged
<1>2. CASE UpdateWeights
  BY <1>1, <1>2 DEF UpdateWeights, Stream!Publish, StreamNow, ClosedNow, SpansNow
<1>3. CASE NextPhase
  BY <1>1, <1>3 DEF NextPhase, PhaseEnds
<1>4. ASSUME NEW s \in Servers, LoadBegins(s) \/ LoadEnds(s) \/ Stamp(s) \/ ResumeReplica(s)
      PROVE  version' = version
  BY <1>4 DEF LoadBegins, LoadEnds, Stamp, ResumeReplica
<1> QED
  BY <1>1, <1>2, <1>3, <1>4 DEF Sync

\* Aborts, drained replicas, releases and no step at all show nothing.
LEMMA OthersStutter ==
  ASSUME \/ (\E s \in Servers : Abort(s) \/ Drain(s)) \/ (\E w \in Workers : Released(w))
         \/ UNCHANGED vars,
         TypeInv
  PROVE  UNCHANGED <<version, StreamNow, ClosedNow, SpansNow>>
<1>1. UNCHANGED <<version, final, chunk, minSteps, maxSteps>>
  BY DEF Abort, AbortReplica, Drain, DrainReplica, Released, vars, syncVars, requestVars
<1>2. \A r \in Requests : pc'[r] = "done" <=> pc[r] = "done"
  <2>1. ASSUME NEW s \in Servers, Abort(s)
        PROVE  \A r \in Requests : pc'[r] = "done" <=> pc[r] = "done"
    BY <2>1 DEF Abort, RunningOn
  <2>2. CASE (\E s \in Servers : Drain(s)) \/ (\E w \in Workers : Released(w)) \/ UNCHANGED vars
    BY <2>2 DEF Drain, Released, vars, requestVars
  <2> QED
    BY <2>1, <2>2
<1>3. \A r \in Requests : Merged(r)' = Merged(r)
  BY <1>1 DEF Merged
<1> QED
  BY <1>1, <1>2, <1>3, StreamSame

\* Interruptible generation implements the stream of tokens that only grows: of the aborts,
\* the replicas and the resubmissions of generate nothing is to be seen.
THEOREM Refinement ==
  ASSUME EnginePauses = TRUE, LimitFits
  PROVE  Spec => ImplementsStream
<1>1. Init => Stream!Init
  <2> SUFFICES ASSUME Init PROVE Stream!Init
    OBVIOUS
  <2>1. \A r \in Requests : Merged(r) = <<>>
    BY DEF Init, Merged
  <2>2. Versions(<<>>) = <<>>
    BY DEF Versions
  <2>3. StreamNow = [r \in Requests |-> <<>>]
    BY <2>1, <2>2 DEF StreamNow
  <2>4. ClosedNow = {} /\ SpansNow = [r \in Requests |-> <<NoSteps, NoSteps>>] /\ version = 0
    BY DEF Init, SyncInit, ClosedNow, SpansNow
  <2> QED
    BY <2>3, <2>4 DEF Stream!Init, StreamNow, ClosedNow, SpansNow
<1>2. Inv /\ Inv' /\ [Next]_vars => [Stream!Next]_(Stream!vars)
  <2> SUFFICES ASSUME Inv, Inv', [Next]_vars
               PROVE  Stream!Next \/ UNCHANGED <<version, StreamNow, ClosedNow, SpansNow>>
    BY DEF Stream!vars, StreamNow, ClosedNow, SpansNow
  <2>1. TypeInv /\ SyncInv /\ CallInv /\ RequestInv /\ TypeInv' /\ SyncInv' /\ RequestInv'
    BY DEF Inv
  <2>2. ASSUME NEW r \in Requests,
               Start(r) \/ Enter(r) \/ Acquired(r) \/ Submit(r) \/ Admit(r)
        PROVE  UNCHANGED <<version, StreamNow, ClosedNow, SpansNow>>
    <3>1. Acquired(r) => pc[r] = "acquire"
      BY <2>1, AcquiredAsked
    <3> QED
      BY <2>1, <2>2, <3>1, WaitingStutters
  <2>3. ASSUME NEW r \in Requests, Generate(r) PROVE Stream!Grow(r)
    BY <2>1, <2>3, GenerateGrows
  <2>4. ASSUME NEW r \in Requests, MergeAndContinue(r)
        PROVE  UNCHANGED <<version, StreamNow, ClosedNow, SpansNow>>
    BY <2>1, <2>4, ContinueStutters
  <2>5. ASSUME NEW r \in Requests, MergeAndReturn(r) PROVE Stream!Close(r)
    BY <2>1, <2>5, ReturnCloses
  <2>6. CASE Sync
    BY <2>1, <2>6, SyncShows DEF Stream!Next
  <2>7. CASE \/ (\E s \in Servers : Abort(s) \/ Drain(s)) \/ (\E w \in Workers : Released(w))
             \/ UNCHANGED vars
    BY <2>1, <2>7, OthersStutter
  <2> QED
    BY <2>2, <2>3, <2>4, <2>5, <2>6, <2>7 DEF Next, Stream!Next
<1> QED
  BY <1>1, <1>2, RolloutInv, PTL DEF Spec, ImplementsStream, Stream!Spec

-----------------------------------------------------------------------------
\* The balancer's counts.

\* Where the releases to s stand in the calls c.
Places(c, s) ==
  {p \in Workers \X Nat : p[2] \in 1 .. Len(c[p[1]]) /\ c[p[1]][p[2]] = ReleaseCall(s)}

\* These are the releases on their way.
LEMMA ReleasePlaces ==
  ASSUME calls \in [Workers -> Seq(Calls)], NEW s \in Servers
  PROVE  ReleasesTo(s) = Places(calls, s)
<1>1. \A w \in Workers : DOMAIN calls[w] = 1 .. Len(calls[w]) /\ Len(calls[w]) \in Nat
  OBVIOUS
<1>2. ASSUME NEW p \in ReleasesTo(s) PROVE p \in Places(calls, s)
  <2>1. PICK w \in Workers : p \in {w} \X {i \in DOMAIN calls[w] : calls[w][i] = ReleaseCall(s)}
    BY <1>2 DEF ReleasesTo
  <2>2. p = <<p[1], p[2]>> /\ p[1] = w /\ p[2] \in DOMAIN calls[w] /\ calls[w][p[2]] = ReleaseCall(s)
    BY <2>1
  <2>3. p[2] \in 1 .. Len(calls[w]) /\ p[2] \in Nat
    BY <1>1, <2>2
  <2> QED
    BY <2>2, <2>3 DEF Places
<1>3. ASSUME NEW p \in Places(calls, s) PROVE p \in ReleasesTo(s)
  <2>1. /\ p \in Workers \X Nat /\ p[1] \in Workers /\ p[2] \in DOMAIN calls[p[1]]
        /\ calls[p[1]][p[2]] = ReleaseCall(s)
    BY <1>1, <1>3 DEF Places
  <2>2. p \in {p[1]} \X {i \in DOMAIN calls[p[1]] : calls[p[1]][i] = ReleaseCall(s)}
    BY <2>1
  <2> QED
    BY <2>1, <2>2 DEF ReleasesTo
<1> QED
  BY <1>2, <1>3

\* d has one place more than c, if it counts.
OneMorePlace(c, d, s, counts) ==
  /\ IsFiniteSet(Places(c, s)) /\ IsFiniteSet(Places(d, s))
  /\ Cardinality(Places(c, s)) \in Nat /\ Cardinality(Places(d, s)) \in Nat
  /\ Cardinality(Places(d, s)) = Cardinality(Places(c, s)) + (IF counts THEN 1 ELSE 0)

\* One more call: one more place, if it is a release to s.
LEMMA PlaceSent ==
  ASSUME NEW c \in [Workers -> Seq(Calls)], NEW w \in Workers, NEW b \in Calls, NEW s \in Servers,
         IsFiniteSet(Places(c, s))
  PROVE  OneMorePlace(c, [c EXCEPT ![w] = Append(c[w], b)], s, b = ReleaseCall(s))
<1> DEFINE d == [c EXCEPT ![w] = Append(c[w], b)]
           n == Len(c[w])
           x == <<w, n + 1>>
           P == Places(c, s)
           Q == Places(d, s)
<1>1. c[w] \in Seq(Calls) /\ n \in Nat
  OBVIOUS
<1>2. /\ Append(c[w], b) \in Seq(Calls) /\ Len(Append(c[w], b)) = n + 1
      /\ Append(c[w], b)[n + 1] = b /\ \A i \in 1 .. n : Append(c[w], b)[i] = c[w][i]
  BY <1>1
<1>3. /\ d \in [Workers -> Seq(Calls)] /\ d[w] = Append(c[w], b)
      /\ \A v \in Workers : v # w => d[v] = c[v]
  BY <1>2
<1>4. x \notin P
  BY <1>1 DEF Places
<1>5. Q = IF b = ReleaseCall(s) THEN P \cup {x} ELSE P
  <2>1. ASSUME NEW v \in Workers, NEW i \in Nat
        PROVE  <<v, i>> \in Q <=> <<v, i>> \in P \/ (<<v, i>> = x /\ b = ReleaseCall(s))
    <3>1. CASE v # w
      BY <1>3, <3>1 DEF Places
    <3>2. CASE v = w
      <4>1. <<v, i>> \in Q <=> i \in 1 .. n + 1 /\ Append(c[w], b)[i] = ReleaseCall(s)
        BY <1>2, <1>3, <3>2 DEF Places
      <4>2. <<v, i>> \in P <=> i \in 1 .. n /\ c[w][i] = ReleaseCall(s)
        BY <3>2 DEF Places
      <4>3. i \in 1 .. n + 1 <=> i \in 1 .. n \/ i = n + 1
        BY <1>1
      <4>4. <<v, i>> = x <=> i = n + 1
        BY <3>2
      <4>5. ~(n + 1 \in 1 .. n)
        BY <1>1
      <4> HIDE DEF n, x, P, Q
      <4> QED
        BY <1>2, <4>1, <4>2, <4>3, <4>4, <4>5
    <3> QED
      BY <3>1, <3>2
  <2>2. P \subseteq Workers \X Nat /\ Q \subseteq Workers \X Nat /\ x \in Workers \X Nat
    BY <1>1 DEF Places
  <2> HIDE DEF P, Q, x
  <2>3. ASSUME NEW p PROVE p \in Q <=> p \in P \/ (p = x /\ b = ReleaseCall(s))
    <3>1. CASE p \in Workers \X Nat
      <4>1. p = <<p[1], p[2]>> /\ p[1] \in Workers /\ p[2] \in Nat
        BY <3>1
      <4> QED
        BY <2>1, <4>1
    <3>2. CASE p \notin Workers \X Nat
      BY <2>2, <3>2
    <3> QED
      BY <3>1, <3>2
  <2> QED
    BY <2>3
<1>6. IsFiniteSet(P \cup {x}) /\ Cardinality(P \cup {x}) = Cardinality(P) + 1
  <2> HIDE DEF P, x
  <2> QED
    BY <1>4, FS_AddElement DEF P
<1>7. Cardinality(P) \in Nat
  BY FS_CardinalityType
<1> HIDE DEF P, Q, x
<1>8. IsFiniteSet(Q) /\ Cardinality(Q) = Cardinality(P) + (IF b = ReleaseCall(s) THEN 1 ELSE 0)
  BY <1>5, <1>6, <1>7 DEF P
<1> HIDE DEF d
<1>9. OneMorePlace(c, d, s, b = ReleaseCall(s))
  <2>1. IsFiniteSet(P) /\ Cardinality(Q) \in Nat
    BY <1>8, FS_CardinalityType DEF P
  <2> QED
    BY <1>7, <1>8, <2>1 DEF P, Q, OneMorePlace
<1> QED
  BY <1>9 DEF d

\* The first call taken: one place less, if it is a release to s; the others move up.
LEMMA PlaceTaken ==
  ASSUME NEW c \in [Workers -> Seq(Calls)], NEW w \in Workers, c[w] # <<>>, NEW s \in Servers,
         IsFiniteSet(Places(c, s))
  PROVE  OneMorePlace([c EXCEPT ![w] = Tail(c[w])], c, s, Head(c[w]) = ReleaseCall(s))
<1> DEFINE d == [c EXCEPT ![w] = Tail(c[w])]
           n == Len(c[w])
           x == <<w, 1>>
           P == Places(c, s)
           Q == Places(d, s)
           A == P \ {x}
           Up(p) == <<p[1], IF p[1] = w THEN p[2] - 1 ELSE p[2]>>
           f == [p \in A |-> Up(p)]
<1>1. c[w] \in Seq(Calls) /\ n \in Nat /\ n > 0
  OBVIOUS
<1>2. /\ Tail(c[w]) \in Seq(Calls) /\ Len(Tail(c[w])) = n - 1
      /\ \A i \in 1 .. n - 1 : Tail(c[w])[i] = c[w][i + 1]
      /\ Head(c[w]) = c[w][1]
  BY <1>1
<1>3. /\ d \in [Workers -> Seq(Calls)] /\ d[w] = Tail(c[w])
      /\ \A v \in Workers : v # w => d[v] = c[v]
  BY <1>2
<1>4. /\ \A v \in Workers \ {w}, i \in Nat : <<v, i>> \in Q <=> <<v, i>> \in P
      /\ \A i \in Nat : <<w, i>> \in Q <=> i > 0 /\ <<w, i + 1>> \in P
  <2>1. ASSUME NEW v \in Workers \ {w}, NEW i \in Nat PROVE <<v, i>> \in Q <=> <<v, i>> \in P
    BY <1>3 DEF Places
  <2>2. ASSUME NEW i \in Nat PROVE <<w, i>> \in Q <=> i > 0 /\ <<w, i + 1>> \in P
    <3>1. <<w, i>> \in Q <=> i \in 1 .. n - 1 /\ Tail(c[w])[i] = ReleaseCall(s)
      BY <1>2, <1>3 DEF Places
    <3>2. <<w, i + 1>> \in P <=> i + 1 \in 1 .. n /\ c[w][i + 1] = ReleaseCall(s)
      BY DEF Places
    <3>3. i \in 1 .. n - 1 <=> i > 0 /\ i + 1 \in 1 .. n
      BY <1>1
    <3> HIDE DEF n, P, Q
    <3> QED
      BY <1>2, <3>1, <3>2, <3>3
  <2> QED
    BY <2>1, <2>2
<1>5. P \subseteq Workers \X Nat /\ Q \subseteq Workers \X Nat
  BY DEF Places
<1>6. \A i \in Nat : <<w, i>> \in P => i > 0
  BY <1>1 DEF Places
<1>7. x \in P <=> Head(c[w]) = ReleaseCall(s)
  BY <1>1, <1>2 DEF Places
<1> HIDE DEF P, Q, n
<1>8. f \in [A -> Q]
  <2> SUFFICES ASSUME NEW p \in A PROVE Up(p) \in Q
    OBVIOUS
  <2>1. p = <<p[1], p[2]>> /\ p[1] \in Workers /\ p[2] \in Nat /\ p \in P /\ p # x
    BY <1>5
  <2>2. CASE p[1] = w
    <3>1. p[2] > 0 /\ p[2] # 1
      BY <1>6, <2>1, <2>2
    <3>2. p[2] - 1 \in Nat /\ p[2] - 1 > 0 /\ (p[2] - 1) + 1 = p[2]
      BY <2>1, <3>1
    <3>3. <<w, p[2] - 1>> \in Q
      BY <1>4, <2>1, <2>2, <3>2
    <3> QED
      BY <2>2, <3>3
  <2>3. CASE p[1] # w
    BY <1>4, <2>1, <2>3
  <2> QED
    BY <2>2, <2>3
<1>9. \A p, q \in A : f[p] = f[q] => p = q
  <2> SUFFICES ASSUME NEW p \in A, NEW q \in A, Up(p) = Up(q) PROVE p = q
    OBVIOUS
  <2>1. /\ p = <<p[1], p[2]>> /\ p[2] \in Nat /\ q = <<q[1], q[2]>> /\ q[2] \in Nat
    BY <1>5
  <2>2. p[1] = q[1] /\ (IF p[1] = w THEN p[2] - 1 ELSE p[2]) = (IF q[1] = w THEN q[2] - 1 ELSE q[2])
    OBVIOUS
  <2>3. p[2] = q[2]
    BY <2>1, <2>2
  <2> QED
    BY <2>1, <2>2, <2>3
<1>10. \A q \in Q : \E p \in A : f[p] = q
  <2> SUFFICES ASSUME NEW q \in Q PROVE \E p \in A : Up(p) = q
    OBVIOUS
  <2>1. q = <<q[1], q[2]>> /\ q[1] \in Workers /\ q[2] \in Nat
    BY <1>5
  <2>2. CASE q[1] = w
    <3> DEFINE p == <<w, q[2] + 1>>
    <3>1. q[2] > 0 /\ p \in P
      BY <1>4, <2>1, <2>2
    <3>2. p # x /\ p[1] = w /\ p[2] = q[2] + 1
      BY <2>1, <3>1
    <3> HIDE DEF p
    <3>3. p[2] - 1 = q[2]
      BY <2>1, <3>2
    <3>4. Up(p) = <<w, p[2] - 1>>
      BY <3>2
    <3>5. Up(p) = q
      BY <2>1, <2>2, <3>3, <3>4
    <3> QED
      BY <3>1, <3>2, <3>5
  <2>3. CASE q[1] # w
    <3>1. q \in P /\ q # x
      BY <1>4, <2>1, <2>3
    <3>2. Up(q) = q
      BY <2>1, <2>3
    <3> QED
      BY <3>1, <3>2
  <2> QED
    BY <2>2, <2>3
<1>11. ExistsBijection(A, Q)
  <2> HIDE DEF A, f
  <2>1. f \in Bijection(A, Q)
    BY <1>8, <1>9, <1>10 DEF Bijection, Injection, Surjection, IsInjective
  <2> QED
    BY <2>1 DEF ExistsBijection
<1>12. /\ IsFiniteSet(A)
       /\ Cardinality(A) = IF x \in P THEN Cardinality(P) - 1 ELSE Cardinality(P)
  <2>1. IsFiniteSet(P)
    BY DEF P
  <2> HIDE DEF x
  <2> QED
    BY <2>1, FS_RemoveElement
<1>13. IsFiniteSet(Q) /\ Cardinality(Q) = Cardinality(A)
  <2> HIDE DEF A
  <2> QED
    BY <1>11, <1>12, FS_Bijection
<1>14. Cardinality(Q) \in Nat /\ Cardinality(P) \in Nat
  BY <1>13, FS_CardinalityType DEF P
<1>15. Cardinality(P) = Cardinality(Q) + (IF Head(c[w]) = ReleaseCall(s) THEN 1 ELSE 0)
  <2> DEFINE a == Cardinality(P)
             b == Cardinality(Q)
  <2>1. a \in Nat /\ b \in Nat /\ b = (IF x \in P THEN a - 1 ELSE a)
    BY <1>12, <1>13, <1>14
  <2> HIDE DEF a, b
  <2>2. a = b + (IF x \in P THEN 1 ELSE 0)
    BY <2>1
  <2> QED
    BY <1>7, <2>2 DEF a, b
<1> HIDE DEF d
<1>16. OneMorePlace(d, c, s, Head(c[w]) = ReleaseCall(s))
  BY <1>13, <1>14, <1>15 DEF P, Q, OneMorePlace
<1> QED
  BY <1>16 DEF d

\* A request holds a server from the answer of acquire until its call is merged.
Holding == {"submit", "waiting", "running", "answered"}
HoldInv == \A r \in Requests : server[r] \in Servers <=> pc[r] \in Holding
CountInv ==
  \A s \in Servers :
    /\ IsFiniteSet(HeldBy(s)) /\ IsFiniteSet(Places(calls, s))
    /\ inflight[s] = Cardinality(HeldBy(s)) + Cardinality(Places(calls, s))
AccountInv == inflight \in [Servers -> Nat] /\ HoldInv /\ CountInv

\* A release names its server.
LEMMA ReleaseKinds == \A s, t \in Servers : ReleaseCall(s) = ReleaseCall(t) => s = t
<1> SUFFICES ASSUME NEW s \in Servers, NEW t \in Servers, ReleaseCall(s) = ReleaseCall(t)
             PROVE  s = t
  OBVIOUS
<1>1. ReleaseCall(s).server = s /\ ReleaseCall(t).server = t
  BY DEF ReleaseCall
<1> QED
  BY <1>1

\* No server is not a server.
LEMMA NoneHeld == NoServer \notin Servers
BY BalancerAssumption DEF NoServer, Servers

\* A request that gets a server, ...
LEMMA HeldMore ==
  ASSUME TypeInv, NEW r \in Requests, NEW t \in Servers, NEW s \in Servers,
         server[r] \notin Servers, server' = [server EXCEPT ![r] = t], IsFiniteSet(HeldBy(s))
  PROVE  /\ IsFiniteSet(HeldBy(s)')
         /\ Cardinality(HeldBy(s)') = Cardinality(HeldBy(s)) + (IF s = t THEN 1 ELSE 0)
<1> DEFINE H == HeldBy(s)
<1>1. server \in [Requests -> Servers \cup {NoServer}]
  BY DEF TypeInv
<1>2. r \notin H /\ H' = IF s = t THEN H \cup {r} ELSE H
  BY <1>1 DEF HeldBy
<1>3. IsFiniteSet(H \cup {r}) /\ Cardinality(H \cup {r}) = Cardinality(H) + 1 /\ Cardinality(H) \in Nat
  <2>1. IsFiniteSet(H)
    OBVIOUS
  <2> HIDE DEF H
  <2> QED
    BY <1>2, <2>1, FS_AddElement, FS_CardinalityType
<1> QED
  BY <1>2, <1>3

\* ... and one that gives it back.
LEMMA HeldLess ==
  ASSUME TypeInv, NEW r \in Requests, NEW s \in Servers,
         server[r] \in Servers, server' = [server EXCEPT ![r] = NoServer], IsFiniteSet(HeldBy(s))
  PROVE  /\ IsFiniteSet(HeldBy(s)') /\ Cardinality(HeldBy(s)') \in Nat
         /\ Cardinality(HeldBy(s)) = Cardinality(HeldBy(s)') + (IF s = server[r] THEN 1 ELSE 0)
<1> DEFINE H == HeldBy(s)
           G == HeldBy(s)'
<1>1. server \in [Requests -> Servers \cup {NoServer}]
  BY DEF TypeInv
<1>2. G = H \ {r} /\ (r \in H <=> s = server[r])
  BY <1>1, NoneHeld DEF HeldBy
<1>3. /\ IsFiniteSet(G) /\ Cardinality(G) = (IF r \in H THEN Cardinality(H) - 1 ELSE Cardinality(H))
      /\ Cardinality(H) \in Nat /\ Cardinality(G) \in Nat
  <2>1. IsFiniteSet(H)
    OBVIOUS
  <2> HIDE DEF H, G
  <2> QED
    BY <1>2, <2>1, FS_RemoveElement, FS_CardinalityType
<1>4. Cardinality(H) = Cardinality(G) + (IF s = server[r] THEN 1 ELSE 0)
  <2> DEFINE a == Cardinality(H)
             b == Cardinality(G)
  <2>1. a \in Nat /\ b \in Nat /\ b = (IF s = server[r] THEN a - 1 ELSE a)
    BY <1>2, <1>3
  <2> HIDE DEF a, b
  <2>2. a = b + (IF s = server[r] THEN 1 ELSE 0)
    BY <2>1
  <2> QED
    BY <2>2 DEF a, b
<1> QED
  BY <1>3, <1>4

\* A call to acquire sent, ...
LEMMA AccountEnter ==
  ASSUME TypeInv, AccountInv, NEW r \in Requests, Enter(r)
  PROVE  AccountInv'
<1> DEFINE u == WorkerOf[r]
           b == AcquireCall(r)
<1>1. /\ u \in Workers /\ b \in Calls /\ \A s \in Servers : b # ReleaseCall(s)
      /\ calls' = [calls EXCEPT ![u] = Append(calls[u], b)] /\ UNCHANGED <<inflight, server>>
      /\ pc[r] = "prompt" /\ pc' = [pc EXCEPT ![r] = "acquire"]
  BY BalancerAssumption, CallKinds DEF Enter, Sent, Goto, Set
<1>2. HoldInv'
  BY <1>1 DEF AccountInv, HoldInv, Holding, TypeInv
<1>3. ASSUME NEW s \in Servers
      PROVE  /\ IsFiniteSet(HeldBy(s)') /\ IsFiniteSet(Places(calls', s))
             /\ inflight'[s] = Cardinality(HeldBy(s)') + Cardinality(Places(calls', s))
  <2>1. /\ IsFiniteSet(Places(calls', s))
        /\ Cardinality(Places(calls', s)) = Cardinality(Places(calls, s)) + 0
    <3>1. calls \in [Workers -> Seq(Calls)] /\ IsFiniteSet(Places(calls, s)) /\ b # ReleaseCall(s)
      BY <1>1 DEF TypeInv, AccountInv, CountInv
    <3> HIDE DEF b, u
    <3>2. OneMorePlace(calls, calls', s, b = ReleaseCall(s))
      BY <1>1, <3>1, PlaceSent
    <3> QED
      BY <3>1, <3>2 DEF OneMorePlace
  <2>2. Cardinality(Places(calls, s)) \in Nat
    BY FS_CardinalityType DEF AccountInv, CountInv
  <2>3. HeldBy(s)' = HeldBy(s)
    BY <1>1 DEF HeldBy
  <2> QED
    BY <1>1, <2>1, <2>2, <2>3 DEF AccountInv, CountInv
<1> QED
  BY <1>1, <1>2, <1>3 DEF AccountInv, CountInv, Places

\* ... answered: the balancer counts the request, ...
LEMMA AccountAcquired ==
  ASSUME TypeInv, CallInv, AccountInv, NEW r \in Requests, Acquired(r)
  PROVE  AccountInv'
<1> DEFINE u == WorkerOf[r]
<1>1. PICK t \in Servers : AcquireServer(r, t) /\ server' = [server EXCEPT ![r] = t]
  BY DEF Acquired, Set
<1>2. /\ u \in Workers /\ \A s \in Servers : AcquireCall(r) # ReleaseCall(s)
      /\ calls[u] # <<>> /\ Head(calls[u]) = AcquireCall(r)
      /\ calls' = [calls EXCEPT ![u] = Tail(calls[u])]
      /\ inflight' = [inflight EXCEPT ![t] = inflight[t] + 1]
      /\ pc' = [pc EXCEPT ![r] = "submit"]
  BY <1>1, BalancerAssumption, CallKinds DEF Acquired, Received, AcquireServer, Goto, Set
<1>3. pc[r] = "acquire" /\ server[r] \notin Servers
  BY AcquiredAsked DEF AccountInv, HoldInv, Holding
<1>4. HoldInv'
  BY <1>1, <1>2 DEF AccountInv, HoldInv, Holding, TypeInv
<1>5. /\ inflight' \in [Servers -> Nat]
      /\ \A s \in Servers : inflight'[s] = inflight[s] + (IF s = t THEN 1 ELSE 0)
  BY <1>2 DEF AccountInv
<1>6. ASSUME NEW s \in Servers
      PROVE  /\ IsFiniteSet(HeldBy(s)') /\ IsFiniteSet(Places(calls', s))
             /\ inflight'[s] = Cardinality(HeldBy(s)') + Cardinality(Places(calls', s))
  <2>1. /\ calls \in [Workers -> Seq(Calls)] /\ IsFiniteSet(HeldBy(s)) /\ IsFiniteSet(Places(calls, s))
        /\ inflight[s] = Cardinality(HeldBy(s)) + Cardinality(Places(calls, s))
    BY DEF TypeInv, AccountInv, CountInv
  <2>2. /\ IsFiniteSet(Places(calls', s)) /\ Cardinality(Places(calls', s)) \in Nat
        /\ Cardinality(Places(calls, s)) = Cardinality(Places(calls', s)) + 0
    <3> HIDE DEF u
    <3>1. Head(calls[u]) # ReleaseCall(s)
      BY <1>2
    <3>2. OneMorePlace(calls', calls, s, Head(calls[u]) = ReleaseCall(s))
      BY <1>2, <2>1, PlaceTaken
    <3> QED
      BY <3>1, <3>2 DEF OneMorePlace
  <2>3. /\ IsFiniteSet(HeldBy(s)')
        /\ Cardinality(HeldBy(s)') = Cardinality(HeldBy(s)) + (IF s = t THEN 1 ELSE 0)
    BY <1>1, <1>3, <2>1, HeldMore
  <2>4. Cardinality(HeldBy(s)) \in Nat
    BY <2>1, FS_CardinalityType
  <2> DEFINE h == Cardinality(HeldBy(s))
             i == Cardinality(HeldBy(s)')
             p == Cardinality(Places(calls, s))
             q == Cardinality(Places(calls', s))
  <2>5. /\ h \in Nat /\ q \in Nat /\ p = q + 0 /\ i = h + (IF s = t THEN 1 ELSE 0)
        /\ inflight[s] = h + p
    BY <2>1, <2>2, <2>3, <2>4
  <2> HIDE DEF h, i, p, q
  <2>6. inflight'[s] = i + q
    BY <1>5, <2>5
  <2> QED
    BY <2>2, <2>3, <2>6 DEF i, q
<1> QED
  BY <1>4, <1>5, <1>6 DEF AccountInv, CountInv, Places

\* ... and a release arrived: the count it lowers is not 0.
LEMMA AccountReleased ==
  ASSUME TypeInv, AccountInv, NEW w \in Workers, Released(w)
  PROVE  AccountInv'
<1>1. PICK t \in Servers : Received(w, ReleaseCall(t)) /\ ReleaseServer(t)
  BY DEF Released
<1>2. /\ calls[w] # <<>> /\ Head(calls[w]) = ReleaseCall(t)
      /\ calls' = [calls EXCEPT ![w] = Tail(calls[w])]
      /\ inflight' = [inflight EXCEPT ![t] = IF inflight[t] > 0 THEN inflight[t] - 1 ELSE inflight[t]]
      /\ UNCHANGED <<pc, server>>
  BY <1>1 DEF Released, Received, ReleaseServer, requestVars
<1>3. HoldInv'
  BY <1>2 DEF AccountInv, HoldInv
<1>4. /\ inflight' \in [Servers -> Nat]
      /\ \A s \in Servers :
           inflight'[s] = IF s = t /\ inflight[s] > 0 THEN inflight[s] - 1 ELSE inflight[s]
  BY <1>2 DEF AccountInv
<1>5. ASSUME NEW s \in Servers
      PROVE  /\ IsFiniteSet(HeldBy(s)') /\ IsFiniteSet(Places(calls', s))
             /\ inflight'[s] = Cardinality(HeldBy(s)') + Cardinality(Places(calls', s))
  <2>1. /\ calls \in [Workers -> Seq(Calls)] /\ IsFiniteSet(HeldBy(s)) /\ IsFiniteSet(Places(calls, s))
        /\ inflight[s] = Cardinality(HeldBy(s)) + Cardinality(Places(calls, s))
    BY DEF TypeInv, AccountInv, CountInv
  <2>2. /\ IsFiniteSet(Places(calls', s)) /\ Cardinality(Places(calls', s)) \in Nat
        /\ Cardinality(Places(calls, s)) = Cardinality(Places(calls', s)) + (IF s = t THEN 1 ELSE 0)
    <3>1. Head(calls[w]) = ReleaseCall(s) <=> s = t
      BY <1>2, ReleaseKinds
    <3>2. OneMorePlace(calls', calls, s, Head(calls[w]) = ReleaseCall(s))
      BY <1>2, <2>1, PlaceTaken
    <3> QED
      BY <3>1, <3>2 DEF OneMorePlace
  <2>3. HeldBy(s)' = HeldBy(s) /\ Cardinality(HeldBy(s)) \in Nat
    BY <1>2, <2>1, FS_CardinalityType DEF HeldBy
  <2> DEFINE h == Cardinality(HeldBy(s))
             p == Cardinality(Places(calls, s))
             q == Cardinality(Places(calls', s))
  <2>4. h \in Nat /\ q \in Nat /\ p = q + (IF s = t THEN 1 ELSE 0) /\ inflight[s] = h + p
    BY <2>1, <2>2, <2>3
  <2> HIDE DEF h, p, q
  <2>5. inflight'[s] = h + q
    BY <1>4, <2>4
  <2> QED
    BY <2>1, <2>2, <2>3, <2>5 DEF h, q
<1> QED
  BY <1>3, <1>4, <1>5 DEF AccountInv, CountInv, Places

\* An answer merged: the request has no server any more, and its release is on the way.
LEMMA AccountMerged ==
  ASSUME TypeInv, AccountInv, NEW r \in Requests, MergeAndContinue(r) \/ MergeAndReturn(r)
  PROVE  AccountInv'
<1> DEFINE u == WorkerOf[r]
           t == server[r]
           b == ReleaseCall(t)
           a == AcquireCall(r)
           e == [calls EXCEPT ![u] = Append(calls[u], b)]
<1>1. /\ pc[r] = "answered" /\ pc' \in {[pc EXCEPT ![r] = "acquire"], [pc EXCEPT ![r] = "done"]}
      /\ server' = [server EXCEPT ![r] = NoServer] /\ inflight' = inflight
      /\ u \in Workers
  BY BalancerAssumption DEF MergeAndContinue, MergeAndReturn, MergeState, Goto, Set
<1>2. t \in Servers
  BY <1>1 DEF AccountInv, HoldInv, Holding
<1>3. b \in Calls /\ a \in Calls /\ \A s \in Servers : a # ReleaseCall(s) /\ (b = ReleaseCall(s) <=> s = t)
  BY <1>2, CallKinds, ReleaseKinds
<1>4. calls \in [Workers -> Seq(Calls)] /\ calls[u] \in Seq(Calls)
  BY <1>1 DEF TypeInv
<1>5. e \in [Workers -> Seq(Calls)] /\ e[u] = Append(calls[u], b)
  BY <1>1, <1>3, <1>4
<1>6. calls' = e \/ calls' = [e EXCEPT ![u] = Append(e[u], a)]
  <2>1. CASE MergeAndReturn(r)
    BY <2>1 DEF MergeAndReturn, Sent
  <2>2. CASE MergeAndContinue(r)
    <3>1. calls' = [calls EXCEPT ![u] = calls[u] \o <<b, a>>]
      BY <2>2 DEF MergeAndContinue
    <3>2. calls[u] \o <<b, a>> = Append(Append(calls[u], b), a)
      BY <1>3, <1>4, TwoCalls
    <3> HIDE DEF b, a, u
    <3>3. [e EXCEPT ![u] = Append(e[u], a)] = [calls EXCEPT ![u] = Append(Append(calls[u], b), a)]
      BY <1>4, <1>5
    <3> QED
      BY <3>1, <3>2, <3>3
  <2> QED
    BY <2>1, <2>2
<1>7. HoldInv'
  BY <1>1, NoneHeld DEF AccountInv, HoldInv, Holding, TypeInv
<1>8. ASSUME NEW s \in Servers
      PROVE  /\ IsFiniteSet(HeldBy(s)') /\ IsFiniteSet(Places(calls', s))
             /\ inflight'[s] = Cardinality(HeldBy(s)') + Cardinality(Places(calls', s))
  <2>1. /\ IsFiniteSet(HeldBy(s)) /\ IsFiniteSet(Places(calls, s))
        /\ inflight[s] = Cardinality(HeldBy(s)) + Cardinality(Places(calls, s))
    BY DEF AccountInv, CountInv
  <2>2. /\ IsFiniteSet(Places(e, s))
        /\ Cardinality(Places(e, s)) = Cardinality(Places(calls, s)) + (IF s = t THEN 1 ELSE 0)
    <3>1. b = ReleaseCall(s) <=> s = t
      BY <1>3
    <3>2. b \in Calls /\ u \in Workers /\ e = [calls EXCEPT ![u] = Append(calls[u], b)]
      BY <1>1, <1>3
    <3> HIDE DEF b, u, e, t
    <3>3. OneMorePlace(calls, e, s, b = ReleaseCall(s))
      BY <1>4, <2>1, <3>2, PlaceSent
    <3> QED
      BY <3>1, <3>3 DEF OneMorePlace
  <2>3. Cardinality(Places(calls, s)) \in Nat /\ Cardinality(Places(e, s)) \in Nat
    <3> HIDE DEF e
    <3> QED
      BY <2>1, <2>2, FS_CardinalityType
  <2>4. IsFiniteSet(Places(calls', s)) /\ Cardinality(Places(calls', s)) = Cardinality(Places(e, s))
    <3>1. CASE calls' = e
      BY <2>2, <3>1
    <3>2. CASE calls' = [e EXCEPT ![u] = Append(e[u], a)]
      <4>1. a \in Calls /\ u \in Workers /\ a # ReleaseCall(s)
        BY <1>1, <1>3
      <4> HIDE DEF a, u, e
      <4>2. OneMorePlace(e, calls', s, a = ReleaseCall(s))
        BY <1>5, <2>2, <3>2, <4>1, PlaceSent
      <4> QED
        BY <2>3, <4>1, <4>2 DEF OneMorePlace
    <3> QED
      BY <1>6, <3>1, <3>2
  <2>5. /\ IsFiniteSet(HeldBy(s)') /\ Cardinality(HeldBy(s)') \in Nat
        /\ Cardinality(HeldBy(s)) = Cardinality(HeldBy(s)') + (IF s = t THEN 1 ELSE 0)
    BY <1>1, <1>2, <2>1, HeldLess
  <2> DEFINE h == Cardinality(HeldBy(s))
             i == Cardinality(HeldBy(s)')
             p == Cardinality(Places(calls, s))
             q == Cardinality(Places(calls', s))
             z == IF s = t THEN 1 ELSE 0
  <2>6. /\ i \in Nat /\ p \in Nat /\ z \in Nat /\ h = i + z /\ q = p + z /\ inflight'[s] = h + p
    BY <1>1, <2>1, <2>2, <2>3, <2>4, <2>5
  <2> HIDE DEF h, i, p, q, z
  <2>7. inflight'[s] = i + q
    BY <2>6
  <2> QED
    BY <2>4, <2>5, <2>7 DEF i, q
<1> QED
  BY <1>1, <1>7, <1>8 DEF AccountInv, CountInv, Places

\* Every step keeps the balancer's counts.
LEMMA AccountStep ==
  ASSUME TypeInv, CallInv, AccountInv, [Next]_vars
  PROVE  AccountInv'
<1>1. ASSUME UNCHANGED <<inflight, calls, server>>,
             \A r \in Requests : pc'[r] \in Holding <=> pc[r] \in Holding
      PROVE  AccountInv'
  BY <1>1 DEF AccountInv, HoldInv, CountInv, HeldBy, Places
<1>2. ASSUME NEW r \in Requests, Start(r) \/ Submit(r) \/ Admit(r) \/ Generate(r)
      PROVE  AccountInv'
  <2>1. UNCHANGED <<inflight, calls, server>>
    BY <1>2 DEF Start, Submit, Admit, Generate, balancerVars
  <2>2. \A q \in Requests : pc'[q] \in Holding <=> pc[q] \in Holding
    BY <1>2 DEF Start, Submit, Admit, Generate, Goto, Set, Holding, TypeInv
  <2> QED
    BY <1>1, <2>1, <2>2
<1>3. ASSUME NEW s \in Servers, Abort(s) PROVE AccountInv'
  <2>1. UNCHANGED <<inflight, calls, server>> /\ \A q \in Requests : pc'[q] \in Holding <=> pc[q] \in Holding
    BY <1>3 DEF Abort, RunningOn, balancerVars, Holding
  <2> QED
    BY <1>1, <2>1
<1>4. CASE Sync \/ (\E s \in Servers : Drain(s)) \/ UNCHANGED vars
  <2>1. UNCHANGED <<inflight, calls, server, pc>>
    BY <1>4 DEF Sync, Drain, vars, balancerVars, requestVars
  <2> QED
    BY <1>1, <2>1
<1> QED
  BY <1>2, <1>3, <1>4, AccountEnter, AccountAcquired, AccountReleased, AccountMerged DEF Next

\* The balancer's count of a server is what the requests hold of it and what is on its way
\* back: generate releases what it has acquired, once, however often it is interrupted.
THEOREM Accounted ==
  ASSUME EnginePauses = TRUE, LimitFits
  PROVE  Spec => []InflightAccounted
<1>1. Init => AccountInv
  <2> SUFFICES ASSUME Init PROVE AccountInv
    OBVIOUS
  <2>1. \A s \in Servers : HeldBy(s) = {} /\ Places(calls, s) = {} /\ inflight[s] = 0
    <3>1. \A s \in Servers : HeldBy(s) = {} /\ inflight[s] = 0
      BY NoneHeld DEF Init, BalancerInit, HeldBy
    <3>2. \A w \in Workers : calls[w] = <<>>
      BY DEF Init, BalancerInit
    <3>3. \A s \in Servers : Places(calls, s) = {}
      BY <3>2 DEF Places
    <3> QED
      BY <3>1, <3>3
  <2>2. IsFiniteSet({}) /\ Cardinality({}) = 0 /\ 0 = 0 + 0
    BY FS_EmptySet
  <2>3. CountInv
    BY <2>1, <2>2 DEF CountInv
  <2> QED
    BY <2>3, NoneHeld DEF AccountInv, HoldInv, Holding, Init, BalancerInit
<1>2. Inv /\ AccountInv /\ [Next]_vars => AccountInv'
  BY AccountStep DEF Inv
<1>3. Inv /\ AccountInv => InflightAccounted
  BY ReleasePlaces DEF Inv, TypeInv, AccountInv, CountInv, InflightAccounted
<1> QED
  BY <1>1, <1>2, <1>3, RolloutInv, PTL DEF Spec
=============================================================================
