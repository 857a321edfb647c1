--------------------------- MODULE Channels_proofs ---------------------------
(***************************************************************************)
(* The theorems about the two channels between processes.                  *)
(*                                                                         *)
(* The MessageQueue actor, for every number of consumers and every queue   *)
(* size: type correctness, the window of newest samples, the absence of    *)
(* lost wakeups, the balance of the statistics and the refinement of       *)
(* DropOldestLog.                                                          *)
(*                                                                         *)
(* A weight transfer, for every number of receivers and weights, all       *)
(* sizes, and subscriptions early or late: every model loads the weights   *)
(* in order, each with its content, and is done only when it has them all. *)
(***************************************************************************)
EXTENDS MessageQueue, WeightTransfer, SequenceTheorems, TLAPS

(***************************************************************************)
(* The message queue                                                       *)
(***************************************************************************)

\* The three ways in which one evaluation of get_sample's body can go.
GetStep(c) == GetSample(c) \/ GetNone(c) \/ GetWait(c)

\* A put stores its sample last; when the queue is full the oldest one makes room.
LEMMA PutQueue ==
  ASSUME NEW s \in Nat, queue \in Seq(Nat), PutSample(s)
  PROVE  /\ queue' \in Seq(Nat)
         /\ Full => /\ Len(queue') = Len(queue)
                    /\ \A i \in 1 .. Len(queue') :
                          queue'[i] = IF i = Len(queue') THEN s ELSE queue[i + 1]
         /\ ~Full => /\ Len(queue') = Len(queue) + 1
                     /\ \A i \in 1 .. Len(queue') :
                           queue'[i] = IF i = Len(queue') THEN s ELSE queue[i]
<1>1. CASE Full
  <2>1. queue # <<>>
    BY <1>1, MaxQueueSizeAssumption DEF Full
  <2>2. /\ Tail(queue) \in Seq(Nat)
        /\ Len(Tail(queue)) = Len(queue) - 1
        /\ \A i \in 1 .. Len(queue) - 1 : Tail(queue)[i] = queue[i + 1]
    BY <2>1, HeadTailProperties
  <2>3. queue' = Append(Tail(queue), s)
    BY <1>1 DEF PutSample
  <2>4. Len(queue) \in Nat \ {0}
    BY <2>1, EmptySeq
  <2>5. /\ queue' \in Seq(Nat)
        /\ Len(queue') = Len(queue)
        /\ \A i \in 1 .. Len(queue) - 1 : queue'[i] = queue[i + 1]
        /\ queue'[Len(queue)] = s
    <3> DEFINE T == Tail(queue)
    <3>1. /\ Append(T, s) \in Seq(Nat)
          /\ Len(Append(T, s)) = Len(T) + 1
          /\ \A i \in 1 .. Len(T) : Append(T, s)[i] = T[i]
          /\ Append(T, s)[Len(T) + 1] = s
      BY <2>2, AppendProperties
    <3> QED
      BY <2>2, <2>3, <2>4, <3>1
  <2> QED
    BY <1>1, <2>4, <2>5
<1>2. CASE ~Full
  <2>1. queue' = Append(queue, s)
    BY <1>2 DEF PutSample
  <2> QED
    BY <1>2, <2>1, AppendProperties, LenProperties
<1> QED
  BY <1>1, <1>2

-----------------------------------------------------------------------------

\* TypeOK holds in every reachable state, whatever the bounds of the model.
THEOREM TypeCorrect == Spec => []TypeOK
<1>1. Init => TypeOK
  BY DEF Init, TypeOK, GetterState
<1>2. ASSUME TypeOK, [Next]_vars
      PROVE  TypeOK'
  <2> USE <1>2 DEF TypeOK, GetterState
  <2>1. CASE total_produced < MaxProduced /\ PutSample(total_produced + 1)
    BY <2>1, PutQueue DEF PutSample, NotifyAll
  <2>2. ASSUME NEW c \in Consumers, GetSample(c)
        PROVE  TypeOK'
    BY <2>2, HeadTailProperties DEF GetSample
  <2>3. ASSUME NEW c \in Consumers, GetNone(c) \/ GetWait(c)
        PROVE  TypeOK'
    BY <2>3 DEF GetNone, GetWait, counters
  <2>4. CASE ClearQueue
    BY <2>4 DEF ClearQueue, counters
  <2>5. CASE Shutdown
    BY <2>5 DEF Shutdown, NotifyAll, counters
  <2>6. CASE PutValidate \/ GetValidate
    BY <2>6 DEF PutValidate, GetValidate, counters
  <2>7. CASE UNCHANGED vars
    BY <2>7 DEF vars
  <2> QED
    BY <2>1, <2>2, <2>3, <2>4, <2>5, <2>6, <2>7 DEF Next
<1> QED
  BY <1>1, <1>2, PTL DEF Spec

\* The queue is exactly the window of the newest samples, in order, and never
\* longer than max_queue_size.
THEOREM QueueHoldsNewest == Spec => []HoldsNewest
<1>1. Init => HoldsNewest
  BY MaxQueueSizeAssumption DEF Init, HoldsNewest
<1>2. ASSUME TypeOK, HoldsNewest, [Next]_vars
      PROVE  HoldsNewest'
  <2> USE <1>2, MaxQueueSizeAssumption DEF TypeOK, HoldsNewest
  <2>1. CASE total_produced < MaxProduced /\ PutSample(total_produced + 1)
    <3>1. total_produced' = total_produced + 1
      BY <2>1 DEF PutSample
    <3>2. Len(queue) \in Nat
      BY LenProperties
    <3>3. CASE Full
      <4>1. /\ Len(queue') = Len(queue)
            /\ \A i \in 1 .. Len(queue') :
                  queue'[i] = IF i = Len(queue') THEN total_produced + 1 ELSE queue[i + 1]
        BY <2>1, <3>3, PutQueue
      <4>2. ASSUME NEW i \in 1 .. Len(queue')
            PROVE  queue'[i] = (total_produced' - Len(queue')) + i
        <5>1. CASE i = Len(queue')
          BY <3>1, <3>2, <4>1, <5>1
        <5>2. CASE i # Len(queue')
          <6>1. i + 1 \in 1 .. Len(queue)
            BY <3>2, <4>1, <5>2
          <6>2. queue[i + 1] = (total_produced - Len(queue)) + (i + 1)
            BY <6>1
          <6> QED
            BY <3>1, <3>2, <4>1, <5>2, <6>2
        <5> QED
          BY <5>1, <5>2
      <4> QED
        BY <3>1, <3>2, <4>1, <4>2
    <3>4. CASE ~Full
      <4>1. /\ Len(queue') = Len(queue) + 1
            /\ \A i \in 1 .. Len(queue') :
                  queue'[i] = IF i = Len(queue') THEN total_produced + 1 ELSE queue[i]
        BY <2>1, <3>4, PutQueue
      <4>2. Len(queue) < MaxQueueSize
        BY <3>2, <3>4 DEF Full
      <4>3. ASSUME NEW i \in 1 .. Len(queue')
            PROVE  queue'[i] = (total_produced' - Len(queue')) + i
        BY <3>1, <3>2, <4>1
      <4> QED
        BY <3>1, <3>2, <4>1, <4>2, <4>3
    <3> QED
      BY <3>3, <3>4
  <2>2. ASSUME NEW c \in Consumers, GetSample(c)
        PROVE  HoldsNewest'
    <3>1. /\ queue # <<>>
          /\ queue' = Tail(queue)
          /\ total_produced' = total_produced
      BY <2>2 DEF GetSample
    <3>2. /\ Len(queue') = Len(queue) - 1
          /\ \A i \in 1 .. Len(queue) - 1 : queue'[i] = queue[i + 1]
      BY <3>1, HeadTailProperties
    <3> QED
      BY <3>1, <3>2, LenProperties
  <2>3. ASSUME NEW c \in Consumers, GetNone(c) \/ GetWait(c)
        PROVE  HoldsNewest'
    BY <2>3 DEF GetNone, GetWait, counters
  <2>4. CASE ClearQueue
    BY <2>4 DEF ClearQueue, counters
  <2>5. CASE Shutdown \/ PutValidate \/ GetValidate
    BY <2>5 DEF Shutdown, PutValidate, GetValidate, counters
  <2>6. CASE UNCHANGED vars
    BY <2>6 DEF vars
  <2> QED
    BY <2>1, <2>2, <2>3, <2>4, <2>5, <2>6 DEF Next
<1> QED
  BY <1>1, <1>2, TypeCorrect, PTL DEF Spec

\* No consumer sleeps while there is a sample to take, or after shutdown.
THEOREM WakeupsKept == Spec => []NoLostWakeup
<1>1. Init => NoLostWakeup
  BY DEF Init, NoLostWakeup
<1>2. ASSUME TypeOK, NoLostWakeup, [Next]_vars
      PROVE  NoLostWakeup'
  <2> USE <1>2 DEF TypeOK, NoLostWakeup, GetterState
  <2>1. CASE Shutdown \/ (total_produced < MaxProduced /\ PutSample(total_produced + 1))
    <3>1. NotifyAll
      BY <2>1 DEF Shutdown, PutSample
    <3>2. \A c \in Consumers : getter'[c] # "waiting"
      BY <3>1 DEF NotifyAll
    <3> QED
      BY <3>2
  <2>2. ASSUME NEW c \in Consumers, GetSample(c)
        PROVE  NoLostWakeup'
    BY <2>2 DEF GetSample
  <2>3. ASSUME NEW c \in Consumers, GetNone(c) \/ GetWait(c)
        PROVE  NoLostWakeup'
    BY <2>3 DEF GetNone, GetWait, counters
  <2>4. CASE ClearQueue
    BY <2>4 DEF ClearQueue, counters
  <2>5. CASE PutValidate \/ GetValidate
    BY <2>5 DEF PutValidate, GetValidate, counters
  <2>6. CASE UNCHANGED vars
    BY <2>6 DEF vars
  <2> QED
    BY <2>1, <2>2, <2>3, <2>4, <2>5, <2>6 DEF Next
<1> QED
  BY <1>1, <1>2, TypeCorrect, PTL DEF Spec

-----------------------------------------------------------------------------

\* Every step but clear_queue keeps produced = consumed + dropped + queued.
THEOREM Accounting == Spec => OnlyClearUnaccounted
<1>1. ASSUME TypeOK, [Next]_vars
      PROVE  [ \/ ClearQueue
               \/ total_produced' + (total_consumed + dropped_samples + Len(queue))
                    = total_produced + (total_consumed' + dropped_samples' + Len(queue')) ]_vars
  <2> DEFINE Out == total_consumed + dropped_samples + Len(queue)
  <2> USE <1>1 DEF TypeOK
  <2>1. CASE total_produced < MaxProduced /\ PutSample(total_produced + 1)
    <3>1. /\ total_produced' = total_produced + 1
          /\ total_consumed' = total_consumed
          /\ dropped_samples' = IF Full THEN dropped_samples + 1 ELSE dropped_samples
      BY <2>1 DEF PutSample
    <3>2. Len(queue') = IF Full THEN Len(queue) ELSE Len(queue) + 1
      BY <2>1, PutQueue
    <3> QED
      BY <3>1, <3>2, LenProperties
  <2>2. ASSUME NEW c \in Consumers, GetSample(c)
        PROVE  total_produced' + Out = total_produced + Out'
    <3>1. Len(queue') = Len(queue) - 1
      BY <2>2, HeadTailProperties DEF GetSample
    <3> QED
      BY <2>2, <3>1, LenProperties DEF GetSample
  <2>3. ASSUME NEW c \in Consumers, GetNone(c) \/ GetWait(c)
        PROVE  total_produced' + Out = total_produced + Out'
    BY <2>3 DEF GetNone, GetWait, counters
  <2>4. CASE Shutdown \/ PutValidate \/ GetValidate
    BY <2>4 DEF Shutdown, PutValidate, GetValidate, counters
  <2> QED
    BY <2>1, <2>2, <2>3, <2>4 DEF Next
<1> QED
  BY <1>1, TypeCorrect, PTL DEF Spec, OnlyClearUnaccounted

\* The actor implements the abstract log of which only the newest Cap positions
\* are held: an overflow moves the window by exactly one.
THEOREM Refinement == Spec => ImplementsLog
<1> USE MaxQueueSizeAssumption
<1>1. Init => Log!Init
  <2>1. Len(<<>>) = 0
    BY EmptySeq
  <2>2. ASSUME Init PROVE total_produced = 0 /\ Len(queue) = 0
    BY <2>1, <2>2 DEF Init
  <2> QED
    BY <2>2, 0 - 0 = 0 DEF Log!Init
<1>2. ASSUME TypeOK, HoldsNewest, [Next]_vars
      PROVE  [Log!Next]_<<total_produced - Len(queue), total_produced>>
  <2> USE <1>2 DEF TypeOK, HoldsNewest
  <2>1. CASE total_produced < MaxProduced /\ PutSample(total_produced + 1)
    <3>1. total_produced' = total_produced + 1
      BY <2>1 DEF PutSample
    <3>2. Len(queue') = IF Full THEN Len(queue) ELSE Len(queue) + 1
      BY <2>1, PutQueue
    <3>3. Len(queue) \in Nat
      BY LenProperties
    <3>4. Full <=> total_produced - (total_produced - Len(queue)) = MaxQueueSize
      BY <3>3 DEF Full
    <3>5. total_produced' - Len(queue') = IF Full THEN (total_produced - Len(queue)) + 1
                                          ELSE total_produced - Len(queue)
      BY <3>1, <3>2, <3>3
    <3>6. Log!AppendNext
      <4> HIDE DEF TypeOK, HoldsNewest
      <4> QED
        BY <2>1, <3>1, <3>4, <3>5 DEF Log!AppendNext
    <3> QED
      BY <3>6 DEF Log!Next
  <2>2. ASSUME NEW c \in Consumers, GetSample(c)
        PROVE  Log!TakeOldest
    <3>1. Len(queue') = Len(queue) - 1 /\ Len(queue) > 0
      BY <2>2, HeadTailProperties, EmptySeq, LenProperties DEF GetSample
    <3> QED
      BY <2>2, <3>1, LenProperties DEF GetSample, Log!TakeOldest
  <2>3. ASSUME NEW c \in Consumers, GetNone(c) \/ GetWait(c)
        PROVE  UNCHANGED <<total_produced - Len(queue), total_produced>>
    BY <2>3 DEF GetNone, GetWait, counters
  <2>4. CASE ClearQueue
    <3>1. Log!Discard
      BY <2>4 DEF ClearQueue, counters, Log!Discard
    <3> QED
      BY <3>1 DEF Log!Next
  <2>5. CASE Shutdown \/ PutValidate \/ GetValidate
    BY <2>5 DEF Shutdown, PutValidate, GetValidate, counters
  <2>6. CASE UNCHANGED vars
    BY <2>6 DEF vars
  <2> QED
    BY <2>1, <2>2, <2>3, <2>4, <2>5, <2>6 DEF Next, Log!Next
<1> QED
  BY <1>1, <1>2, TypeCorrect, QueueHoldsNewest, PTL DEF Spec, ImplementsLog, Log!Spec

(***************************************************************************)
(* The weight transfer: its invariant                                      *)
(***************************************************************************)

\* The names of a bucket are consecutive weights, the ones after the first k.
Run(names, k) == \A i \in DOMAIN names : names[i] = k + i

\* A buffer holds the tensors of a bucket at its offsets.
Holds(buf, names) == \A i \in DOMAIN names : buf[i] = names[i]

\* The weights up to the end of the bucket of rank 0's operation, and before it.
OpEnd == IF op.meta.is_last THEN sent ELSE sent - Len(bucketMeta)
OpStart == OpEnd - Len(op.meta.names)

\* The bucket being filled comes after the one that is broadcast, and each is in
\* a buffer of its own until the broadcast is over.
PackInv ==
  /\ Len(bucketMeta) <= sent /\ Run(bucketMeta, sent - Len(bucketMeta))
  /\ OpStart >= 0 /\ Run(op.meta.names, OpStart)
  /\ op.meta.is_last => sent = NumWeights
  /\ Holds(sendBuf[sendCell], bucketMeta)
  /\ op.state \in {"meta", "collective"} =>
       /\ ~op.meta.is_last => op.cell = Other(sendCell)
       /\ Holds(sendBuf[op.cell], op.meta.names)

\* A receiver has taken part in the broadcast under way or in all but this one, and
\* at most its metadata is on the way.
Behind(r) == recvCount[r] + 1 = opCount
Pending(r) == recvOp[r] = "done" /\ ~current[r].is_last   \* received, not yielded
SyncInv(r) ==
  /\ recvCount[r] = opCount \/ Behind(r)
  /\ op.state \in {"none", "done"} => recvCount[r] = opCount
  /\ op.state = "meta" => Behind(r)
  /\ \/ published[r] = <<>>
     \/ published[r] = <<op.meta>> /\ op.state = "collective" /\ Behind(r)
  /\ recvOp[r] = "collective" =>
       op.state = "collective" /\ Behind(r) /\ metadata[r] = op.meta /\ published[r] = <<>>
  /\ recvOp[r] = "done" =>
       IF Behind(r) THEN ~metadata[r].is_last ELSE metadata[r] = op.meta
  /\ current[r].is_last =>
       recvOp[r] = "done" /\ recvCount[r] = opCount /\ op.meta.is_last

\* The lockstep of the sender and the receiver of the shared buffer.
Asked(r, is_last) == request[r] = <<[names |-> ipcMeta[r], is_last |-> is_last]>> /\ ~reply[r]
Answered(r) == request[r] = <<>> /\ reply[r]
LinkInv(r) ==
  /\ recvOp[r] = "none" <=> ipcPc[r] = "handshake"
  /\ ipcPc[r] = "handshake" =>
       /\ ipcMeta[r] = <<>>
       /\ \/ loadPc[r] = "handshake" /\ request[r] = <<Handle>> /\ ~reply[r]
          \/ loadPc[r] = "recv" /\ Answered(r)
  /\ ipcPc[r] = "pull" => loadPc[r] \in {"recv", "load"} /\ request[r] = <<>> /\ ~reply[r]
  /\ ipcPc[r] = "full" =>
       \/ loadPc[r] \in {"recv", "cloned", "load"} /\ Asked(r, FALSE)
       \/ loadPc[r] \in {"recv", "load"} /\ Answered(r)
  /\ ipcPc[r] = "last" =>
       \/ loadPc[r] \in {"recv", "cloned", "load"} /\ Asked(r, TRUE)
       \/ loadPc[r] \in {"loadLast", "done"} /\ Answered(r)
  /\ ipcPc[r] = "closed" =>
       loadPc[r] \in {"loadLast", "done"} /\ request[r] = <<>> /\ ~reply[r]
  /\ ipcPc[r] = "full" => HasTensor(r)
  /\ ipcPc[r] \in {"last", "closed"} => Exhausted(r)

\* The tensors of the bucket are not cloned yet.
Uncloned(r) ==
  \/ ipcPc[r] \in {"handshake", "pull"}
  \/ ipcPc[r] \in {"full", "last"} /\ request[r] # <<>> /\ loadPc[r] # "cloned"

\* How many tensors the consumer has taken from the generator, and the weights before
\* and up to the end of the bucket it takes them from.
Taken(r) == Len(loaded[r]) + Len(clones[r]) + (IF Uncloned(r) THEN Len(ipcMeta[r]) ELSE 0)
Start(r) == Taken(r) - yielded[r]
End(r) == Start(r) + Len(current[r].names)

\* Every weight is in one place: loaded, cloned, in the shared bucket, in the bucket
\* that is yielded, or in the one received after it.
CountInv(r) ==
  /\ yielded[r] <= Len(current[r].names)
  /\ Start(r) >= 0 /\ Run(current[r].names, Start(r))
  /\ Pending(r) => Run(metadata[r].names, End(r))
  /\ End(r) + (IF Pending(r) THEN Len(metadata[r].names) ELSE 0) =
       IF recvCount[r] = opCount THEN OpEnd ELSE OpStart

LoadInv(r) ==
  /\ \A i \in DOMAIN loaded[r] : loaded[r][i] = <<i, i>>
  /\ \A i \in DOMAIN clones[r] : clones[r][i] = <<Len(loaded[r]) + i, Len(loaded[r]) + i>>
  /\ loadPc[r] \in {"handshake", "recv", "done"} => clones[r] = <<>>
  /\ Uncloned(r) => Run(ipcMeta[r], Len(loaded[r]) + Len(clones[r]))

\* What is yielded is a view of the receiver's other buffer.
BufferInv(r) ==
  /\ Holds(recvBuf[r][Other(recvCell[r])], current[r].names)
  /\ Pending(r) => Holds(recvBuf[r][recvCell[r]], metadata[r].names)

\* A copy the device still owes reads the tensor it was made for, and a tensor of the
\* shared bucket is there or such a copy is owed.
CopyInv(r) ==
  /\ ipcPc[r] # "pull" => copies[r] = <<>>
  /\ \A k \in DOMAIN copies[r] :
       LET c == copies[r][k]
       IN  /\ c.slot \in DOMAIN ipcMeta[r] /\ c.view.cell = Other(recvCell[r])
           /\ c.view.slot \in DOMAIN current[r].names
           /\ current[r].names[c.view.slot] = ipcMeta[r][c.slot]
  /\ ipcPc[r] # "closed" =>
       \A i \in DOMAIN ipcMeta[r] :
         ipcBuf[r][i] = ipcMeta[r][i] \/ \E k \in DOMAIN copies[r] : copies[r][k].slot = i

ReceiverInv(r) ==
  SyncInv(r) /\ LinkInv(r) /\ CountInv(r) /\ LoadInv(r) /\ BufferInv(r) /\ CopyInv(r)

TransferInv == TransferTypeOK /\ PackInv /\ \A r \in Receivers : ReceiverInv(r)

(***************************************************************************)
(* Bounds, and what a step leaves alone                                    *)
(***************************************************************************)

\* The number of weights is a natural number and every weight fits into a bucket.
LEMMA SizesFit ==
  /\ NumWeights \in Nat /\ BucketSize \in Nat
  /\ \A n \in Weights : Size[n] \in Nat \ {0} /\ Size[n] <= BucketSize
  /\ SlowJoin \in BOOLEAN
BY TransferAssumption, ElementOfSeq, LenProperties DEF NumWeights, Weights

\* The type of what belongs to the sender.
LEMMA SenderTypes ==
  ASSUME TransferTypeOK
  PROVE  /\ sent \in 0 .. NumWeights /\ bucketMeta \in Seq(Weights) /\ opCount \in Nat
         /\ Len(bucketMeta) \in Nat /\ DOMAIN bucketMeta = 1 .. Len(bucketMeta)
         /\ op.state \in OpState /\ op.cell \in Cells /\ op.meta \in Meta
         /\ op.meta.names \in Seq(Weights) /\ op.meta.is_last \in BOOLEAN
         /\ Len(op.meta.names) \in Nat /\ DOMAIN op.meta.names = 1 .. Len(op.meta.names)
<1>1. op.state \in OpState /\ op.cell \in Cells /\ op.meta \in Meta  BY DEF TransferTypeOK
<1>2. op.meta.names \in Seq(Weights) /\ op.meta.is_last \in BOOLEAN  BY <1>1 DEF Meta
<1>3. bucketMeta \in Seq(Weights)  BY DEF TransferTypeOK
<1>4. Len(bucketMeta) \in Nat /\ DOMAIN bucketMeta = 1 .. Len(bucketMeta)
  BY <1>3, LenProperties
<1>5. Len(op.meta.names) \in Nat /\ DOMAIN op.meta.names = 1 .. Len(op.meta.names)
  BY <1>2, LenProperties
<1> QED  BY <1>1, <1>2, <1>3, <1>4, <1>5 DEF TransferTypeOK

\* The type of what belongs to a receiver.
LEMMA ReceiverTypes ==
  ASSUME TransferTypeOK, NEW r \in Receivers
  PROVE  /\ published[r] \in Seq(Meta) /\ request[r] \in Seq(Meta)
         /\ recvOp[r] \in OpState /\ recvCount[r] \in Nat /\ recvCell[r] \in Cells
         /\ recvBuf[r] \in [Cells -> Buffer] /\ ipcBuf[r] \in Buffer
         /\ metadata[r] \in Meta /\ current[r] \in Meta
         /\ metadata[r].names \in Seq(Weights) /\ metadata[r].is_last \in BOOLEAN
         /\ current[r].names \in Seq(Weights) /\ current[r].is_last \in BOOLEAN
         /\ yielded[r] \in 0 .. NumWeights /\ ipcPc[r] \in IpcPc /\ loadPc[r] \in LoadPc
         /\ ipcMeta[r] \in Seq(Weights) /\ reply[r] \in BOOLEAN
         /\ clones[r] \in Seq(Weights \X (Weights \cup {0}))
         /\ loaded[r] \in Seq(Weights \X (Weights \cup {0}))
         /\ copies[r] \in Seq([slot : Slots, view : [cell : Cells, slot : Slots]])
<1>1. metadata[r] \in Meta /\ current[r] \in Meta  BY DEF TransferTypeOK
<1>2. /\ metadata[r].names \in Seq(Weights) /\ metadata[r].is_last \in BOOLEAN
      /\ current[r].names \in Seq(Weights) /\ current[r].is_last \in BOOLEAN
  BY <1>1 DEF Meta
<1> QED  BY <1>1, <1>2 DEF TransferTypeOK

\* The lengths of a receiver's sequences are those of their domains.
LEMMA Lengths ==
  ASSUME TransferTypeOK, NEW r \in Receivers
  PROVE  /\ Len(metadata[r].names) \in Nat
         /\ DOMAIN metadata[r].names = 1 .. Len(metadata[r].names)
         /\ Len(current[r].names) \in Nat
         /\ DOMAIN current[r].names = 1 .. Len(current[r].names)
         /\ Len(ipcMeta[r]) \in Nat /\ DOMAIN ipcMeta[r] = 1 .. Len(ipcMeta[r])
         /\ Len(clones[r]) \in Nat /\ DOMAIN clones[r] = 1 .. Len(clones[r])
         /\ Len(loaded[r]) \in Nat /\ DOMAIN loaded[r] = 1 .. Len(loaded[r])
         /\ Len(copies[r]) \in Nat /\ DOMAIN copies[r] = 1 .. Len(copies[r])
BY ReceiverTypes, LenProperties

\* No bucket reaches beyond the last weight.
LEMMA Bounds ==
  ASSUME TransferInv, NEW r \in Receivers
  PROVE  /\ OpEnd \in Nat /\ OpStart \in Nat /\ OpStart <= OpEnd /\ OpEnd <= NumWeights
         /\ Taken(r) \in Nat /\ Start(r) \in Nat /\ End(r) \in Nat /\ End(r) <= NumWeights
         /\ Taken(r) = Start(r) + yielded[r] /\ Taken(r) <= End(r)
<1>1. NumWeights \in Nat  BY SizesFit
<1>2. /\ OpEnd \in Nat /\ OpStart \in Nat /\ OpStart <= OpEnd /\ OpEnd <= NumWeights
  <2>1. OpStart >= 0 /\ Len(bucketMeta) <= sent  BY DEF TransferInv, PackInv
  <2>2. sent \in 0 .. NumWeights /\ Len(bucketMeta) \in Nat /\ Len(op.meta.names) \in Nat
    BY SenderTypes DEF TransferInv
  <2>3. sent \in Nat /\ sent <= NumWeights /\ sent - Len(bucketMeta) \in Nat
        /\ sent - Len(bucketMeta) <= NumWeights
    BY <1>1, <2>1, <2>2
  <2>4. OpEnd \in Nat /\ OpEnd <= NumWeights  BY <2>3 DEF OpEnd
  <2> QED  BY <2>1, <2>2, <2>4 DEF OpStart
<1>3. Taken(r) \in Nat
  <2>1. Len(loaded[r]) \in Nat /\ Len(clones[r]) \in Nat /\ Len(ipcMeta[r]) \in Nat
    BY Lengths DEF TransferInv
  <2> DEFINE l == Len(loaded[r])  c == Len(clones[r])  m == Len(ipcMeta[r])
  <2>2. Taken(r) = l + c + (IF Uncloned(r) THEN m ELSE 0)  BY DEF Taken
  <2>3. l \in Nat /\ c \in Nat /\ m \in Nat  BY <2>1
  <2> HIDE DEF l, c, m
  <2>4. l + c + m \in Nat /\ l + c + 0 \in Nat  BY <2>3
  <2> QED  BY <2>2, <2>4
<1>4. yielded[r] \in Nat /\ Len(current[r].names) \in Nat /\ Len(metadata[r].names) \in Nat
  BY ReceiverTypes, Lengths DEF TransferInv
<1>5. /\ yielded[r] <= Len(current[r].names) /\ Start(r) >= 0
      /\ End(r) + (IF Pending(r) THEN Len(metadata[r].names) ELSE 0) =
            IF recvCount[r] = opCount THEN OpEnd ELSE OpStart
  BY DEF TransferInv, ReceiverInv, CountInv
<1>6. Start(r) = Taken(r) - yielded[r] /\ End(r) = Start(r) + Len(current[r].names)
  BY DEF Start, End
<1> HIDE DEF OpEnd, OpStart, Taken, Start, End
<1>7. Start(r) \in Nat /\ End(r) \in Nat  BY <1>3, <1>4, <1>5, <1>6
<1>8. End(r) <= NumWeights  BY <1>1, <1>2, <1>4, <1>5, <1>7
<1> QED  BY <1>2, <1>3, <1>4, <1>5, <1>6, <1>7, <1>8

\* Nothing that receiver q holds changes, ...
Same(q) ==
  /\ recvOp'[q] = recvOp[q] /\ recvCount'[q] = recvCount[q]
  /\ recvCell'[q] = recvCell[q] /\ recvBuf'[q] = recvBuf[q] /\ metadata'[q] = metadata[q]
  /\ current'[q] = current[q] /\ yielded'[q] = yielded[q] /\ ipcPc'[q] = ipcPc[q]
  /\ ipcMeta'[q] = ipcMeta[q] /\ ipcBuf'[q] = ipcBuf[q] /\ copies'[q] = copies[q]
  /\ request'[q] = request[q] /\ reply'[q] = reply[q] /\ loadPc'[q] = loadPc[q]
  /\ clones'[q] = clones[q] /\ loaded'[q] = loaded[q]

\* ... nor what is on its way to it.
Untouched(q) == Same(q) /\ published'[q] = published[q]

\* What concerns the receiver alone holds on.
LEMMA OwnKept ==
  ASSUME NEW q \in Receivers, ReceiverInv(q), Same(q)
  PROVE  /\ LinkInv(q)' /\ LoadInv(q)' /\ BufferInv(q)' /\ CopyInv(q)'
         /\ End(q)' = End(q) /\ Start(q)' = Start(q) /\ Pending(q)' = Pending(q)
<1>1. LinkInv(q)'  BY DEF ReceiverInv, LinkInv, Same, Asked, Answered, Exhausted, HasTensor
<1>2. Uncloned(q)' = Uncloned(q)  BY DEF Same, Uncloned
<1>3. Taken(q)' = Taken(q)  BY <1>2 DEF Same, Taken
<1>4. LoadInv(q)'  BY <1>2 DEF ReceiverInv, LoadInv, Same, Run
<1>5. Pending(q)' = Pending(q)  BY DEF Same, Pending
<1>6. BufferInv(q)'  BY <1>5 DEF ReceiverInv, BufferInv, Same, Holds, Other
<1>7. CopyInv(q)'  BY DEF ReceiverInv, CopyInv, Same, Other
<1>8. Start(q)' = Start(q) /\ End(q)' = End(q)  BY <1>3 DEF Same, Start, End
<1> QED  BY <1>1, <1>4, <1>5, <1>6, <1>7, <1>8

\* As long as rank 0 stays in its operation, so does what relates the two.
LEMMA OtherKept ==
  ASSUME NEW q \in Receivers, ReceiverInv(q), Untouched(q),
         UNCHANGED <<op, opCount>>, OpEnd' = OpEnd, OpStart' = OpStart
  PROVE  ReceiverInv(q)'
<1>1. /\ LinkInv(q)' /\ LoadInv(q)' /\ BufferInv(q)' /\ CopyInv(q)'
      /\ End(q)' = End(q) /\ Start(q)' = Start(q) /\ Pending(q)' = Pending(q)
  BY OwnKept DEF Untouched
<1>2. SyncInv(q)'  BY DEF ReceiverInv, SyncInv, Untouched, Same, Behind
<1>3. CountInv(q)'  BY <1>1 DEF ReceiverInv, CountInv, Untouched, Same, Run
<1> QED  BY <1>1, <1>2, <1>3 DEF ReceiverInv

\* A step of receiver r, with the link and the worker behind it.
LEMMA ByReceiver ==
  ASSUME TransferInv, NEW r \in Receivers, UNCHANGED senderVars, TransferTypeOK',
         \A q \in Receivers \ {r} : Untouched(q), ReceiverInv(r)'
  PROVE  TransferInv'
<1>1. UNCHANGED <<sent, bucketMeta, sendCell, sendBuf, op, opCount>>  BY DEF senderVars
<1>2. OpEnd' = OpEnd /\ OpStart' = OpStart  BY <1>1 DEF OpEnd, OpStart
<1>3. PackInv'  BY <1>1, <1>2 DEF TransferInv, PackInv, Run, Holds, Other
<1>4. ASSUME NEW q \in Receivers PROVE ReceiverInv(q)'
  <2>1. CASE q = r  BY <2>1
  <2>2. CASE q # r
    <3>1. Untouched(q) /\ ReceiverInv(q)  BY <2>2 DEF TransferInv
    <3> QED  BY <3>1, <1>1, <1>2, OtherKept
  <2> QED  BY <2>1, <2>2
<1> QED  BY <1>3, <1>4 DEF TransferInv

\* A step that changes neither rank 0's operation nor anything of the receivers.
LEMMA AllUntouched ==
  ASSUME TransferInv, UNCHANGED <<receiverVars, ipcVars, published>>
  PROVE  \A q \in Receivers : Untouched(q)
BY DEF receiverVars, ipcVars, Untouched, Same

(***************************************************************************)
(* The steps of rank 0                                                     *)
(***************************************************************************)

\* The transfer begins with all buffers and messages empty.
LEMMA TransferInitially == TransferInit => TransferInv
<1> SUFFICES ASSUME TransferInit PROVE TransferInv  OBVIOUS
<1>0. NumWeights \in Nat /\ BucketSize \in Nat  BY SizesFit
<1>1. NoMeta \in Meta /\ Handle \in Meta /\ Empty \in Buffer /\ <<Handle>> \in Seq(Meta)
  BY EmptySeq DEF NoMeta, Handle, Meta, Empty, Buffer
<1>2. /\ <<>> \in Seq(Weights) /\ <<>> \in Seq(Meta)
      /\ <<>> \in Seq([slot : Slots, view : [cell : Cells, slot : Slots]])
      /\ <<>> \in Seq(Weights \X (Weights \cup {0})) /\ Len(<<>>) = 0 /\ DOMAIN <<>> = {}
  BY EmptySeq
<1>3. TransferTypeOK
  <2>1. /\ sent \in 0 .. NumWeights /\ offset \in 0 .. BucketSize /\ bucketMeta \in Seq(Weights)
        /\ sendCell \in Cells /\ sendBuf \in [Cells -> Buffer] /\ opCount \in Nat
        /\ op \in [state : OpState, cell : Cells, meta : Meta] /\ joined \subseteq Receivers
    BY <1>0, <1>1, <1>2 DEF TransferInit, BroadcastInit, Cells, OpState
  <2>2. /\ published \in [Receivers -> Seq(Meta)] /\ recvOp \in [Receivers -> OpState]
        /\ recvCount \in [Receivers -> Nat] /\ recvCell \in [Receivers -> Cells]
        /\ recvBuf \in [Receivers -> [Cells -> Buffer]] /\ metadata \in [Receivers -> Meta]
        /\ current \in [Receivers -> Meta] /\ yielded \in [Receivers -> 0 .. NumWeights]
    BY <1>0, <1>1, <1>2 DEF TransferInit, BroadcastInit, Cells, OpState
  <2>3. /\ ipcPc \in [Receivers -> IpcPc] /\ ipcOffset \in [Receivers -> 0 .. BucketSize]
        /\ ipcMeta \in [Receivers -> Seq(Weights)] /\ ipcBuf \in [Receivers -> Buffer]
        /\ copies \in [Receivers -> Seq([slot : Slots, view : [cell : Cells, slot : Slots]])]
    BY <1>0, <1>1, <1>2 DEF TransferInit, IpcPc
  <2>4. /\ request \in [Receivers -> Seq(Meta)] /\ reply \in [Receivers -> BOOLEAN]
        /\ loadPc \in [Receivers -> LoadPc]
        /\ clones \in [Receivers -> Seq(Weights \X (Weights \cup {0}))]
        /\ loaded \in [Receivers -> Seq(Weights \X (Weights \cup {0}))]
    BY <1>1, <1>2 DEF TransferInit, LoadPc
  <2> QED  BY <2>1, <2>2, <2>3, <2>4 DEF TransferTypeOK
<1>4. OpEnd = 0 /\ OpStart = 0
  <2>1. /\ sent = 0 /\ Len(bucketMeta) = 0 /\ op.meta.is_last = FALSE
        /\ Len(op.meta.names) = 0
    BY <1>2 DEF TransferInit, BroadcastInit, NoMeta
  <2> QED  BY <2>1 DEF OpEnd, OpStart
<1>5. PackInv
  BY <1>2, <1>4 DEF TransferInit, BroadcastInit, PackInv, NoMeta, Run, Holds
<1>6. ASSUME NEW r \in Receivers PROVE ReceiverInv(r)
  <2>1. Taken(r) = 0 /\ Start(r) = 0 /\ End(r) = 0 /\ ~Pending(r)
    BY <1>2 DEF TransferInit, BroadcastInit, Taken, Start, End, Uncloned, NoMeta, Pending
  <2>2. SyncInv(r)
    BY DEF TransferInit, BroadcastInit, SyncInv, Behind, NoMeta
  <2>3. LinkInv(r)
    BY <1>2 DEF TransferInit, BroadcastInit, LinkInv
  <2>4. CountInv(r)
    BY <1>2, <1>4, <2>1 DEF TransferInit, BroadcastInit, CountInv, NoMeta, Run
  <2>5. LoadInv(r)  BY <1>2 DEF TransferInit, LoadInv, Run
  <2>6. BufferInv(r)
    BY <1>2, <2>1 DEF TransferInit, BroadcastInit, BufferInv, Holds, NoMeta
  <2>7. CopyInv(r)  BY <1>2 DEF TransferInit, CopyInv
  <2> QED  BY <2>2, <2>3, <2>4, <2>5, <2>6, <2>7 DEF ReceiverInv
<1> QED  BY <1>3, <1>5, <1>6 DEF TransferInv

\* A weight goes into the buffer that is not being broadcast.
LEMMA PackKept == ASSUME TransferInv, PackWeight, UNCHANGED ipcVars PROVE TransferInv'
<1>0. NumWeights \in Nat /\ BucketSize \in Nat /\ sent + 1 \in Weights
      /\ Size[sent + 1] \in Nat
  BY SizesFit, SenderTypes DEF TransferInv, PackWeight, Weights
<1>1. UNCHANGED <<sendCell, op, opCount, joined, published, receiverVars, ipcVars>>
  BY DEF PackWeight
<1>2. /\ bucketMeta' \in Seq(Weights) /\ Len(bucketMeta') = Len(bucketMeta) + 1
      /\ DOMAIN bucketMeta' = 1 .. Len(bucketMeta) + 1
      /\ \A i \in 1 .. Len(bucketMeta) : bucketMeta'[i] = bucketMeta[i]
      /\ bucketMeta'[Len(bucketMeta) + 1] = sent + 1
  BY <1>0, SenderTypes, AppendProperties DEF TransferInv, PackWeight
<1>3. sent \in Nat /\ sent < NumWeights /\ sent' = sent + 1 /\ Len(bucketMeta) \in Nat
      /\ Len(bucketMeta) <= sent /\ ~op.meta.is_last
  BY SenderTypes DEF TransferInv, PackInv, PackWeight
<1> DEFINE n == Len(bucketMeta)
<1>4. n + 1 \in Slots  BY <1>0, <1>3 DEF Slots
<1>5. sendBuf \in [Cells -> Buffer] /\ sendCell \in Cells
  BY DEF TransferInv, TransferTypeOK
<1>6. sendBuf' = [sendBuf EXCEPT ![sendCell][n + 1] = sent + 1]  BY DEF PackWeight
<1>7. /\ sendBuf' \in [Cells -> Buffer]
      /\ \A c \in Cells \ {sendCell} : sendBuf'[c] = sendBuf[c]
      /\ \A i \in Slots : sendBuf'[sendCell][i] = IF i = n + 1 THEN sent + 1
                                                 ELSE sendBuf[sendCell][i]
  BY <1>0, <1>4, <1>5, <1>6 DEF Buffer
<1>8. TransferTypeOK'
  <2>1. offset' \in 0 .. BucketSize
    <3>1. offset \in Nat /\ offset' = offset + Size[sent + 1]
          /\ offset + Size[sent + 1] <= BucketSize
      BY DEF TransferInv, TransferTypeOK, PackWeight, Fits
    <3> QED  BY <1>0, <3>1
  <2>2. sent' \in 0 .. NumWeights  BY <1>0, <1>3
  <2> QED  BY <1>1, <1>2, <1>7, <2>1, <2>2
       DEF TransferInv, TransferTypeOK, receiverVars, ipcVars
<1>9. OpEnd' = OpEnd /\ OpStart' = OpStart
  <2>1. sent' - Len(bucketMeta') = sent - Len(bucketMeta)  BY <1>2, <1>3
  <2> QED  BY <1>1, <1>3, <2>1 DEF OpEnd, OpStart
<1>10. PackInv'
  <2>1. Len(bucketMeta') <= sent'  BY <1>2, <1>3
  <2>2. Run(bucketMeta, sent - Len(bucketMeta))'
    <3>1. \A i \in 1 .. n : bucketMeta[i] = sent - n + i
      BY SenderTypes DEF TransferInv, PackInv, Run
    <3>2. sent' - Len(bucketMeta') = sent - n /\ sent - n + (n + 1) = sent + 1  BY <1>2, <1>3
    <3>3. DOMAIN bucketMeta' = (1 .. n) \cup {n + 1}  BY <1>2, <1>3
    <3> QED  BY <1>2, <3>1, <3>2, <3>3 DEF Run
  <2>3. Holds(sendBuf[sendCell], bucketMeta)'
    <3>1. \A i \in 1 .. n : sendBuf[sendCell][i] = bucketMeta[i]
      BY SenderTypes DEF TransferInv, PackInv, Holds
    <3>2. \A i \in 1 .. n + 1 : i \in Slots  BY <1>0, <1>3 DEF Slots
    <3>3. DOMAIN bucketMeta' = (1 .. n) \cup {n + 1} /\ \A i \in 1 .. n : i # n + 1
      BY <1>2, <1>3
    <3> QED  BY <1>1, <1>2, <1>7, <3>1, <3>2, <3>3 DEF Holds
  <2>4. op.state \in {"meta", "collective"} => sendBuf'[op.cell] = sendBuf[op.cell]
    <3>1. op.state \in {"meta", "collective"} => op.cell = Other(sendCell)
      BY <1>3 DEF TransferInv, PackInv
    <3>2. Other(sendCell) \in Cells \ {sendCell}  BY <1>5 DEF Other, Cells
    <3> QED  BY <1>7, <3>1, <3>2
  <2> QED  BY <1>1, <1>3, <1>9, <2>1, <2>2, <2>3, <2>4 DEF TransferInv, PackInv, Holds, Run
<1>11. ASSUME NEW q \in Receivers PROVE ReceiverInv(q)'
  <2>1. ReceiverInv(q) /\ Untouched(q)  BY <1>1, AllUntouched DEF TransferInv
  <2> QED  BY <1>1, <1>9, <2>1, OtherKept
<1> QED  BY <1>8, <1>10, <1>11 DEF TransferInv

\* All receivers have the bucket of the last broadcast when the next one starts.
LEMMA StartReceivers ==
  ASSUME TransferInv, NEW l, StartBroadcast(l), ~op.meta.is_last, OpStart' = OpEnd,
         UNCHANGED <<receiverVars, ipcVars, published>>, NEW q \in Receivers
  PROVE  ReceiverInv(q)'
<1>1. ReceiverInv(q) /\ Same(q) /\ published'[q] = published[q]
  BY AllUntouched DEF TransferInv, Untouched
<1>2. /\ LinkInv(q)' /\ LoadInv(q)' /\ BufferInv(q)' /\ CopyInv(q)'
      /\ End(q)' = End(q) /\ Start(q)' = Start(q) /\ Pending(q)' = Pending(q)
  BY <1>1, OwnKept
<1>3. opCount \in Nat /\ recvCount[q] \in Nat  BY SenderTypes, ReceiverTypes DEF TransferInv
<1>4. /\ recvCount[q] = opCount /\ ~Behind(q) /\ published[q] = <<>>
      /\ recvOp[q] # "collective" /\ ~current[q].is_last
      /\ recvOp[q] = "done" => metadata[q] = op.meta
  BY <1>1, <1>3 DEF ReceiverInv, SyncInv, StartBroadcast, Behind
<1>5. /\ op'.state = "meta" /\ opCount' = opCount + 1 /\ opCount' # recvCount[q]
      /\ Behind(q)'
  BY <1>1, <1>3, <1>4 DEF StartBroadcast, Behind, Same
<1>6. SyncInv(q)'  BY <1>1, <1>4, <1>5 DEF SyncInv, Same
<1>7. CountInv(q)'
  BY <1>1, <1>2, <1>4, <1>5 DEF ReceiverInv, CountInv, Same, Run
<1> QED  BY <1>2, <1>6, <1>7 DEF ReceiverInv

\* What an operation that starts has: the bucket that was filled, in its buffer.
LEMMA StartTypes ==
  ASSUME TransferTypeOK, NEW l \in BOOLEAN, StartBroadcast(l)
  PROVE  /\ op' \in [state : OpState, cell : Cells, meta : Meta] /\ opCount' \in Nat
         /\ op'.state = "meta" /\ op'.cell = sendCell
         /\ op'.meta.names = bucketMeta /\ op'.meta.is_last = l
BY SenderTypes DEF TransferTypeOK, StartBroadcast, Meta, OpState

\* A full bucket is broadcast and the other buffer is filled next.
LEMMA SendBucketKept == ASSUME TransferInv, SendBucket, UNCHANGED ipcVars PROVE TransferInv'
<1>1. /\ sent < NumWeights /\ StartBroadcast(FALSE) /\ sendCell' = Other(sendCell)
      /\ bucketMeta' = <<>> /\ offset' = 0
      /\ UNCHANGED <<sent, sendBuf, joined, published, receiverVars>>
  BY DEF SendBucket
<1>2. /\ sent \in Nat /\ sent <= NumWeights /\ NumWeights \in Nat
      /\ Len(bucketMeta) \in Nat /\ Len(bucketMeta) <= sent /\ sendCell \in Cells
      /\ BucketSize \in Nat
  BY SenderTypes, SizesFit DEF TransferInv, PackInv, TransferTypeOK
<1>3. ~op.meta.is_last  BY <1>1, <1>2 DEF TransferInv, PackInv
<1>4. /\ op' \in [state : OpState, cell : Cells, meta : Meta] /\ opCount' \in Nat
      /\ op'.state = "meta" /\ op'.cell = sendCell
      /\ op'.meta.names = bucketMeta /\ op'.meta.is_last = FALSE
  BY <1>1, StartTypes DEF TransferInv
<1>5. Len(<<>>) = 0 /\ DOMAIN <<>> = {} /\ <<>> \in Seq(Weights)  BY EmptySeq
<1>6. OpStart' = OpEnd /\ OpStart' = sent - Len(bucketMeta)
  <2>1. OpEnd = sent - Len(bucketMeta)  BY <1>3 DEF OpEnd
  <2>2. OpEnd' = sent  BY <1>1, <1>2, <1>4, <1>5 DEF OpEnd
  <2> QED  BY <1>4, <2>1, <2>2 DEF OpStart
<1>7. Other(sendCell) \in Cells /\ Other(Other(sendCell)) = sendCell
  BY <1>2 DEF Cells, Other
<1>8. TransferTypeOK'
  <2>1. offset' \in 0 .. BucketSize /\ sendCell' \in Cells /\ bucketMeta' \in Seq(Weights)
    BY <1>1, <1>2, <1>5, <1>7
  <2> QED  BY <1>1, <1>4, <2>1 DEF TransferInv, TransferTypeOK, receiverVars, ipcVars
<1>9. PackInv'
  <2>1. Len(bucketMeta') <= sent' /\ Run(bucketMeta, sent - Len(bucketMeta))'
    BY <1>1, <1>2, <1>5 DEF Run
  <2>2. OpStart' >= 0 /\ Run(op.meta.names, OpStart)'
    <3>1. Run(bucketMeta, sent - Len(bucketMeta))  BY DEF TransferInv, PackInv
    <3>2. sent - Len(bucketMeta) >= 0  BY <1>2
    <3> QED  BY <1>4, <1>6, <3>1, <3>2 DEF Run
  <2>3. Holds(sendBuf[sendCell], bucketMeta)'  BY <1>1, <1>5 DEF Holds
  <2>4. op'.cell = Other(sendCell)' /\ Holds(sendBuf[op.cell], op.meta.names)'
    <3>1. Holds(sendBuf[sendCell], bucketMeta)  BY DEF TransferInv, PackInv
    <3>2. op'.cell = Other(sendCell)'  BY <1>1, <1>4, <1>7 DEF Other
    <3> QED  BY <1>1, <1>4, <3>1, <3>2 DEF Holds
  <2> QED  BY <1>4, <2>1, <2>2, <2>3, <2>4 DEF PackInv
<1>10. ASSUME NEW q \in Receivers PROVE ReceiverInv(q)'
  BY <1>1, <1>3, <1>6, StartReceivers
<1> QED  BY <1>8, <1>9, <1>10 DEF TransferInv

\* The last bucket is broadcast from the buffer it was filled in.
LEMMA SendLastKept == ASSUME TransferInv, SendLast, UNCHANGED ipcVars PROVE TransferInv'
<1>1. /\ sent = NumWeights /\ StartBroadcast(TRUE) /\ ~op.meta.is_last
      /\ UNCHANGED <<sent, offset, bucketMeta, sendCell, sendBuf, joined, published,
                     receiverVars>>
  BY DEF SendLast
<1>2. sent \in Nat /\ Len(bucketMeta) \in Nat /\ Len(bucketMeta) <= sent
  BY SenderTypes, SizesFit DEF TransferInv, PackInv
<1>3. /\ op' \in [state : OpState, cell : Cells, meta : Meta] /\ opCount' \in Nat
      /\ op'.state = "meta" /\ op'.cell = sendCell
      /\ op'.meta.names = bucketMeta /\ op'.meta.is_last = TRUE
  BY <1>1, StartTypes DEF TransferInv
<1>4. OpStart' = OpEnd /\ OpStart' = sent - Len(bucketMeta)
  <2>1. OpEnd = sent - Len(bucketMeta)  BY <1>1 DEF OpEnd
  <2>2. OpEnd' = sent  BY <1>1, <1>3 DEF OpEnd
  <2> QED  BY <1>3, <2>1, <2>2 DEF OpStart
<1>5. TransferTypeOK'
  BY <1>1, <1>3 DEF TransferInv, TransferTypeOK, receiverVars, ipcVars
<1>6. PackInv'
  <2>1. Run(bucketMeta, sent - Len(bucketMeta)) /\ Holds(sendBuf[sendCell], bucketMeta)
    BY DEF TransferInv, PackInv
  <2>2. Len(bucketMeta') <= sent' /\ Run(bucketMeta, sent - Len(bucketMeta))'
    BY <1>1, <1>2, <2>1 DEF Run
  <2>3. OpStart' >= 0 /\ Run(op.meta.names, OpStart)'
    <3>1. sent - Len(bucketMeta) >= 0  BY <1>2
    <3> QED  BY <1>3, <1>4, <2>1, <3>1 DEF Run
  <2>4. Holds(sendBuf[sendCell], bucketMeta)' /\ Holds(sendBuf[op.cell], op.meta.names)'
    BY <1>1, <1>3, <2>1 DEF Holds
  <2> QED  BY <1>1, <1>3, <2>2, <2>3, <2>4 DEF PackInv, NumWeights
<1>7. ASSUME NEW q \in Receivers PROVE ReceiverInv(q)'
  BY <1>1, <1>4, StartReceivers
<1> QED  BY <1>5, <1>6, <1>7 DEF TransferInv

\* The metadata is published: subscribers will have it, the others never will.
LEMMA PublishKept == ASSUME TransferInv, Publish, UNCHANGED ipcVars PROVE TransferInv'
<1>1. /\ op.state = "meta" /\ op' = [op EXCEPT !.state = "collective"]
      /\ published' = [r \in Receivers |->
                         IF r \in joined THEN Append(published[r], op.meta) ELSE published[r]]
      /\ UNCHANGED <<sent, offset, bucketMeta, sendCell, sendBuf, opCount, joined, receiverVars>>
  BY DEF Publish
<1>2. op' \in [state : OpState, cell : Cells, meta : Meta]
  BY <1>1 DEF TransferInv, TransferTypeOK, OpState
<1>3. op'.state = "collective" /\ op'.cell = op.cell /\ op'.meta = op.meta
  BY <1>1 DEF TransferInv, TransferTypeOK
<1>4. ASSUME NEW q \in Receivers
      PROVE  published'[q] \in Seq(Meta) /\ (published'[q] = <<>> \/ published'[q] = <<op.meta>>)
  <2>1. published[q] = <<>>
    BY <1>1 DEF TransferInv, ReceiverInv, SyncInv
  <2>2. Append(<<>>, op.meta) = <<op.meta>> /\ <<op.meta>> \in Seq(Meta) /\ <<>> \in Seq(Meta)
    BY SenderTypes DEF TransferInv
  <2> QED  BY <1>1, <2>1, <2>2
<1>5. TransferTypeOK'
  <2>1. published' \in [Receivers -> Seq(Meta)]  BY <1>1, <1>4
  <2> QED  BY <1>1, <1>2, <2>1 DEF TransferInv, TransferTypeOK, receiverVars, ipcVars
<1>6. OpEnd' = OpEnd /\ OpStart' = OpStart  BY <1>1, <1>3 DEF OpEnd, OpStart
<1>7. PackInv'  BY <1>1, <1>3, <1>6 DEF TransferInv, PackInv, Run, Holds, Other
<1>8. ASSUME NEW q \in Receivers PROVE ReceiverInv(q)'
  <2>1. ReceiverInv(q) /\ Same(q)
    BY <1>1 DEF TransferInv, Same, receiverVars, ipcVars
  <2>2. /\ LinkInv(q)' /\ LoadInv(q)' /\ BufferInv(q)' /\ CopyInv(q)'
        /\ End(q)' = End(q) /\ Start(q)' = Start(q) /\ Pending(q)' = Pending(q)
    BY <2>1, OwnKept
  <2>3. Behind(q) /\ Behind(q)' /\ recvOp[q] # "collective"
    BY <1>1, <2>1 DEF ReceiverInv, SyncInv, Same, Behind
  <2>4. SyncInv(q)'
    BY <1>1, <1>3, <1>4, <2>1, <2>3 DEF ReceiverInv, SyncInv, Same
  <2>5. CountInv(q)'
    BY <1>1, <1>6, <2>1, <2>2 DEF ReceiverInv, CountInv, Same, Run
  <2> QED  BY <2>2, <2>4, <2>5 DEF ReceiverInv
<1> QED  BY <1>5, <1>7, <1>8 DEF TransferInv

\* The broadcast is over when the last receiver has the bucket.
LEMMA CompleteKept == ASSUME TransferInv, BroadcastCompletes, UNCHANGED ipcVars PROVE TransferInv'
<1>1. /\ op.state = "collective" /\ op' = [op EXCEPT !.state = "done"]
      /\ \A r \in Receivers : recvCount[r] = opCount
      /\ UNCHANGED <<sent, offset, bucketMeta, sendCell, sendBuf, opCount, joined, published,
                     receiverVars>>
  BY DEF BroadcastCompletes
<1>2. op' \in [state : OpState, cell : Cells, meta : Meta]
  BY <1>1 DEF TransferInv, TransferTypeOK, OpState
<1>3. op'.state = "done" /\ op'.cell = op.cell /\ op'.meta = op.meta
  BY <1>1 DEF TransferInv, TransferTypeOK
<1>5. TransferTypeOK'
  BY <1>1, <1>2 DEF TransferInv, TransferTypeOK, receiverVars, ipcVars
<1>6. OpEnd' = OpEnd /\ OpStart' = OpStart  BY <1>1, <1>3 DEF OpEnd, OpStart
<1>7. PackInv'  BY <1>1, <1>3, <1>6 DEF TransferInv, PackInv, Run, Holds
<1>8. ASSUME NEW q \in Receivers PROVE ReceiverInv(q)'
  <2>1. ReceiverInv(q) /\ Same(q) /\ published'[q] = published[q]
    BY <1>1, AllUntouched DEF TransferInv, Untouched
  <2>2. /\ LinkInv(q)' /\ LoadInv(q)' /\ BufferInv(q)' /\ CopyInv(q)'
        /\ End(q)' = End(q) /\ Start(q)' = Start(q) /\ Pending(q)' = Pending(q)
    BY <2>1, OwnKept
  <2>3. opCount \in Nat /\ recvCount[q] = opCount /\ ~Behind(q) /\ ~Behind(q)'
    BY <1>1, <2>1, SenderTypes DEF TransferInv, Same, Behind
  <2>4. SyncInv(q)'
    BY <1>1, <1>3, <2>1, <2>3 DEF ReceiverInv, SyncInv, Same
  <2>5. CountInv(q)'
    BY <1>1, <1>6, <2>1, <2>2 DEF ReceiverInv, CountInv, Same, Run
  <2> QED  BY <2>2, <2>4, <2>5 DEF ReceiverInv
<1> QED  BY <1>5, <1>7, <1>8 DEF TransferInv

(***************************************************************************)
(* The steps of a receiver's broadcast                                     *)
(***************************************************************************)

\* The publisher learns of a subscription.
LEMMA JoinKept ==
  ASSUME TransferInv, NEW r \in Receivers, Join(r), UNCHANGED ipcVars
  PROVE  TransferInv'
<1>1. joined' \subseteq Receivers /\ UNCHANGED <<senderVars, published, receiverVars, ipcVars>>
  BY DEF Join, TransferInv, TransferTypeOK
<1>2. TransferTypeOK'
  BY <1>1 DEF TransferInv, TransferTypeOK, senderVars, receiverVars, ipcVars
<1>3. \A q \in Receivers : Untouched(q)  BY <1>1, AllUntouched
<1>4. UNCHANGED <<sent, bucketMeta, op, opCount>>  BY <1>1 DEF senderVars
<1>5. OpEnd' = OpEnd /\ OpStart' = OpStart  BY <1>4 DEF OpEnd, OpStart
<1>6. ReceiverInv(r)'  BY <1>3, <1>4, <1>5, OtherKept DEF TransferInv
<1> QED  BY <1>1, <1>2, <1>3, <1>6, ByReceiver

\* The metadata arrives: it is that of the broadcast under way.
LEMMA ReceiveMetaKept ==
  ASSUME TransferInv, NEW r \in Receivers, ReceiveMeta(r), UNCHANGED ipcVars
  PROVE  TransferInv'
<1>1. /\ recvOp[r] = "meta" /\ published[r] # <<>>
      /\ recvOp' = [recvOp EXCEPT ![r] = "collective"]
      /\ metadata' = [metadata EXCEPT ![r] = Head(published[r])]
      /\ published' = [published EXCEPT ![r] = Tail(@)]
      /\ UNCHANGED <<senderVars, joined, recvCount, recvCell, recvBuf, current, yielded>>
  BY DEF ReceiveMeta
<1>2. published[r] = <<op.meta>> /\ op.state = "collective" /\ Behind(r)
  BY <1>1 DEF TransferInv, ReceiverInv, SyncInv
<1>3. Head(published[r]) = op.meta /\ Tail(published[r]) = <<>> /\ op.meta \in Meta
      /\ <<>> \in Seq(Meta)
  BY <1>2, SenderTypes DEF TransferInv
<1>4. TransferTypeOK'
  BY <1>1, <1>3 DEF TransferInv, TransferTypeOK, senderVars, ipcVars, OpState
<1>5. \A q \in Receivers \ {r} : Untouched(q)
  BY <1>1 DEF TransferInv, TransferTypeOK, Untouched, Same, ipcVars
<1>6. /\ recvOp'[r] = "collective" /\ metadata'[r] = op.meta /\ published'[r] = <<>>
      /\ UNCHANGED <<op, opCount, sent, bucketMeta>>
  BY <1>1, <1>3 DEF TransferInv, TransferTypeOK, senderVars
<1>7. ReceiverInv(r)'
  <2>1. ReceiverInv(r)  BY DEF TransferInv
  <2>2. OpEnd' = OpEnd /\ OpStart' = OpStart  BY <1>6 DEF OpEnd, OpStart
  <2>3. ~Pending(r) /\ ~Pending(r)'  BY <1>1, <1>6 DEF Pending
  <2>4. Uncloned(r)' = Uncloned(r)  BY DEF Uncloned, ipcVars
  <2>5. Start(r)' = Start(r) /\ End(r)' = End(r)
    BY <1>1, <2>4 DEF Start, End, Taken, ipcVars
  <2>6. SyncInv(r)'  BY <1>1, <1>2, <1>6, <2>1 DEF ReceiverInv, SyncInv, Behind
  <2>7. LinkInv(r)'
    BY <1>1, <1>6, <2>1 DEF ReceiverInv, LinkInv, Asked, Answered, Exhausted, HasTensor, ipcVars
  <2>8. CountInv(r)'
    BY <1>1, <1>6, <2>1, <2>2, <2>3, <2>5 DEF ReceiverInv, CountInv, Run
  <2>9. LoadInv(r)'  BY <2>1, <2>4 DEF ReceiverInv, LoadInv, Run, ipcVars
  <2>10. BufferInv(r)'  BY <1>1, <2>1, <2>3 DEF ReceiverInv, BufferInv, Holds, Other
  <2>11. CopyInv(r)'  BY <1>1, <2>1 DEF ReceiverInv, CopyInv, ipcVars, Other
  <2> QED  BY <2>6, <2>7, <2>8, <2>9, <2>10, <2>11 DEF ReceiverInv
<1>8. UNCHANGED senderVars  BY <1>1
<1> QED  BY <1>4, <1>5, <1>7, <1>8, ByReceiver

\* The bytes arrive in the buffer that is not yielded from, and rank 0 still holds them.
LEMMA ReceiveBucketKept ==
  ASSUME TransferInv, NEW r \in Receivers, ReceiveBucket(r), UNCHANGED ipcVars
  PROVE  TransferInv'
<1>1. /\ op.state = "collective" /\ recvOp[r] = "collective" /\ recvCount[r] < opCount
      /\ recvBuf' = [recvBuf EXCEPT ![r][recvCell[r]] = sendBuf[op.cell]]
      /\ recvOp' = [recvOp EXCEPT ![r] = "done"]
      /\ recvCount' = [recvCount EXCEPT ![r] = @ + 1]
      /\ UNCHANGED <<senderVars, joined, published, recvCell, metadata, current, yielded>>
  BY DEF ReceiveBucket
<1>2. /\ recvCount[r] \in Nat /\ opCount \in Nat /\ op.cell \in Cells /\ recvCell[r] \in Cells
      /\ recvBuf \in [Receivers -> [Cells -> Buffer]] /\ sendBuf \in [Cells -> Buffer]
  BY SenderTypes, ReceiverTypes DEF TransferInv, TransferTypeOK
<1>3. ReceiverInv(r)  BY DEF TransferInv
<1>4. Behind(r) /\ metadata[r] = op.meta /\ published[r] = <<>> /\ ~current[r].is_last
  BY <1>1, <1>2, <1>3 DEF ReceiverInv, SyncInv, Behind
<1>5. /\ recvOp'[r] = "done" /\ recvCount'[r] = opCount /\ recvCount[r] # opCount
      /\ recvBuf'[r][recvCell[r]] = sendBuf[op.cell]
      /\ \A c \in Cells \ {recvCell[r]} : recvBuf'[r][c] = recvBuf[r][c]
      /\ UNCHANGED <<op, opCount, sent, bucketMeta>>
  BY <1>1, <1>2, <1>4 DEF TransferInv, TransferTypeOK, senderVars, Behind
<1>6. TransferTypeOK'
  <2>1. recvBuf' \in [Receivers -> [Cells -> Buffer]]  BY <1>1, <1>2
  <2>2. recvCount' \in [Receivers -> Nat]  BY <1>1, <1>2 DEF TransferInv, TransferTypeOK
  <2> QED  BY <1>1, <2>1, <2>2 DEF TransferInv, TransferTypeOK, senderVars, ipcVars, OpState
<1>7. \A q \in Receivers \ {r} : Untouched(q)
  BY <1>1 DEF TransferInv, TransferTypeOK, Untouched, Same, ipcVars
<1>8. ReceiverInv(r)'
  <2>1. OpEnd' = OpEnd /\ OpStart' = OpStart  BY <1>5 DEF OpEnd, OpStart
  <2>2. ~Pending(r) /\ Pending(r)' /\ ~Behind(r)'
    BY <1>1, <1>4, <1>5, <1>2 DEF Pending, Behind
  <2>3. Uncloned(r)' = Uncloned(r)  BY DEF Uncloned, ipcVars
  <2>4. Start(r)' = Start(r) /\ End(r)' = End(r)
    BY <1>1, <2>3 DEF Start, End, Taken, ipcVars
  <2>5. SyncInv(r)'  BY <1>1, <1>4, <1>5, <2>2 DEF SyncInv
  <2>6. LinkInv(r)'
    BY <1>1, <1>3, <1>5 DEF ReceiverInv, LinkInv, Asked, Answered, Exhausted, HasTensor, ipcVars
  <2>7. CountInv(r)'
    <3>1. /\ yielded[r] <= Len(current[r].names) /\ Start(r) >= 0
          /\ Run(current[r].names, Start(r)) /\ End(r) = OpStart
      <4>1. End(r) + 0 = OpStart /\ End(r) \in Nat
        BY <1>3, <1>5, <2>2, Bounds DEF ReceiverInv, CountInv
      <4> QED  BY <1>3, <4>1 DEF ReceiverInv, CountInv
    <3>2. Run(op.meta.names, OpStart)  BY DEF TransferInv, PackInv
    <3>3. OpStart + Len(op.meta.names) = OpEnd
      <4>1. OpEnd \in Nat /\ Len(op.meta.names) \in Nat
        BY Bounds, SenderTypes DEF TransferInv
      <4>2. OpStart = OpEnd - Len(op.meta.names)  BY DEF OpStart
      <4> HIDE DEF OpStart, OpEnd
      <4> QED  BY <4>1, <4>2
    <3> QED  BY <1>1, <1>4, <1>5, <2>1, <2>2, <2>4, <3>1, <3>2, <3>3 DEF CountInv, Run
  <2>8. LoadInv(r)'  BY <1>3, <2>3 DEF ReceiverInv, LoadInv, Run, ipcVars
  <2>9. BufferInv(r)'
    <3>1. Other(recvCell[r]) \in Cells \ {recvCell[r]}  BY <1>2 DEF Other, Cells
    <3>2. Holds(sendBuf[op.cell], op.meta.names)  BY <1>1 DEF TransferInv, PackInv
    <3>3. Holds(recvBuf[r][Other(recvCell[r])], current[r].names)
      BY <1>3 DEF ReceiverInv, BufferInv
    <3>4. recvCell'[r] = recvCell[r] /\ Other(recvCell[r])' = Other(recvCell[r])
      BY <1>1 DEF Other
    <3>5. recvBuf'[r][Other(recvCell[r])] = recvBuf[r][Other(recvCell[r])]  BY <1>5, <3>1
    <3> QED  BY <1>1, <1>4, <1>5, <3>2, <3>3, <3>4, <3>5 DEF BufferInv, Holds
  <2>10. CopyInv(r)'  BY <1>1, <1>3 DEF ReceiverInv, CopyInv, ipcVars, Other
  <2> QED  BY <2>5, <2>6, <2>7, <2>8, <2>9, <2>10 DEF ReceiverInv
<1>9. UNCHANGED senderVars  BY <1>1
<1> QED  BY <1>6, <1>7, <1>8, <1>9, ByReceiver

(***************************************************************************)
(* The steps of the sender into the shared buffer                          *)
(***************************************************************************)

\* The consumer starts the generator when its handle is acknowledged.
LEMMA HandshakeEndsKept ==
  ASSUME TransferInv, NEW r \in Receivers, HandshakeEnds(r) PROVE TransferInv'
<1>1. /\ ipcPc[r] = "handshake" /\ reply[r] /\ reply' = [reply EXCEPT ![r] = FALSE]
      /\ ipcPc' = [ipcPc EXCEPT ![r] = "pull"] /\ recvOp[r] = "none"
      /\ recvOp' = [recvOp EXCEPT ![r] = "meta"]
      /\ UNCHANGED <<ipcOffset, ipcMeta, ipcBuf, copies, request, loadPc, clones, loaded>>
      /\ UNCHANGED <<senderVars, joined, published, recvCount, recvCell, recvBuf, metadata,
                     current, yielded>>
  BY DEF HandshakeEnds, Replied, Set, FirstBucket
<1>2. TransferTypeOK'
  BY <1>1 DEF TransferInv, TransferTypeOK, senderVars, OpState, IpcPc
<1>3. \A q \in Receivers \ {r} : Untouched(q)
  BY <1>1 DEF TransferInv, TransferTypeOK, Untouched, Same
<1>4. /\ ipcPc'[r] = "pull" /\ ~reply'[r] /\ recvOp'[r] = "meta"
      /\ UNCHANGED <<op, opCount, sent, bucketMeta>>
  BY <1>1 DEF TransferInv, TransferTypeOK, senderVars
<1>5. ReceiverInv(r)'
  <2>1. ReceiverInv(r)  BY DEF TransferInv
  <2>2. loadPc[r] = "recv" /\ request[r] = <<>> /\ ipcMeta[r] = <<>>
    BY <1>1, <2>1 DEF ReceiverInv, LinkInv, Answered
  <2>3. OpEnd' = OpEnd /\ OpStart' = OpStart  BY <1>4 DEF OpEnd, OpStart
  <2>4. ~Pending(r) /\ ~Pending(r)' /\ Uncloned(r) /\ Uncloned(r)'
    BY <1>1, <1>4 DEF Pending, Uncloned
  <2>5. Start(r)' = Start(r) /\ End(r)' = End(r)
    BY <1>1, <2>4 DEF Start, End, Taken
  <2>6. SyncInv(r)'  BY <1>1, <1>4, <2>1 DEF ReceiverInv, SyncInv, Behind
  <2>7. LinkInv(r)'  BY <1>1, <1>4, <2>2 DEF LinkInv
  <2>8. CountInv(r)'
    BY <1>1, <1>4, <2>1, <2>3, <2>4, <2>5 DEF ReceiverInv, CountInv, Run
  <2>9. LoadInv(r)'  BY <1>1, <2>1, <2>4 DEF ReceiverInv, LoadInv, Run
  <2>10. BufferInv(r)'  BY <1>1, <2>1, <2>4 DEF ReceiverInv, BufferInv, Holds, Other
  <2>11. CopyInv(r)'  BY <1>1, <1>4, <2>1 DEF ReceiverInv, CopyInv, Other
  <2> QED  BY <2>6, <2>7, <2>8, <2>9, <2>10, <2>11 DEF ReceiverInv
<1>6. UNCHANGED senderVars  BY <1>1
<1> QED  BY <1>2, <1>3, <1>5, <1>6, ByReceiver

\* The shared bucket is within the shared buffer.
LEMMA BucketInSlots ==
  ASSUME TransferInv, NEW r \in Receivers, Uncloned(r)
  PROVE  DOMAIN ipcMeta[r] \subseteq Slots
<1> DEFINE l == Len(loaded[r])  c == Len(clones[r])  m == Len(ipcMeta[r])
<1>1. Taken(r) = l + c + m  BY DEF Taken
<1>2. l \in Nat /\ c \in Nat /\ m \in Nat /\ DOMAIN ipcMeta[r] = 1 .. m
  BY Lengths DEF TransferInv
<1>3. Taken(r) <= End(r) /\ End(r) \in Nat /\ End(r) <= NumWeights /\ NumWeights \in Nat
  BY Bounds, SizesFit
<1> HIDE DEF l, c, m
<1>4. m <= NumWeights
  <2> HIDE DEF Taken, End
  <2> QED  BY <1>1, <1>2, <1>3
<1> QED  BY <1>2, <1>3, <1>4 DEF Slots

\* When the device is synchronized, the shared bucket is complete.
LEMMA Synchronization ==
  ASSUME TransferInv, NEW r \in Receivers, Uncloned(r), Synchronize(r), ipcPc[r] # "closed"
  PROVE  /\ ipcBuf' \in [Receivers -> Buffer] /\ copies'[r] = <<>>
         /\ copies' \in [Receivers -> Seq([slot : Slots, view : [cell : Cells, slot : Slots]])]
         /\ Holds(ipcBuf'[r], ipcMeta[r])
         /\ \A q \in Receivers \ {r} : ipcBuf'[q] = ipcBuf[q] /\ copies'[q] = copies[q]
<1> DEFINE C == copies[r]
<1>1. /\ ipcBuf' = [ipcBuf EXCEPT ![r] = Synchronized(r)] /\ copies' = [copies EXCEPT ![r] = <<>>]
      /\ ipcBuf \in [Receivers -> Buffer]
      /\ copies \in [Receivers -> Seq([slot : Slots, view : [cell : Cells, slot : Slots]])]
  BY DEF TransferInv, TransferTypeOK, Synchronize, Set
<1>2. \A k \in DOMAIN C : /\ C[k].view.cell \in Cells /\ C[k].view.slot \in Slots
  <2>1. C \in Seq([slot : Slots, view : [cell : Cells, slot : Slots]])  BY <1>1
  <2>2. \A k \in DOMAIN C : C[k] \in [slot : Slots, view : [cell : Cells, slot : Slots]]
    BY <2>1, ElementOfSeq, LenProperties
  <2> QED  BY <2>2
<1>3. recvBuf[r] \in [Cells -> Buffer] /\ ipcBuf[r] \in Buffer
  BY ReceiverTypes DEF TransferInv
<1>4. \A k \in DOMAIN C : Content(r, C[k].view) \in Weights \cup {0}
  BY <1>2, <1>3 DEF Content, Buffer
<1>5. Synchronized(r) \in Buffer
  <2>1. ASSUME NEW i \in Slots PROVE Synchronized(r)[i] \in Weights \cup {0}
    <3>1. CASE \E k \in DOMAIN C : C[k].slot = i
      <4> DEFINE k == CHOOSE k \in DOMAIN C : C[k].slot = i
      <4>1. k \in DOMAIN C  BY <3>1
      <4>2. Synchronized(r)[i] = Content(r, C[k].view)  BY <3>1 DEF Synchronized
      <4> QED  BY <1>4, <4>1, <4>2
    <3>2. CASE ~\E k \in DOMAIN C : C[k].slot = i
      BY <1>3, <3>2 DEF Synchronized, Buffer
    <3> QED  BY <3>1, <3>2
  <2> QED  BY <2>1 DEF Synchronized, Buffer
<1>6. Holds(Synchronized(r), ipcMeta[r])
  <2> SUFFICES ASSUME NEW i \in DOMAIN ipcMeta[r] PROVE Synchronized(r)[i] = ipcMeta[r][i]
    BY DEF Holds
  <2>1. i \in Slots  BY BucketInSlots
  <2>2. /\ Holds(recvBuf[r][Other(recvCell[r])], current[r].names)
        /\ \A k \in DOMAIN C :
             /\ C[k].slot \in DOMAIN ipcMeta[r] /\ C[k].view.cell = Other(recvCell[r])
             /\ C[k].view.slot \in DOMAIN current[r].names
             /\ current[r].names[C[k].view.slot] = ipcMeta[r][C[k].slot]
        /\ ipcBuf[r][i] = ipcMeta[r][i] \/ \E k \in DOMAIN C : C[k].slot = i
    BY DEF TransferInv, ReceiverInv, BufferInv, CopyInv
  <2>3. CASE \E k \in DOMAIN C : C[k].slot = i
    <3> DEFINE k == CHOOSE k \in DOMAIN C : C[k].slot = i
    <3>1. k \in DOMAIN C /\ C[k].slot = i  BY <2>3
    <3>2. Synchronized(r)[i] = Content(r, C[k].view)  BY <2>1, <2>3 DEF Synchronized
    <3> HIDE DEF k
    <3>3. Content(r, C[k].view) = ipcMeta[r][i]  BY <2>2, <3>1 DEF Content, Holds
    <3> QED  BY <3>2, <3>3
  <2>4. CASE ~\E k \in DOMAIN C : C[k].slot = i
    BY <2>1, <2>2, <2>4 DEF Synchronized
  <2> QED  BY <2>3, <2>4
<1>7. <<>> \in Seq([slot : Slots, view : [cell : Cells, slot : Slots]])  BY EmptySeq
<1> QED  BY <1>1, <1>5, <1>6, <1>7

\* The next bucket is yielded from the buffer it came in; no copy reads the other one.
LEMMA PullBucketKept ==
  ASSUME TransferInv, NEW r \in Receivers, PullBucket(r) PROVE TransferInv'
<1>1. /\ ipcPc[r] = "pull" /\ ~HasTensor(r) /\ ~current[r].is_last /\ recvOp[r] = "done"
      /\ recvCell' = [recvCell EXCEPT ![r] = Other(@)]
      /\ current' = [current EXCEPT ![r] = metadata[r]]
      /\ yielded' = [yielded EXCEPT ![r] = 0]
      /\ recvOp' = [recvOp EXCEPT ![r] = IF metadata[r].is_last THEN "done" ELSE "meta"]
      /\ UNCHANGED <<senderVars, joined, published, recvCount, recvBuf, metadata>>
      /\ UNCHANGED <<ipcPc, ipcOffset, ipcMeta, request, reply, loadPc, clones, loaded>>
      /\ Synchronize(r)
  BY DEF PullBucket, NextBucket
<1>2. Uncloned(r) /\ ipcPc[r] # "closed"  BY <1>1 DEF Uncloned
<1>3. /\ ipcBuf' \in [Receivers -> Buffer] /\ copies'[r] = <<>>
      /\ copies' \in [Receivers -> Seq([slot : Slots, view : [cell : Cells, slot : Slots]])]
      /\ Holds(ipcBuf'[r], ipcMeta[r])
      /\ \A q \in Receivers \ {r} : ipcBuf'[q] = ipcBuf[q] /\ copies'[q] = copies[q]
  BY <1>1, <1>2, Synchronization
<1>4. /\ recvCell[r] \in Cells /\ Other(recvCell[r]) \in Cells
      /\ Other(Other(recvCell[r])) = recvCell[r]
      /\ NumWeights \in Nat /\ metadata[r] \in Meta /\ metadata[r].is_last \in BOOLEAN
  BY ReceiverTypes, SizesFit DEF TransferInv, Cells, Other
<1>5. TransferTypeOK'
  <2>1. /\ recvCell' \in [Receivers -> Cells] /\ current' \in [Receivers -> Meta]
        /\ yielded' \in [Receivers -> 0 .. NumWeights] /\ recvOp' \in [Receivers -> OpState]
    BY <1>1, <1>4 DEF TransferInv, TransferTypeOK, OpState
  <2> QED  BY <1>1, <1>3, <2>1 DEF TransferInv, TransferTypeOK, senderVars
<1>6. \A q \in Receivers \ {r} : Untouched(q)
  BY <1>1, <1>3 DEF TransferInv, TransferTypeOK, Untouched, Same
<1>7. /\ recvCell'[r] = Other(recvCell[r]) /\ current'[r] = metadata[r] /\ yielded'[r] = 0
      /\ recvOp'[r] = IF metadata[r].is_last THEN "done" ELSE "meta"
      /\ UNCHANGED <<op, opCount, sent, bucketMeta>>
  BY <1>1 DEF TransferInv, TransferTypeOK, senderVars
<1>8. ReceiverInv(r)'
  <2>1. ReceiverInv(r)  BY DEF TransferInv
  <2>2. OpEnd' = OpEnd /\ OpStart' = OpStart  BY <1>7 DEF OpEnd, OpStart
  <2>3. Pending(r) /\ ~Pending(r)' /\ Uncloned(r)'
    BY <1>1, <1>4, <1>7 DEF Pending, Uncloned
  <2>4. SyncInv(r)'
    <3>1. opCount \in Nat /\ recvCount[r] \in Nat
      BY SenderTypes, ReceiverTypes DEF TransferInv
    <3>2. metadata[r].is_last => ~Behind(r) /\ recvCount[r] = opCount /\ metadata[r] = op.meta
      BY <1>1, <2>1 DEF ReceiverInv, SyncInv
    <3>3. Behind(r)' = Behind(r)  BY <1>1, <1>7 DEF Behind
    <3> QED  BY <1>1, <1>4, <1>7, <2>1, <3>2, <3>3 DEF ReceiverInv, SyncInv
  <2>5. LinkInv(r)'
    <3>1. recvOp'[r] # "none"  BY <1>7
    <3>2. ipcPc'[r] = "pull" /\ loadPc[r] \in {"recv", "load"} /\ request[r] = <<>> /\ ~reply[r]
      BY <1>1, <2>1 DEF ReceiverInv, LinkInv
    <3> QED  BY <1>1, <3>1, <3>2 DEF LinkInv
  <2>6. CountInv(r)'
    <3>1. Taken(r)' = Taken(r)  BY <1>1, <1>2, <2>3 DEF Taken
    <3>2. yielded[r] = Len(current[r].names)
      <4>1. yielded[r] <= Len(current[r].names) /\ ~(yielded[r] < Len(current[r].names))
        BY <1>1, <2>1 DEF ReceiverInv, CountInv, HasTensor
      <4>2. yielded[r] \in Nat /\ Len(current[r].names) \in Nat
        BY ReceiverTypes, Lengths DEF TransferInv
      <4> QED  BY <4>1, <4>2
    <3>3. Taken(r) \in Nat /\ Taken(r) = End(r) /\ End(r) \in Nat
      <4>1. /\ Taken(r) \in Nat /\ Start(r) \in Nat /\ End(r) \in Nat
            /\ Taken(r) = Start(r) + yielded[r]
        BY Bounds
      <4>2. End(r) = Start(r) + Len(current[r].names)  BY DEF End
      <4> QED  BY <3>2, <4>1, <4>2
    <3>4. Start(r)' = End(r) /\ End(r)' = End(r) + Len(metadata[r].names)
      <4>1. Start(r)' = Taken(r) - 0  BY <1>7, <3>1 DEF Start
      <4>2. Start(r)' = End(r)  BY <3>3, <4>1
      <4> QED  BY <1>7, <4>2 DEF End
    <3>5. Run(metadata[r].names, End(r))
      BY <2>1, <2>3 DEF ReceiverInv, CountInv
    <3>6. End(r) + Len(metadata[r].names) = IF recvCount[r] = opCount THEN OpEnd ELSE OpStart
      BY <2>1, <2>3 DEF ReceiverInv, CountInv
    <3>7. Len(metadata[r].names) \in Nat  BY Lengths DEF TransferInv
    <3>8. End(r)' + 0 = End(r)' /\ 0 <= Len(metadata[r].names) /\ End(r) >= 0
      BY <3>3, <3>4, <3>7
    <3>9. /\ yielded'[r] <= Len(current'[r].names) /\ Start(r)' >= 0
          /\ Run(current[r].names, Start(r))'
          /\ End(r)' + 0 = IF recvCount'[r] = opCount' THEN OpEnd' ELSE OpStart'
      BY <1>1, <1>7, <2>2, <3>4, <3>5, <3>6, <3>8 DEF Run
    <3> QED  BY <2>3, <3>9 DEF CountInv
  <2>7. LoadInv(r)'  BY <1>1, <1>2, <2>1, <2>3 DEF ReceiverInv, LoadInv, Run
  <2>8. BufferInv(r)'
    <3>1. Holds(recvBuf[r][recvCell[r]], metadata[r].names)
      BY <2>1, <2>3 DEF ReceiverInv, BufferInv
    <3>2. Other(recvCell[r])' = recvCell[r]  BY <1>4, <1>7 DEF Other
    <3> QED  BY <1>1, <1>7, <2>3, <3>1, <3>2 DEF BufferInv, Holds
  <2>9. CopyInv(r)'
    <3>1. DOMAIN copies'[r] = {}  BY <1>3
    <3> QED  BY <1>1, <1>3, <3>1 DEF CopyInv, Holds
  <2> QED  BY <2>4, <2>5, <2>6, <2>7, <2>8, <2>9 DEF ReceiverInv
<1>9. UNCHANGED senderVars  BY <1>1
<1> QED  BY <1>5, <1>6, <1>8, <1>9, ByReceiver

\* The names m, off bytes long, are those of the bucket of the shared buffer that goes on
\* or begins, and the copies under way are its own.
Room(r, m, off) ==
  /\ HasTensor(r) /\ off + Size[NextName(r)] <= BucketSize
  /\ loadPc[r] \in {"recv", "load"} /\ request[r] = <<>>
  /\ Taken(r) = Len(loaded[r]) + Len(clones[r]) + Len(m)
  /\ Run(m, Len(loaded[r]) + Len(clones[r]))
  /\ ipcMeta[r] = m \/ copies[r] = <<>>
  /\ \A i \in DOMAIN m : \/ ipcBuf[r][i] = m[i]
                         \/ \E k \in DOMAIN copies[r] : copies[r][k].slot = i

\* The control state after a tensor was put: the sender goes on.
GoesOn(r) ==
  /\ ipcPc[r] \in {"pull", "full"} /\ ipcPc' \in [Receivers -> IpcPc] /\ ipcPc'[r] = "pull"
  /\ reply' \in [Receivers -> BOOLEAN] /\ ~reply'[r] /\ UNCHANGED request
  /\ \A q \in Receivers \ {r} : ipcPc'[q] = ipcPc[q] /\ reply'[q] = reply[q]

\* One more element at the end of a sequence, and the others where they were.
LEMMA Appended ==
  ASSUME NEW S, NEW s \in Seq(S), NEW e \in S
  PROVE  /\ Append(s, e) \in Seq(S) /\ Len(Append(s, e)) = Len(s) + 1
         /\ DOMAIN Append(s, e) = 1 .. Len(s) + 1 /\ Append(s, e)[Len(s) + 1] = e
         /\ \A i \in 1 .. Len(s) : Append(s, e)[i] = s[i]
         /\ 1 .. Len(s) + 1 = (1 .. Len(s)) \cup {Len(s) + 1}
<1>1. Len(s) \in Nat  BY LenProperties
<1>2. 1 .. Len(s) + 1 = (1 .. Len(s)) \cup {Len(s) + 1}  BY <1>1
<1> QED  BY <1>1, <1>2, AppendProperties

\* Where the next tensor is: after all that were taken, within the bounds of the buffers.
LEMMA NextPlace ==
  ASSUME NEW y \in Nat, NEW w \in Nat, y < w, NEW t \in Nat, NEW s \in Nat, NEW e \in Nat,
         NEW N \in Nat, NEW l \in Nat, NEW c \in Nat, NEW n \in Nat,
         e <= N, t = s + y, e = s + w, t = l + c + n
  PROVE  /\ s + (y + 1) = t + 1 /\ t + 1 \in 1 .. N /\ n + 1 \in 1 .. N /\ y + 1 \in 1 .. N
         /\ y + 1 \in 0 .. N /\ y + 1 \in 1 .. w /\ y + 1 <= w
         /\ l + c + (n + 1) = t + 1 /\ (t + 1) - (y + 1) = s
OBVIOUS

\* A bucket of the shared buffer that is begun, or goes on, with the names m: the next
\* tensor is the one after all that were taken, and it is copied from where it is.
LEMMA PutKept ==
  ASSUME TransferInv, NEW r \in Receivers, NEW m \in Seq(Weights), NEW off \in Nat,
         Put(r, m, off), Room(r, m, off), GoesOn(r)
  PROVE  TransferInv'
<1> DEFINE name == NextName(r)  l == Len(loaded[r])  c == Len(clones[r])  n == Len(m)
           y == yielded[r]  w == Len(current[r].names)
           copy == [slot |-> n + 1, view |-> View(r)]
<1>1. /\ ipcMeta' = [ipcMeta EXCEPT ![r] = Append(m, name)]
      /\ ipcOffset' = [ipcOffset EXCEPT ![r] = off + Size[name]]
      /\ copies' = [copies EXCEPT ![r] = Append(copies[r], copy)]
      /\ yielded' = [yielded EXCEPT ![r] = @ + 1]
      /\ UNCHANGED <<ipcBuf, loadPc, clones, loaded>>
      /\ UNCHANGED <<senderVars, joined, published, recvOp, recvCount, recvCell, recvBuf,
                     metadata, current>>
  BY DEF Put, Set, Yielded
<1>2. /\ y \in Nat /\ w \in Nat /\ NumWeights \in Nat
      /\ BucketSize \in Nat /\ l \in Nat /\ c \in Nat /\ n \in Nat
      /\ DOMAIN current[r].names = 1 .. w /\ DOMAIN m = 1 .. n
      /\ recvCell[r] \in Cells
  BY ReceiverTypes, Lengths, SizesFit, LenProperties DEF TransferInv
<1>3. /\ Taken(r) \in Nat /\ Start(r) \in Nat /\ End(r) \in Nat /\ End(r) <= NumWeights
      /\ Taken(r) = Start(r) + y /\ End(r) = Start(r) + w
  BY Bounds DEF End
<1>4. /\ y < w /\ Taken(r) = l + c + n
      /\ loadPc[r] \in {"recv", "load"} /\ request[r] = <<>>
  BY DEF Room, HasTensor
<1>5. ReceiverInv(r)  BY DEF TransferInv
<1>18. /\ Start(r) + (y + 1) = Taken(r) + 1 /\ Taken(r) + 1 \in Weights
       /\ n + 1 \in Slots /\ y + 1 \in Slots
       /\ y + 1 \in 0 .. NumWeights /\ y + 1 \in 1 .. w /\ y + 1 <= w
       /\ l + c + (n + 1) = Taken(r) + 1 /\ (Taken(r) + 1) - (y + 1) = Start(r)
  <2> HIDE DEF l, c, n, y, w
  <2> QED  BY <1>2, <1>3, <1>4, NextPlace DEF Weights, Slots
<1>6. name = Taken(r) + 1 /\ name \in Weights
  <2>1. y + 1 \in DOMAIN current[r].names  BY <1>2, <1>18
  <2>2. name = Start(r) + (y + 1)
    BY <1>5, <2>1 DEF ReceiverInv, CountInv, Run, NextName
  <2> HIDE DEF name, y
  <2> QED  BY <1>18, <2>2
<1>8. /\ Append(m, name) \in Seq(Weights) /\ Len(Append(m, name)) = n + 1
      /\ DOMAIN Append(m, name) = 1 .. n + 1
      /\ \A i \in 1 .. n : Append(m, name)[i] = m[i]
      /\ Append(m, name)[n + 1] = name
      /\ 1 .. n + 1 = (1 .. n) \cup {n + 1}
  <2> HIDE DEF name
  <2> QED  BY <1>6, Appended
<1>9. copy \in [slot : Slots, view : [cell : Cells, slot : Slots]]
      /\ copy.view.cell = Other(recvCell[r]) /\ copy.view.slot = y + 1
      /\ copy.slot = n + 1
  BY <1>2, <1>18 DEF View, Other, Cells
<1> DEFINE C == copies[r]  p == Len(C)
<1>10. C \in Seq([slot : Slots, view : [cell : Cells, slot : Slots]])
  BY ReceiverTypes DEF TransferInv
<1>11. p \in Nat /\ DOMAIN C = 1 .. p  BY <1>10, LenProperties
<1>12. /\ Append(C, copy) \in Seq([slot : Slots, view : [cell : Cells, slot : Slots]])
       /\ DOMAIN Append(C, copy) = 1 .. p + 1
       /\ \A k \in 1 .. p : Append(C, copy)[k] = C[k]
       /\ Append(C, copy)[p + 1] = copy
       /\ 1 .. p + 1 = (1 .. p) \cup {p + 1}
  <2> HIDE DEF C, copy
  <2> QED  BY <1>9, <1>10, Appended DEF p
<1> HIDE DEF name, copy
<1>13. TransferTypeOK'
  <2>1. off + Size[name] \in 0 .. BucketSize
    <3>1. off + Size[name] <= BucketSize  BY DEF name, Room
    <3>2. Size[name] \in Nat /\ BucketSize \in Nat  BY <1>6, SizesFit
    <3> QED  BY <3>1, <3>2
  <2>2. /\ ipcMeta' \in [Receivers -> Seq(Weights)]
        /\ ipcOffset' \in [Receivers -> 0 .. BucketSize]
        /\ copies' \in [Receivers -> Seq([slot : Slots, view : [cell : Cells, slot : Slots]])]
        /\ yielded' \in [Receivers -> 0 .. NumWeights]
    BY <1>1, <1>8, <1>12, <1>18, <2>1 DEF TransferInv, TransferTypeOK
  <2> QED  BY <1>1, <2>2 DEF TransferInv, TransferTypeOK, senderVars, GoesOn
<1>14. \A q \in Receivers \ {r} : Untouched(q)
  BY <1>1 DEF TransferInv, TransferTypeOK, Untouched, Same, GoesOn
<1>15. /\ ipcMeta'[r] = Append(m, name) /\ copies'[r] = Append(C, copy)
       /\ yielded'[r] = y + 1
       /\ UNCHANGED <<op, opCount, sent, bucketMeta>>
  BY <1>1 DEF TransferInv, TransferTypeOK, senderVars
<1>16. ReceiverInv(r)'
  <2>0. /\ ipcPc'[r] = "pull" /\ ~reply'[r] /\ request'[r] = <<>> /\ loadPc'[r] = loadPc[r]
        /\ ipcPc[r] \in {"pull", "full"}
    BY <1>1, <1>4 DEF GoesOn
  <2>1. OpEnd' = OpEnd /\ OpStart' = OpStart  BY <1>15 DEF OpEnd, OpStart
  <2>2. Uncloned(r)' /\ Pending(r)' = Pending(r)  BY <1>1, <2>0 DEF Uncloned, Pending
  <2>3. Start(r)' = Start(r) /\ End(r)' = End(r)
    <3>1. Taken(r)' = l + c + (n + 1)  BY <1>1, <1>8, <1>15, <2>2 DEF Taken
    <3>2. Start(r)' = (Taken(r) + 1) - (y + 1)  BY <1>15, <1>18, <3>1 DEF Start
    <3>3. Start(r)' = Start(r)  BY <1>18, <3>2
    <3> QED  BY <1>1, <3>3 DEF End
  <2>4. SyncInv(r)'  BY <1>1, <1>5, <1>15 DEF ReceiverInv, SyncInv, Behind
  <2>5. LinkInv(r)'
    <3>1. recvOp[r] # "none"  BY <1>5, <2>0 DEF ReceiverInv, LinkInv
    <3> QED  BY <1>1, <1>4, <2>0, <3>1 DEF LinkInv
  <2>6. CountInv(r)'
    <3>1. yielded'[r] <= Len(current'[r].names)  BY <1>1, <1>15, <1>18
    <3> QED  BY <1>1, <1>5, <1>15, <2>1, <2>2, <2>3, <3>1 DEF ReceiverInv, CountInv, Run
  <2>7. LoadInv(r)'
    <3>1. Run(Append(m, name), l + c)
      <4>1. \A i \in 1 .. n : m[i] = l + c + i  BY <1>2 DEF Run, Room
      <4>2. name = l + c + (n + 1)  BY <1>18, <1>6
      <4> QED  BY <1>8, <4>1, <4>2 DEF Run
    <3> QED  BY <1>1, <1>5, <1>15, <3>1 DEF ReceiverInv, LoadInv, Run
  <2>8. BufferInv(r)'  BY <1>1, <1>5, <2>2 DEF ReceiverInv, BufferInv, Holds, Other
  <2>9. CopyInv(r)'
    <3> DEFINE A == Append(C, copy)  M == Append(m, name)
    <3>1. /\ DOMAIN A = 1 .. p + 1 /\ \A k \in 1 .. p : A[k] = C[k]
          /\ A[p + 1] = copy /\ 1 .. p + 1 = (1 .. p) \cup {p + 1}
          /\ p + 1 \in 1 .. p + 1 /\ n + 1 \in 1 .. n + 1
      BY <1>2, <1>11, <1>12
    <3>7. /\ DOMAIN M = 1 .. n + 1 /\ \A i \in 1 .. n : M[i] = m[i]
          /\ M[n + 1] = name /\ 1 .. n + 1 = (1 .. n) \cup {n + 1}
      BY <1>8
    <3> HIDE DEF A, M
    <3>2. ASSUME NEW k \in 1 .. p + 1
          PROVE  /\ A[k].slot \in 1 .. n + 1 /\ A[k].view.cell = Other(recvCell[r])
                 /\ A[k].view.slot \in DOMAIN current[r].names
                 /\ current[r].names[A[k].view.slot] = M[A[k].slot]
      <4>1. CASE k \in 1 .. p
        <5>1. C # <<>>  BY <1>11, <4>1
        <5>2. ipcMeta[r] = m  BY <5>1 DEF Room
        <5>3. /\ C[k].slot \in 1 .. n /\ C[k].view.cell = Other(recvCell[r])
              /\ C[k].view.slot \in DOMAIN current[r].names
              /\ current[r].names[C[k].view.slot] = m[C[k].slot]
          BY <1>2, <1>5, <1>11, <4>1, <5>2 DEF ReceiverInv, CopyInv
        <5> QED  BY <3>1, <3>7, <4>1, <5>3
      <4>2. CASE k = p + 1
        <5>1. y + 1 \in DOMAIN current[r].names  BY <1>2, <1>18
        <5>2. current[r].names[y + 1] = name  BY DEF name, NextName
        <5> QED  BY <1>9, <3>1, <3>7, <4>2, <5>1, <5>2
      <4> QED  BY <3>1, <4>1, <4>2
    <3>3. ASSUME NEW i \in 1 .. n + 1
          PROVE  ipcBuf[r][i] = M[i] \/ \E k \in 1 .. p + 1 : A[k].slot = i
      <4>1. CASE i \in 1 .. n
        <5>1. ipcBuf[r][i] = m[i] \/ \E k \in 1 .. p : C[k].slot = i
          BY <1>2, <1>11, <4>1 DEF Room
        <5>2. CASE ipcBuf[r][i] = m[i]  BY <3>7, <4>1, <5>2
        <5>3. CASE \E k \in 1 .. p : C[k].slot = i
          <6>1. PICK k \in 1 .. p : C[k].slot = i  BY <5>3
          <6> QED  BY <3>1, <6>1
        <5> QED  BY <5>1, <5>2, <5>3
      <4>2. CASE i = n + 1
        <5>1. A[p + 1].slot = n + 1  BY <1>9, <3>1
        <5> QED  BY <3>1, <4>2, <5>1
      <4> QED  BY <3>7, <4>1, <4>2
    <3>4. ipcPc'[r] = "pull" /\ Other(recvCell[r])' = Other(recvCell[r])  BY <1>1, <2>0 DEF Other
    <3>5. /\ DOMAIN copies'[r] = 1 .. p + 1 /\ DOMAIN ipcMeta'[r] = 1 .. n + 1
          /\ copies'[r] = A /\ ipcMeta'[r] = M
          /\ current'[r] = current[r] /\ ipcBuf'[r] = ipcBuf[r]
      BY <1>1, <1>15, <3>1, <3>7 DEF A, M
    <3> HIDE DEF C, p, n
    <3>6. \A k \in DOMAIN copies'[r] :
            /\ copies'[r][k].slot \in DOMAIN ipcMeta'[r]
            /\ copies'[r][k].view.cell = Other(recvCell[r])'
            /\ copies'[r][k].view.slot \in DOMAIN current'[r].names
            /\ current'[r].names[copies'[r][k].view.slot] = ipcMeta'[r][copies'[r][k].slot]
      BY <3>2, <3>4, <3>5
    <3>8. \A i \in DOMAIN ipcMeta'[r] :
            \/ ipcBuf'[r][i] = ipcMeta'[r][i]
            \/ \E k \in DOMAIN copies'[r] : copies'[r][k].slot = i
      BY <3>3, <3>5
    <3> QED  BY <3>4, <3>6, <3>8 DEF CopyInv
  <2> QED  BY <2>4, <2>5, <2>6, <2>7, <2>8, <2>9 DEF ReceiverInv
<1>17. UNCHANGED senderVars  BY <1>1
<1> QED  BY <1>13, <1>14, <1>16, <1>17, ByReceiver

\* A tensor goes into the bucket.
LEMMA PutTensorKept ==
  ASSUME TransferInv, NEW r \in Receivers, PutTensor(r) PROVE TransferInv'
<1>1. /\ ipcPc[r] = "pull" /\ HasTensor(r) /\ IpcFits(r) /\ Put(r, ipcMeta[r], ipcOffset[r])
      /\ UNCHANGED <<ipcPc, request, reply>>
  BY DEF PutTensor
<1>2. ReceiverInv(r) /\ Uncloned(r)  BY <1>1 DEF TransferInv, Uncloned
<1>3. loadPc[r] \in {"recv", "load"} /\ request[r] = <<>> /\ ~reply[r]
  BY <1>1, <1>2 DEF ReceiverInv, LinkInv
<1>4. Taken(r) = Len(loaded[r]) + Len(clones[r]) + Len(ipcMeta[r])  BY <1>2 DEF Taken
<1>5. ipcMeta[r] \in Seq(Weights) /\ ipcOffset[r] \in Nat
  BY SizesFit DEF TransferInv, TransferTypeOK
<1>6. PICK m \in Seq(Weights), off \in Nat : m = ipcMeta[r] /\ off = ipcOffset[r]
  BY <1>5
<1>7. Room(r, m, off)
  BY <1>1, <1>2, <1>3, <1>4, <1>6 DEF Room, ReceiverInv, LoadInv, CopyInv, IpcFits
<1>8. Put(r, m, off)  BY <1>1, <1>6 DEF Put, Set
<1>9. GoesOn(r)  BY <1>1, <1>3 DEF GoesOn, TransferInv, TransferTypeOK
<1> QED  BY <1>7, <1>8, <1>9, PutKept

\* The answer to a full bucket comes: the tensor that did not fit begins the next one.
LEMMA FullAnsweredKept ==
  ASSUME TransferInv, NEW r \in Receivers, FullAnswered(r) PROVE TransferInv'
<1>1. /\ ipcPc[r] = "full" /\ reply[r] /\ reply' = [reply EXCEPT ![r] = FALSE]
      /\ ipcPc' = [ipcPc EXCEPT ![r] = "pull"] /\ Put(r, <<>>, 0) /\ UNCHANGED request
  BY DEF FullAnswered, Replied, Set
<1>2. ReceiverInv(r)  BY DEF TransferInv
<1>3. loadPc[r] \in {"recv", "load"} /\ request[r] = <<>> /\ HasTensor(r)
  BY <1>1, <1>2 DEF ReceiverInv, LinkInv, Asked, Answered
<1>4. /\ Len(<<>>) = 0 /\ DOMAIN <<>> = {} /\ <<>> \in Seq(Weights)
  BY EmptySeq
<1>5. ~Uncloned(r)  BY <1>1, <1>3 DEF Uncloned
<1>6. Taken(r) = Len(loaded[r]) + Len(clones[r]) + Len(<<>>)  BY <1>4, <1>5 DEF Taken
<1>7. 0 + Size[NextName(r)] <= BucketSize
  <2>1. /\ current[r].names \in Seq(Weights) /\ yielded[r] \in Nat
        /\ yielded[r] < Len(current[r].names) /\ Len(current[r].names) \in Nat
    BY <1>3, ReceiverTypes, Lengths DEF TransferInv, HasTensor
  <2>2. yielded[r] + 1 \in 1 .. Len(current[r].names)  BY <2>1
  <2>3. NextName(r) \in Weights  BY <2>1, <2>2, ElementOfSeq DEF NextName
  <2>4. Size[NextName(r)] \in Nat /\ Size[NextName(r)] <= BucketSize  BY <2>3, SizesFit
  <2> QED  BY <2>4
<1>8. Room(r, <<>>, 0)
  BY <1>1, <1>2, <1>3, <1>4, <1>6, <1>7 DEF Room, ReceiverInv, CopyInv, Run
<1>9. GoesOn(r)  BY <1>1 DEF GoesOn, TransferInv, TransferTypeOK, IpcPc
<1> QED  BY <1>1, <1>4, <1>8, <1>9, PutKept

(***************************************************************************)
(* The steps of the link and of the worker behind it                       *)
(***************************************************************************)

\* A step of the link that takes no tensor from the generator leaves the broadcast as it is.
LEMMA ByLink ==
  ASSUME TransferInv, NEW r \in Receivers, UNCHANGED broadcastVars, TransferTypeOK',
         \A q \in Receivers \ {r} : Untouched(q),
         Taken(r)' = Taken(r), LinkInv(r)', LoadInv(r)', CopyInv(r)'
  PROVE  TransferInv'
<1>1. ReceiverInv(r) /\ UNCHANGED senderVars  BY DEF TransferInv, broadcastVars
<1>2. /\ UNCHANGED <<sent, bucketMeta, op, opCount, published>>
      /\ UNCHANGED <<recvOp, recvCount, recvCell, recvBuf, metadata, current, yielded>>
  BY DEF broadcastVars, senderVars, receiverVars
<1>3. OpEnd' = OpEnd /\ OpStart' = OpStart  BY <1>2 DEF OpEnd, OpStart
<1>4. SyncInv(r)'  BY <1>1, <1>2 DEF ReceiverInv, SyncInv, Behind
<1>5. /\ Start(r)' = Start(r) /\ End(r)' = End(r) /\ Pending(r)' = Pending(r)
      /\ Behind(r)' = Behind(r)
  BY <1>2 DEF Start, End, Pending, Behind
<1>6. CountInv(r)'  BY <1>1, <1>2, <1>3, <1>5 DEF ReceiverInv, CountInv, Run
<1>7. BufferInv(r)'  BY <1>1, <1>2, <1>5 DEF ReceiverInv, BufferInv, Holds, Other
<1> QED  BY <1>1, <1>4, <1>6, <1>7, ByReceiver DEF ReceiverInv

\* The bucket is announced when all its tensors are in the shared buffer.
LEMMA AnnounceKept ==
  ASSUME TransferInv, NEW r \in Receivers, NEW l \in BOOLEAN, NEW pc, ipcPc[r] = "pull",
         Synchronize(r), request[r] = <<>>,
         request' = [request EXCEPT ![r] = <<[names |-> ipcMeta[r], is_last |-> l]>>],
         ipcPc' = [ipcPc EXCEPT ![r] = pc],
         \/ l = TRUE /\ pc = "last" /\ Exhausted(r)
         \/ l = FALSE /\ pc = "full" /\ HasTensor(r),
         UNCHANGED <<broadcastVars, ipcOffset, ipcMeta, reply, loadPc, clones, loaded>>
  PROVE  TransferInv'
<1> DEFINE m == [names |-> ipcMeta[r], is_last |-> l]
<1>1. /\ request[r] = <<>> /\ request' = [request EXCEPT ![r] = <<m>>]
      /\ ipcPc' = [ipcPc EXCEPT ![r] = pc]
  OBVIOUS
<1>2. ReceiverInv(r) /\ Uncloned(r)  BY DEF TransferInv, Uncloned
<1>3. loadPc[r] \in {"recv", "load"} /\ ~reply[r] /\ recvOp[r] # "none"
  BY <1>2 DEF ReceiverInv, LinkInv
<1>4. /\ ipcBuf' \in [Receivers -> Buffer] /\ copies'[r] = <<>>
      /\ copies' \in [Receivers -> Seq([slot : Slots, view : [cell : Cells, slot : Slots]])]
      /\ Holds(ipcBuf'[r], ipcMeta[r])
      /\ \A q \in Receivers \ {r} : ipcBuf'[q] = ipcBuf[q] /\ copies'[q] = copies[q]
  BY <1>2, Synchronization
<1>5. m \in Meta /\ <<m>> \in Seq(Meta)
  <2>1. m \in Meta  BY ReceiverTypes DEF TransferInv, Meta
  <2> HIDE DEF m
  <2> QED  BY <2>1
<1>6. TransferTypeOK'
  <2>1. request' \in [Receivers -> Seq(Meta)] /\ ipcPc' \in [Receivers -> IpcPc]
    BY <1>1, <1>5 DEF TransferInv, TransferTypeOK, IpcPc
  <2> QED  BY <1>4, <2>1 DEF TransferInv, TransferTypeOK, broadcastVars, senderVars, receiverVars
<1>7. \A q \in Receivers \ {r} : Untouched(q)
  BY <1>1, <1>4 DEF TransferInv, TransferTypeOK, Untouched, Same, broadcastVars, receiverVars
<1>8. /\ ipcPc'[r] = pc
      /\ request'[r] = <<[names |-> ipcMeta[r], is_last |-> l]>> /\ request'[r] # <<>>
  BY <1>1 DEF TransferInv, TransferTypeOK
<1>9. UNCHANGED <<current, yielded, recvOp, recvCell>>  BY DEF broadcastVars, receiverVars
<1>10. Uncloned(r)'  BY <1>3, <1>8 DEF Uncloned
<1>11. Taken(r)' = Taken(r)  BY <1>2, <1>10 DEF Taken
<1>12. LinkInv(r)'
  BY <1>3, <1>8, <1>9 DEF LinkInv, Asked, Exhausted, HasTensor
<1>13. LoadInv(r)'  BY <1>2, <1>10 DEF ReceiverInv, LoadInv, Run
<1>14. CopyInv(r)'
  <2>1. DOMAIN copies'[r] = {}  BY <1>4
  <2> QED  BY <1>4, <2>1 DEF CopyInv, Holds
<1> QED  BY <1>6, <1>7, <1>11, <1>12, <1>13, <1>14, ByLink

\* A full bucket is sent, ...
LEMMA SendFullKept ==
  ASSUME TransferInv, NEW r \in Receivers, SendFull(r) PROVE TransferInv'
<1>1. /\ ipcPc[r] = "pull" /\ HasTensor(r) /\ Synchronize(r)
      /\ request[r] = <<>> /\ ipcPc' = [ipcPc EXCEPT ![r] = "full"]
      /\ request' = [request EXCEPT ![r] = <<[names |-> ipcMeta[r], is_last |-> FALSE]>>]
      /\ UNCHANGED <<broadcastVars, ipcOffset, ipcMeta, reply, loadPc, clones, loaded>>
  BY DEF SendFull, Send, Set
<1> QED  BY <1>1, AnnounceKept

\* ... and what is left when the generator has no more.
LEMMA SendLastBucketKept ==
  ASSUME TransferInv, NEW r \in Receivers, SendLastBucket(r) PROVE TransferInv'
<1>1. /\ ipcPc[r] = "pull" /\ Exhausted(r) /\ Synchronize(r)
      /\ request[r] = <<>> /\ ipcPc' = [ipcPc EXCEPT ![r] = "last"]
      /\ request' = [request EXCEPT ![r] = <<[names |-> ipcMeta[r], is_last |-> TRUE]>>]
      /\ UNCHANGED <<broadcastVars, ipcOffset, ipcMeta, reply, loadPc, clones, loaded>>
  BY DEF SendLastBucket, Send, Set
<1> QED  BY <1>1, AnnounceKept

\* The buffer is freed after the receiver has cloned the last bucket.
LEMMA LastAnsweredKept ==
  ASSUME TransferInv, NEW r \in Receivers, LastAnswered(r) PROVE TransferInv'
<1>1. /\ ipcPc[r] = "last" /\ reply[r] /\ reply' = [reply EXCEPT ![r] = FALSE]
      /\ ipcPc' = [ipcPc EXCEPT ![r] = "closed"] /\ ipcBuf' = [ipcBuf EXCEPT ![r] = Empty]
      /\ UNCHANGED <<broadcastVars, ipcOffset, ipcMeta, copies, request, loadPc, clones, loaded>>
  BY DEF LastAnswered, Replied, Set
<1>2. ReceiverInv(r)  BY DEF TransferInv
<1>3. /\ loadPc[r] \in {"loadLast", "done"} /\ request[r] = <<>> /\ Exhausted(r)
      /\ recvOp[r] # "none" /\ copies[r] = <<>>
  BY <1>1, <1>2 DEF ReceiverInv, LinkInv, CopyInv, Asked, Answered
<1>4. TransferTypeOK'
  <2>1. Empty \in Buffer  BY DEF Empty, Buffer
  <2> QED  BY <1>1, <2>1 DEF TransferInv, TransferTypeOK, IpcPc, broadcastVars, senderVars, receiverVars
<1>5. \A q \in Receivers \ {r} : Untouched(q)
  BY <1>1 DEF TransferInv, TransferTypeOK, Untouched, Same, broadcastVars, receiverVars
<1>6. ipcPc'[r] = "closed" /\ ~reply'[r]  BY <1>1 DEF TransferInv, TransferTypeOK
<1>7. UNCHANGED <<current, yielded, recvOp, recvCell>>
  BY <1>1 DEF broadcastVars, receiverVars
<1>8. ~Uncloned(r) /\ ~Uncloned(r)'  BY <1>1, <1>3, <1>6 DEF Uncloned
<1>9. Taken(r)' = Taken(r)  BY <1>1, <1>8 DEF Taken
<1>10. LinkInv(r)'  BY <1>1, <1>3, <1>6, <1>7 DEF LinkInv, Exhausted, HasTensor
<1>11. LoadInv(r)'  BY <1>1, <1>2, <1>8 DEF ReceiverInv, LoadInv
<1>12. CopyInv(r)'
  <2>1. DOMAIN copies'[r] = {}  BY <1>1, <1>3
  <2> QED  BY <1>1, <1>3, <1>6, <2>1 DEF CopyInv
<1> QED  BY <1>1, <1>4, <1>5, <1>9, <1>10, <1>11, <1>12, ByLink

\* The receiver acknowledges the handle.
LEMMA ReceiverHandshakeKept ==
  ASSUME TransferInv, NEW r \in Receivers, ReceiverHandshake(r) PROVE TransferInv'
<1>1. /\ loadPc[r] = "handshake" /\ request' = [request EXCEPT ![r] = <<>>]
      /\ reply' = [reply EXCEPT ![r] = TRUE] /\ loadPc' = [loadPc EXCEPT ![r] = "recv"]
      /\ UNCHANGED <<broadcastVars, ipcPc, ipcOffset, ipcMeta, ipcBuf, copies, clones, loaded>>
  BY DEF ReceiverHandshake, Set
<1>2. ReceiverInv(r) /\ ipcPc[r] \in IpcPc  BY ReceiverTypes DEF TransferInv
<1>3. ipcPc[r] = "handshake" /\ recvOp[r] = "none" /\ ipcMeta[r] = <<>>
  BY <1>1, <1>2 DEF ReceiverInv, LinkInv, IpcPc
<1>4. TransferTypeOK'
  <2>1. <<>> \in Seq(Meta)  BY EmptySeq
  <2> QED  BY <1>1, <2>1
       DEF TransferInv, TransferTypeOK, LoadPc, broadcastVars, senderVars, receiverVars
<1>5. \A q \in Receivers \ {r} : Untouched(q)
  BY <1>1 DEF TransferInv, TransferTypeOK, Untouched, Same, broadcastVars, receiverVars
<1>6. loadPc'[r] = "recv" /\ request'[r] = <<>> /\ reply'[r]
  BY <1>1 DEF TransferInv, TransferTypeOK
<1>7. UNCHANGED <<current, yielded, recvOp, recvCell>>
  BY <1>1 DEF broadcastVars, receiverVars
<1>8. Uncloned(r) /\ Uncloned(r)'  BY <1>1, <1>3 DEF Uncloned
<1>9. Taken(r)' = Taken(r)  BY <1>1, <1>8 DEF Taken
<1>10. LinkInv(r)'  BY <1>1, <1>3, <1>6, <1>7 DEF LinkInv, Answered
<1>11. LoadInv(r)'  BY <1>1, <1>2, <1>8 DEF ReceiverInv, LoadInv, Run
<1>12. CopyInv(r)'  BY <1>1, <1>2, <1>7 DEF ReceiverInv, CopyInv, Other
<1> QED  BY <1>1, <1>4, <1>5, <1>9, <1>10, <1>11, <1>12, ByLink

\* What is cloned is the bucket announced, whole: the device owes it no copy.
LEMMA CloneBucketKept ==
  ASSUME TransferInv, NEW r \in Receivers, CloneBucket(r) PROVE TransferInv'
<1> DEFINE m == request[r][1]
           cs == [i \in DOMAIN ipcMeta[r] |-> <<ipcMeta[r][i], ipcBuf[r][i]>>]
           l == Len(loaded[r])  n == Len(ipcMeta[r])
<1>1. /\ loadPc[r] = "recv" /\ request[r] # <<>>
      /\ loadPc' = [loadPc EXCEPT ![r] = "cloned"]
      /\ clones' = [clones EXCEPT ![r] = [i \in DOMAIN m.names |-> <<m.names[i], ipcBuf[r][i]>>]]
      /\ UNCHANGED <<broadcastVars, ipcPc, ipcOffset, ipcMeta, ipcBuf, copies, request, reply, loaded>>
  BY DEF CloneBucket, Set
<1>2. ReceiverInv(r) /\ ipcPc[r] \in IpcPc  BY ReceiverTypes DEF TransferInv
<1>3. /\ ipcPc[r] \in {"full", "last"} /\ clones[r] = <<>>
      /\ Asked(r, ipcPc[r] = "last")
  BY <1>1, <1>2 DEF ReceiverInv, LinkInv, LoadInv, IpcPc, Answered
<1>4. m.names = ipcMeta[r]  BY <1>3 DEF Asked
<1>5. clones' = [clones EXCEPT ![r] = cs]  BY <1>1, <1>4
<1>6. Uncloned(r) /\ ~Uncloned(r)'
  <2>1. loadPc'[r] = "cloned"  BY <1>1 DEF TransferInv, TransferTypeOK
  <2> QED  BY <1>1, <1>3, <2>1 DEF Uncloned
<1>7. DOMAIN ipcMeta[r] \subseteq Slots  BY <1>6, BucketInSlots
<1>8. ipcMeta[r] \in Seq(Weights) /\ ipcBuf[r] \in Buffer /\ n \in Nat /\ l \in Nat
      /\ DOMAIN ipcMeta[r] = 1 .. n
  BY ReceiverTypes, Lengths DEF TransferInv
<1>9. cs \in Seq(Weights \X (Weights \cup {0})) /\ Len(cs) = n /\ DOMAIN cs = 1 .. n
  <2>1. \A i \in 1 .. n : ipcMeta[r][i] \in Weights  BY <1>8, ElementOfSeq
  <2>2. \A i \in 1 .. n : ipcBuf[r][i] \in Weights \cup {0}  BY <1>7, <1>8 DEF Buffer
  <2>3. cs \in [1 .. n -> Weights \X (Weights \cup {0})]  BY <1>8, <2>1, <2>2
  <2> HIDE DEF cs, n
  <2>4. cs \in Seq(Weights \X (Weights \cup {0}))  BY <1>8, <2>3, IsASeq
  <2> QED  BY <1>8, <2>3, <2>4, LenProperties
<1>10. clones'[r] = cs  BY <1>5 DEF TransferInv, TransferTypeOK
<1>11. TransferTypeOK'
  <2> HIDE DEF cs
  <2>1. clones' \in [Receivers -> Seq(Weights \X (Weights \cup {0}))]
    BY <1>5, <1>9 DEF TransferInv, TransferTypeOK
  <2> QED  BY <1>1, <2>1
       DEF TransferInv, TransferTypeOK, LoadPc, broadcastVars, senderVars, receiverVars
<1>12. \A q \in Receivers \ {r} : Untouched(q)
  BY <1>1 DEF TransferInv, TransferTypeOK, Untouched, Same, broadcastVars, receiverVars
<1>13. loadPc'[r] = "cloned"  BY <1>1 DEF TransferInv, TransferTypeOK
<1>14. UNCHANGED <<current, yielded, recvOp, recvCell>>
  BY <1>1 DEF broadcastVars, receiverVars
<1>15. Len(clones[r]) = 0  BY <1>3, EmptySeq
<1>16. Taken(r)' = Taken(r)
  <2>1. Taken(r) = l + 0 + n  BY <1>6, <1>15 DEF Taken
  <2>2. Taken(r)' = l + n + 0  BY <1>1, <1>6, <1>9, <1>10 DEF Taken
  <2> HIDE DEF l, n
  <2> QED  BY <1>8, <2>1, <2>2
<1>17. LinkInv(r)'
  BY <1>1, <1>2, <1>3, <1>13, <1>14 DEF ReceiverInv, LinkInv, Asked, Exhausted, HasTensor
<1>18. LoadInv(r)'
  <2>1. \A i \in 1 .. n : ipcMeta[r][i] = l + i
    <3>1. \A i \in 1 .. n : ipcMeta[r][i] = l + Len(clones[r]) + i
      BY <1>2, <1>6, <1>8 DEF ReceiverInv, LoadInv, Run
    <3>2. \A i \in 1 .. n : l + 0 + i = l + i  BY <1>8
    <3> QED  BY <1>15, <3>1, <3>2
  <2>2. \A i \in 1 .. n : ipcBuf[r][i] = ipcMeta[r][i]
    <3>1. copies[r] = <<>>  BY <1>2, <1>3 DEF ReceiverInv, CopyInv
    <3> QED  BY <1>2, <1>3, <1>8, <3>1 DEF ReceiverInv, CopyInv
  <2>3. \A i \in 1 .. n : cs[i] = <<l + i, l + i>>  BY <1>8, <2>1, <2>2
  <2> HIDE DEF cs
  <2> QED  BY <1>1, <1>2, <1>6, <1>9, <1>10, <1>13, <2>3 DEF ReceiverInv, LoadInv
<1>19. CopyInv(r)'  BY <1>1, <1>2, <1>14 DEF ReceiverInv, CopyInv, Other
<1> QED  BY <1>1, <1>11, <1>12, <1>16, <1>17, <1>18, <1>19, ByLink

\* The answer is sent before the clones are loaded.
LEMMA AcknowledgeKept ==
  ASSUME TransferInv, NEW r \in Receivers, Acknowledge(r) PROVE TransferInv'
<1> DEFINE last == request[r][1].is_last
<1>1. /\ loadPc[r] = "cloned" /\ reply' = [reply EXCEPT ![r] = TRUE]
      /\ loadPc' = [loadPc EXCEPT ![r] = IF last THEN "loadLast" ELSE "load"]
      /\ request' = [request EXCEPT ![r] = <<>>]
      /\ UNCHANGED <<broadcastVars, ipcPc, ipcOffset, ipcMeta, ipcBuf, copies, clones, loaded>>
  BY DEF Acknowledge, Set
<1>2. ReceiverInv(r) /\ ipcPc[r] \in IpcPc  BY ReceiverTypes DEF TransferInv
<1>3. \/ ipcPc[r] = "full" /\ Asked(r, FALSE)
      \/ ipcPc[r] = "last" /\ Asked(r, TRUE)
  BY <1>1, <1>2 DEF ReceiverInv, LinkInv, IpcPc
<1>4. \/ ipcPc[r] = "full" /\ last = FALSE
      \/ ipcPc[r] = "last" /\ last = TRUE
  BY <1>3 DEF Asked
<1> HIDE DEF last
<1>5. TransferTypeOK'
  <2>1. <<>> \in Seq(Meta)  BY EmptySeq
  <2> QED  BY <1>1, <2>1
       DEF TransferInv, TransferTypeOK, LoadPc, broadcastVars, senderVars, receiverVars
<1>6. \A q \in Receivers \ {r} : Untouched(q)
  BY <1>1 DEF TransferInv, TransferTypeOK, Untouched, Same, broadcastVars, receiverVars
<1>7. /\ loadPc'[r] = IF ipcPc[r] = "last" THEN "loadLast" ELSE "load"
      /\ request'[r] = <<>> /\ reply'[r]
  BY <1>1, <1>4 DEF TransferInv, TransferTypeOK
<1>8. UNCHANGED <<current, yielded, recvOp, recvCell>>
  BY <1>1 DEF broadcastVars, receiverVars
<1>9. ~Uncloned(r) /\ ~Uncloned(r)'  BY <1>1, <1>3, <1>7 DEF Uncloned
<1>10. Taken(r)' = Taken(r)  BY <1>1, <1>9 DEF Taken
<1>11. LinkInv(r)'
  <2>1. /\ recvOp[r] # "none"
        /\ ipcPc[r] = "full" => HasTensor(r)
        /\ ipcPc[r] = "last" => Exhausted(r)
    BY <1>2, <1>3 DEF ReceiverInv, LinkInv
  <2>2. CASE ipcPc[r] = "full"
    BY <1>1, <1>7, <1>8, <2>1, <2>2 DEF LinkInv, Answered, Exhausted, HasTensor
  <2>3. CASE ipcPc[r] = "last"
    BY <1>1, <1>7, <1>8, <2>1, <2>3 DEF LinkInv, Answered, Exhausted, HasTensor
  <2>4. ipcPc[r] = "full" \/ ipcPc[r] = "last"  BY <1>3
  <2> QED  BY <2>2, <2>3, <2>4
<1>12. LoadInv(r)'
  <2>1. loadPc'[r] \in {"load", "loadLast"}  BY <1>7
  <2>2. loaded'[r] = loaded[r] /\ clones'[r] = clones[r]  BY <1>1
  <2> QED  BY <1>2, <1>9, <2>1, <2>2 DEF ReceiverInv, LoadInv
<1>13. CopyInv(r)'  BY <1>1, <1>2, <1>8 DEF ReceiverInv, CopyInv, Other
<1> QED  BY <1>1, <1>5, <1>6, <1>10, <1>11, <1>12, <1>13, ByLink

\* The clones are the next weights.
LEMMA LoadBucketKept ==
  ASSUME TransferInv, NEW r \in Receivers, LoadBucket(r) PROVE TransferInv'
<1> DEFINE L == loaded[r]  K == clones[r]  l == Len(L)  c == Len(K)  n == Len(ipcMeta[r])
           S == Weights \X (Weights \cup {0})
<1>1. /\ loadPc[r] \in {"load", "loadLast"}
      /\ loaded' = [loaded EXCEPT ![r] = L \o K] /\ clones' = [clones EXCEPT ![r] = <<>>]
      /\ loadPc' = [loadPc EXCEPT ![r] = IF loadPc[r] = "load" THEN "recv" ELSE "done"]
      /\ UNCHANGED <<broadcastVars, ipcPc, ipcOffset, ipcMeta, ipcBuf, copies, request, reply>>
  BY DEF LoadBucket, Set
<1>2. ReceiverInv(r) /\ ipcPc[r] \in IpcPc  BY ReceiverTypes DEF TransferInv
<1>3. L \in Seq(S) /\ K \in Seq(S) /\ l \in Nat /\ c \in Nat /\ n \in Nat
      /\ DOMAIN L = 1 .. l /\ DOMAIN K = 1 .. c
  BY ReceiverTypes, Lengths DEF TransferInv
<1>4. /\ L \o K \in Seq(S) /\ Len(L \o K) = l + c
      /\ \A i \in 1 .. l + c : (L \o K)[i] = IF i <= l THEN L[i] ELSE K[i - l]
  <2> HIDE DEF L, K, S
  <2> QED  BY <1>3, ConcatProperties
<1>5. <<>> \in Seq(S) /\ Len(<<>>) = 0 /\ DOMAIN <<>> = {}  BY EmptySeq
<1>6. TransferTypeOK'
  <2>1. loaded' \in [Receivers -> Seq(S)] /\ clones' \in [Receivers -> Seq(S)]
    <3> HIDE DEF L, K
    <3> QED  BY <1>1, <1>4, <1>5 DEF TransferInv, TransferTypeOK
  <2> QED  BY <1>1, <2>1
       DEF TransferInv, TransferTypeOK, LoadPc, broadcastVars, senderVars, receiverVars
<1>7. \A q \in Receivers \ {r} : Untouched(q)
  BY <1>1 DEF TransferInv, TransferTypeOK, Untouched, Same, broadcastVars, receiverVars
<1>8. /\ loadPc'[r] = IF loadPc[r] = "load" THEN "recv" ELSE "done"
      /\ loaded'[r] = L \o K /\ clones'[r] = <<>>
  BY <1>1 DEF TransferInv, TransferTypeOK
<1>9. UNCHANGED <<current, yielded, recvOp, recvCell>>
  BY <1>1 DEF broadcastVars, receiverVars
<1>10. Uncloned(r)' = Uncloned(r)  BY <1>1, <1>8 DEF Uncloned
<1>11. Taken(r)' = Taken(r)
  <2>1. Taken(r) = l + c + (IF Uncloned(r) THEN n ELSE 0)  BY DEF Taken
  <2>2. Taken(r)' = (l + c) + 0 + (IF Uncloned(r) THEN n ELSE 0)
    <3>1. Len(loaded'[r]) = l + c  BY <1>4, <1>8
    <3>2. Len(clones'[r]) = 0 /\ ipcMeta'[r] = ipcMeta[r]  BY <1>1, <1>5, <1>8
    <3> HIDE DEF l, c
    <3> QED  BY <1>10, <3>1, <3>2 DEF Taken
  <2> DEFINE u == IF Uncloned(r) THEN n ELSE 0
  <2>3. u \in Nat  BY <1>3
  <2> HIDE DEF l, c, n, u
  <2>4. (l + c) + 0 + u = l + c + u  BY <1>3, <2>3
  <2> QED  BY <2>1, <2>2, <2>4 DEF u
<1>12. LinkInv(r)'
  BY <1>1, <1>2, <1>8, <1>9 DEF ReceiverInv, LinkInv, Asked, Answered, Exhausted, HasTensor, IpcPc
<1>13. LoadInv(r)'
  <2>1. /\ \A i \in 1 .. l : L[i] = <<i, i>>
        /\ \A i \in 1 .. c : K[i] = <<l + i, l + i>>
    BY <1>2, <1>3 DEF ReceiverInv, LoadInv
  <2>2. ASSUME NEW i \in 1 .. l + c PROVE (L \o K)[i] = <<i, i>>
    <3> HIDE DEF L, K, l, c
    <3>1. CASE i <= l  BY <1>3, <1>4, <2>1, <3>1
    <3>2. CASE ~(i <= l)
      <4>1. i - l \in 1 .. c /\ l + (i - l) = i  BY <1>3, <3>2
      <4> QED  BY <1>4, <2>1, <3>2, <4>1
    <3> QED  BY <3>1, <3>2
  <2>3. DOMAIN (L \o K) = 1 .. l + c
    <3> HIDE DEF L, K, S
    <3> QED  BY <1>4, LenProperties
  <2>4. l + c + 0 = l + c  BY <1>3
  <2>5. Uncloned(r) => Run(ipcMeta[r], l + c)  BY <1>2 DEF ReceiverInv, LoadInv
  <2>6. Len(loaded'[r]) + Len(clones'[r]) = l + c  BY <1>4, <1>5, <1>8, <2>4
  <2>7. \A i \in DOMAIN loaded'[r] : loaded'[r][i] = <<i, i>>  BY <1>8, <2>2, <2>3
  <2> QED  BY <1>1, <1>5, <1>8, <1>10, <2>5, <2>6, <2>7 DEF LoadInv, Run
<1>14. CopyInv(r)'  BY <1>1, <1>2, <1>9 DEF ReceiverInv, CopyInv, Other
<1> QED  BY <1>1, <1>6, <1>7, <1>11, <1>12, <1>13, <1>14, ByLink

\* The device performs the copy that is due: the tensor is still where the view was.
LEMMA DeviceCopiesKept ==
  ASSUME TransferInv, NEW r \in Receivers, DeviceCopies(r) PROVE TransferInv'
<1> DEFINE C == copies[r]  p == Len(C)  h == Head(C)
           S == [slot : Slots, view : [cell : Cells, slot : Slots]]
<1>1. /\ C # <<>> /\ ipcBuf' = [ipcBuf EXCEPT ![r][h.slot] = Content(r, h.view)]
      /\ copies' = [copies EXCEPT ![r] = Tail(C)]
      /\ UNCHANGED <<broadcastVars, ipcPc, ipcOffset, ipcMeta, request, reply, loadPc, clones, loaded>>
  BY DEF DeviceCopies
<1>2. ReceiverInv(r)  BY DEF TransferInv
<1>3. ipcPc[r] = "pull" /\ Uncloned(r)  BY <1>1, <1>2 DEF ReceiverInv, CopyInv, Uncloned
<1>4. C \in Seq(S) /\ p \in Nat /\ DOMAIN C = 1 .. p
  BY ReceiverTypes, Lengths DEF TransferInv
<1>5. /\ p > 0 /\ h = C[1] /\ h \in S /\ Tail(C) \in Seq(S) /\ DOMAIN Tail(C) = 1 .. p - 1
      /\ \A k \in 1 .. p - 1 : Tail(C)[k] = C[k + 1]
  <2> HIDE DEF C, S
  <2>1. p > 0  BY <1>1, <1>4, EmptySeq
  <2>2. /\ Tail(C) \in Seq(S) /\ Len(Tail(C)) = p - 1
        /\ \A k \in 1 .. Len(Tail(C)) : Tail(C)[k] = C[k + 1]
    BY <1>1, <1>4, HeadTailProperties
  <2>3. h = C[1] /\ h \in S  BY <1>1, <1>4, <2>1, HeadTailProperties, ElementOfSeq
  <2> QED  BY <2>1, <2>2, <2>3, LenProperties
<1>6. Content(r, h.view) \in Weights \cup {0} /\ h.slot \in Slots
  <2>1. h.view.cell \in Cells /\ h.view.slot \in Slots /\ h.slot \in Slots  BY <1>5
  <2>2. recvBuf[r] \in [Cells -> Buffer]  BY ReceiverTypes DEF TransferInv
  <2> QED  BY <2>1, <2>2 DEF Content, Buffer
<1>7. TransferTypeOK'
  <2> HIDE DEF C, h
  <2>1. ipcBuf' \in [Receivers -> Buffer]
    BY <1>1, <1>6 DEF TransferInv, TransferTypeOK, Buffer
  <2>2. copies' \in [Receivers -> Seq(S)]  BY <1>1, <1>5 DEF TransferInv, TransferTypeOK
  <2> QED  BY <1>1, <2>1, <2>2 DEF TransferInv, TransferTypeOK, broadcastVars, senderVars, receiverVars
<1>8. \A q \in Receivers \ {r} : Untouched(q)
  BY <1>1 DEF TransferInv, TransferTypeOK, Untouched, Same, broadcastVars, receiverVars
<1>9. /\ copies'[r] = Tail(C) /\ ipcBuf'[r][h.slot] = Content(r, h.view)
      /\ \A i \in Slots \ {h.slot} : ipcBuf'[r][i] = ipcBuf[r][i]
  <2> HIDE DEF C, h
  <2> QED  BY <1>1, <1>6 DEF TransferInv, TransferTypeOK, Buffer
<1>10. UNCHANGED <<current, yielded, recvOp, recvCell>>
  BY <1>1 DEF broadcastVars, receiverVars
<1>11. Uncloned(r)'  BY <1>1, <1>3 DEF Uncloned
<1>12. Taken(r)' = Taken(r)  BY <1>1, <1>3, <1>11 DEF Taken
<1>13. LinkInv(r)'  BY <1>1, <1>2, <1>10 DEF ReceiverInv, LinkInv, Asked, Answered, Exhausted, HasTensor
<1>14. LoadInv(r)'  BY <1>1, <1>2, <1>3 DEF ReceiverInv, LoadInv, Run
<1>15. CopyInv(r)'
  <2>1. \A k \in 1 .. p :
          /\ C[k].slot \in DOMAIN ipcMeta[r] /\ C[k].view.cell = Other(recvCell[r])
          /\ C[k].view.slot \in DOMAIN current[r].names
          /\ current[r].names[C[k].view.slot] = ipcMeta[r][C[k].slot]
    BY <1>2, <1>4 DEF ReceiverInv, CopyInv
  <2>2. \A i \in DOMAIN ipcMeta[r] : ipcBuf[r][i] = ipcMeta[r][i] \/ \E k \in 1 .. p : C[k].slot = i
    BY <1>2, <1>3, <1>4 DEF ReceiverInv, CopyInv
  <2>3. Content(r, h.view) = ipcMeta[r][h.slot]
    <3>1. Holds(recvBuf[r][Other(recvCell[r])], current[r].names)
      BY <1>2 DEF ReceiverInv, BufferInv
    <3>2. 1 \in 1 .. p  BY <1>4, <1>5
    <3> QED  BY <1>5, <2>1, <3>1, <3>2 DEF Content, Holds
  <2>4. ASSUME NEW k \in 1 .. p - 1 PROVE k + 1 \in 1 .. p /\ Tail(C)[k] = C[k + 1]
    BY <1>4, <1>5
  <2>5. ASSUME NEW i \in DOMAIN ipcMeta[r]
        PROVE  ipcBuf'[r][i] = ipcMeta[r][i] \/ \E k \in 1 .. p - 1 : Tail(C)[k].slot = i
    <3>1. i \in Slots  BY <1>3, BucketInSlots
    <3>2. CASE i = h.slot  BY <1>9, <2>3, <3>2
    <3>3. CASE i # h.slot
      <4>1. ipcBuf'[r][i] = ipcBuf[r][i]  BY <1>9, <3>1, <3>3
      <4>2. CASE ipcBuf[r][i] = ipcMeta[r][i]  BY <4>1, <4>2
      <4>3. CASE \E k \in 1 .. p : C[k].slot = i
        <5>1. PICK k \in 1 .. p : C[k].slot = i  BY <4>3
        <5>2. k # 1  BY <1>5, <3>3, <5>1
        <5>3. k - 1 \in 1 .. p - 1 /\ (k - 1) + 1 = k  BY <1>4, <5>2
        <5>4. Tail(C)[k - 1] = C[k]  BY <1>5, <5>3
        <5> QED  BY <5>1, <5>3, <5>4
      <4> QED  BY <2>2, <4>2, <4>3
    <3> QED  BY <3>2, <3>3
  <2>6. Other(recvCell[r])' = Other(recvCell[r])  BY <1>10 DEF Other
  <2>7. \A k \in DOMAIN copies'[r] :
          /\ copies'[r][k].slot \in DOMAIN ipcMeta'[r]
          /\ copies'[r][k].view.cell = Other(recvCell[r])'
          /\ copies'[r][k].view.slot \in DOMAIN current'[r].names
          /\ current'[r].names[copies'[r][k].view.slot] = ipcMeta'[r][copies'[r][k].slot]
    BY <1>1, <1>5, <1>9, <1>10, <2>1, <2>4, <2>6
  <2>8. \A i \in DOMAIN ipcMeta'[r] :
          \/ ipcBuf'[r][i] = ipcMeta'[r][i]
          \/ \E k \in DOMAIN copies'[r] : copies'[r][k].slot = i
    BY <1>1, <1>5, <1>9, <2>5
  <2> QED  BY <1>1, <1>3, <2>7, <2>8 DEF CopyInv
<1> QED  BY <1>1, <1>7, <1>8, <1>12, <1>13, <1>14, <1>15, ByLink

(***************************************************************************)
(* The theorems                                                            *)
(***************************************************************************)

\* No step of any process or device disturbs the invariant.
LEMMA TransferStep == TransferInv /\ [TransferNext]_transferVars => TransferInv'
<1> SUFFICES ASSUME TransferInv, [TransferNext]_transferVars PROVE TransferInv'  OBVIOUS
<1>1. CASE Sender /\ UNCHANGED ipcVars
  BY <1>1, PackKept, SendBucketKept, SendLastKept, PublishKept, CompleteKept DEF Sender
<1>2. ASSUME NEW r \in Receivers, Join(r) \/ ReceiveMeta(r) \/ ReceiveBucket(r), UNCHANGED ipcVars
      PROVE  TransferInv'
  BY <1>2, JoinKept, ReceiveMetaKept, ReceiveBucketKept
<1>3. ASSUME NEW r \in Receivers, Pull(r) PROVE TransferInv'
  BY <1>3, HandshakeEndsKept, PullBucketKept, PutTensorKept, SendFullKept, FullAnsweredKept,
     SendLastBucketKept, LastAnsweredKept DEF Pull
<1>4. ASSUME NEW r \in Receivers, Load(r) PROVE TransferInv'
  BY <1>4, ReceiverHandshakeKept, CloneBucketKept, AcknowledgeKept, LoadBucketKept DEF Load
<1>5. ASSUME NEW r \in Receivers, DeviceCopies(r) PROVE TransferInv'
  BY <1>5, DeviceCopiesKept
<1>6. CASE UNCHANGED transferVars
  <2>1. UNCHANGED <<senderVars, joined, published, receiverVars, ipcVars>>
    BY <1>6 DEF transferVars, broadcastVars
  <2>2. TransferTypeOK'
    BY <2>1 DEF TransferInv, TransferTypeOK, senderVars, receiverVars, ipcVars
  <2>3. \A q \in Receivers : Untouched(q)  BY <2>1, AllUntouched
  <2>4. UNCHANGED <<sent, bucketMeta, sendCell, sendBuf, op, opCount>>  BY <2>1 DEF senderVars
  <2>5. OpEnd' = OpEnd /\ OpStart' = OpStart  BY <2>4 DEF OpEnd, OpStart
  <2>6. PackInv'  BY <2>4, <2>5 DEF TransferInv, PackInv, Run, Holds, Other
  <2>7. \A q \in Receivers : ReceiverInv(q)'  BY <2>3, <2>4, <2>5, OtherKept DEF TransferInv
  <2> QED  BY <2>2, <2>6, <2>7 DEF TransferInv
<1> QED  BY <1>1, <1>2, <1>3, <1>4, <1>5, <1>6 DEF TransferNext

\* The invariant holds throughout every transfer.
THEOREM TransferInvariant == TransferSpec => []TransferInv
BY TransferInitially, TransferStep, PTL DEF TransferSpec

\* The state of a transfer has its types: no bucket is longer than its buffer.
THEOREM TransferTypeCorrect == TransferSpec => []TransferTypeOK
<1>1. TransferInv => TransferTypeOK  BY DEF TransferInv
<1> QED  BY <1>1, TransferInvariant, PTL

\* Every model loads the first weights of the generator, in order and with their content.
THEOREM ModelLoadsInOrder == TransferSpec => []LoadsInOrder
<1>1. TransferInv => LoadsInOrder
  BY DEF TransferInv, ReceiverInv, LoadInv, LoadsInOrder
<1> QED  BY <1>1, TransferInvariant, PTL

\* The bucket that is announced stays in the shared buffer until it is cloned and answered.
THEOREM AnnouncedBucketIntact == TransferSpec => []AnnouncedIntact
<1>1. ASSUME TransferInv, NEW r \in Receivers, loadPc[r] \in {"recv", "cloned"}, request[r] # <<>>
      PROVE  /\ ipcPc[r] \in {"full", "last"}
             /\ \A i \in DOMAIN request[r][1].names : ipcBuf[r][i] = request[r][1].names[i]
  <2>1. ReceiverInv(r) /\ ipcPc[r] \in IpcPc  BY <1>1, ReceiverTypes DEF TransferInv
  <2>2. ipcPc[r] \in {"full", "last"} /\ request[r][1].names = ipcMeta[r]
    BY <1>1, <2>1 DEF ReceiverInv, LinkInv, IpcPc, Asked, Answered
  <2>3. copies[r] = <<>> /\ DOMAIN copies[r] = {}
    BY <2>1, <2>2, EmptySeq DEF ReceiverInv, CopyInv
  <2> QED  BY <2>1, <2>2, <2>3 DEF ReceiverInv, CopyInv
<1>2. TransferInv => AnnouncedIntact  BY <1>1 DEF AnnouncedIntact
<1> QED  BY <1>2, TransferInvariant, PTL

\* A model whose transfer is over has all weights, each exactly once.
Complete == \A r \in Receivers : loadPc[r] = "done" =>
  Len(loaded[r]) = NumWeights /\ \A i \in Weights : loaded[r][i] = <<i, i>>

\* No receiver ends its loop with a weight missing: the last bucket of the link comes after
\* all tensors of the last broadcast, which comes after all weights were packed.
THEOREM DoneMeansComplete == TransferSpec => []Complete
<1>1. ASSUME TransferInv, NEW r \in Receivers, loadPc[r] = "done"
      PROVE  Len(loaded[r]) = NumWeights /\ \A i \in Weights : loaded[r][i] = <<i, i>>
  <2>1. ReceiverInv(r) /\ ipcPc[r] \in IpcPc  BY <1>1, ReceiverTypes DEF TransferInv
  <2>2. ipcPc[r] \in {"last", "closed"} /\ request[r] = <<>> /\ Exhausted(r)
    BY <1>1, <2>1 DEF ReceiverInv, LinkInv, IpcPc, Asked, Answered
  <2>3. ~Uncloned(r) /\ clones[r] = <<>>
    BY <1>1, <2>1, <2>2 DEF ReceiverInv, LoadInv, Uncloned
  <2>4. recvOp[r] = "done" /\ recvCount[r] = opCount /\ op.meta.is_last /\ ~Pending(r)
    BY <2>1, <2>2 DEF ReceiverInv, SyncInv, Exhausted, Pending
  <2>5. OpEnd = NumWeights  BY <1>1, <2>4 DEF TransferInv, PackInv, OpEnd
  <2>6. End(r) + 0 = NumWeights  BY <2>1, <2>4, <2>5 DEF ReceiverInv, CountInv
  <2>7. /\ yielded[r] \in Nat /\ Len(current[r].names) \in Nat
        /\ yielded[r] <= Len(current[r].names) /\ ~(yielded[r] < Len(current[r].names))
        /\ DOMAIN loaded[r] = 1 .. Len(loaded[r]) /\ Len(loaded[r]) \in Nat
    BY <1>1, <2>1, <2>2, ReceiverTypes, Lengths
       DEF TransferInv, ReceiverInv, CountInv, Exhausted, HasTensor
  <2>8. /\ Start(r) \in Nat /\ End(r) \in Nat /\ Taken(r) \in Nat
        /\ Taken(r) = Start(r) + yielded[r] /\ NumWeights \in Nat
    BY <1>1, Bounds, SizesFit
  <2>9. Taken(r) = NumWeights
    <3>1. End(r) = Start(r) + Len(current[r].names)  BY DEF End
    <3>2. Taken(r) = End(r)  BY <2>7, <2>8, <3>1
    <3> QED  BY <2>6, <2>8, <3>2
  <2>10. Len(loaded[r]) = NumWeights
    <3> DEFINE l == Len(loaded[r])
    <3>1. Taken(r) = l + 0 + 0  BY <2>3, EmptySeq DEF Taken
    <3>2. l \in Nat  BY <2>7
    <3> HIDE DEF l
    <3>3. l = NumWeights  BY <2>8, <2>9, <3>1, <3>2
    <3> QED  BY <3>3 DEF l
  <2> QED  BY <2>1, <2>7, <2>10 DEF ReceiverInv, LoadInv, Weights
<1>2. TransferInv => Complete  BY <1>1 DEF Complete
<1> QED  BY <1>2, TransferInvariant, PTL

(***************************************************************************)
(* No deadlock                                                             *)
(***************************************************************************)

\* The guards of rank 0 (Sender), of a receiver's operation (ReceiveMeta, ReceiveBucket),
\* of the sender of the shared buffer (Pull) and of the loader (Load).
SenderMoves ==
  \/ sent < NumWeights /\ ~op.meta.is_last /\ Fits
  \/ sent < NumWeights /\ ~Fits /\ op.state \in {"none", "done"}
  \/ sent = NumWeights /\ ~op.meta.is_last /\ op.state \in {"none", "done"}
  \/ op.state = "meta"
  \/ op.state = "collective" /\ \A r \in Receivers : recvCount[r] = opCount
OperationMoves(r) ==
  \/ recvOp[r] = "meta" /\ published[r] # <<>>
  \/ recvOp[r] = "collective" /\ op.state = "collective" /\ recvCount[r] < opCount
LinkMoves(r) ==
  \/ ipcPc[r] = "handshake" /\ reply[r] /\ recvOp[r] = "none"
  \/ ipcPc[r] = "pull" /\ HasTensor(r) /\ (IpcFits(r) \/ request[r] = <<>>)
  \/ ipcPc[r] = "pull" /\ ~HasTensor(r) /\ ~current[r].is_last /\ recvOp[r] = "done"
  \/ ipcPc[r] = "pull" /\ Exhausted(r) /\ request[r] = <<>>
  \/ ipcPc[r] \in {"full", "last"} /\ reply[r]
LoaderMoves(r) ==
  \/ loadPc[r] \in {"handshake", "recv"} /\ request[r] # <<>>
  \/ loadPc[r] \in {"cloned", "load", "loadLast"}

\* The transfer is over on all sides.
Over ==
  /\ op.state = "done" /\ op.meta.is_last
  /\ \A r \in Receivers : ipcPc[r] = "closed" /\ loadPc[r] = "done"
NeverStuck ==
  ~SlowJoin =>
    Over \/ SenderMoves \/ \E r \in Receivers : OperationMoves(r) \/ LinkMoves(r) \/ LoaderMoves(r)

\* With all subscriptions in time no receiver waits for metadata that was published
\* before, and none joins a broadcast after the last one.
JoinedInv == ~SlowJoin => joined = Receivers
FirstInv == op.state = "none" \/ opCount = 0 => ~op.meta.is_last
HeardInv(r) ==
  ~SlowJoin /\ op.state = "collective" /\ Behind(r) /\ recvOp[r] # "collective"
    => published[r] # <<>>
NextInv(r) ==
  /\ recvOp[r] = "none" => recvCount[r] = 0
  /\ recvOp[r] = "meta" /\ ~Behind(r) => ~op.meta.is_last
WaitInv == JoinedInv /\ FirstInv /\ \A r \in Receivers : HeardInv(r) /\ NextInv(r)

\* Nothing is published or joined yet.
LEMMA WaitInitially == TransferInit => WaitInv
BY DEF TransferInit, BroadcastInit, NoMeta, WaitInv, JoinedInv, FirstInv, HeardInv, NextInv

\* What concerns a receiver stays as long as it and rank 0's operation do.
LEMMA WaitStays ==
  ASSUME NEW q \in Receivers, HeardInv(q), NextInv(q), recvOp'[q] = recvOp[q],
         recvCount'[q] = recvCount[q], published'[q] = published[q], UNCHANGED <<op, opCount>>
  PROVE  HeardInv(q)' /\ NextInv(q)'
BY DEF HeardInv, NextInv, Behind

\* Rank 0 starts a broadcast only when all have taken part in the last one, and
\* publishes its metadata to all that are known.
LEMMA SenderWaits ==
  ASSUME TransferInv, WaitInv, Sender, UNCHANGED ipcVars PROVE WaitInv'
<1>1. UNCHANGED <<joined, recvOp, recvCount>>
  BY DEF Sender, PackWeight, SendBucket, SendLast, Publish, BroadcastCompletes, receiverVars
<1>2. JoinedInv'  BY <1>1 DEF WaitInv, JoinedInv
<1>3. opCount \in Nat /\ \A r \in Receivers : recvCount[r] \in Nat
  BY SenderTypes, ReceiverTypes DEF TransferInv
<1>4. ASSUME NEW b \in BOOLEAN, StartBroadcast(b) PROVE WaitInv'
  <2>1. op'.state = "meta" /\ opCount' = opCount + 1  BY <1>4 DEF StartBroadcast
  <2>2. FirstInv'  BY <1>3, <2>1 DEF FirstInv
  <2>3. ASSUME NEW r \in Receivers PROVE HeardInv(r)' /\ NextInv(r)'
    <3>1. recvCount[r] = opCount
      BY <1>4 DEF StartBroadcast, TransferInv, ReceiverInv, SyncInv
    <3>2. Behind(r)'  BY <1>1, <2>1, <3>1 DEF Behind
    <3> QED  BY <1>1, <2>1, <3>2 DEF WaitInv, HeardInv, NextInv
  <2> QED  BY <1>2, <2>2, <2>3 DEF WaitInv
<1>5. CASE PackWeight
  <2>1. UNCHANGED <<op, opCount, published>>  BY <1>5 DEF PackWeight
  <2>2. FirstInv'  BY <2>1 DEF WaitInv, FirstInv
  <2>3. \A r \in Receivers : HeardInv(r)' /\ NextInv(r)'
    BY <1>1, <2>1, WaitStays DEF WaitInv
  <2> QED  BY <1>2, <2>2, <2>3 DEF WaitInv
<1>6. CASE SendBucket  BY <1>4, <1>6 DEF SendBucket
<1>7. CASE SendLast  BY <1>4, <1>7 DEF SendLast
<1>8. CASE Publish
  <2>1. /\ op'.state = "collective" /\ op'.meta = op.meta /\ opCount' = opCount
        /\ published' = [r \in Receivers |->
                           IF r \in joined THEN Append(published[r], op.meta) ELSE published[r]]
    BY <1>8 DEF Publish, TransferInv, TransferTypeOK
  <2>2. FirstInv'  BY <2>1 DEF WaitInv, FirstInv
  <2>3. ASSUME NEW r \in Receivers PROVE HeardInv(r)' /\ NextInv(r)'
    <3>1. NextInv(r)'  BY <1>1, <2>1 DEF WaitInv, NextInv, Behind
    <3>2. ASSUME ~SlowJoin PROVE published'[r] # <<>>
      <4>1. published'[r] = Append(published[r], op.meta)
        BY <2>1, <3>2 DEF WaitInv, JoinedInv
      <4>2. published[r] \in Seq(Meta) /\ op.meta \in Meta
        BY SenderTypes, ReceiverTypes DEF TransferInv
      <4> QED  BY <4>1, <4>2, AppendProperties
    <3> QED  BY <3>1, <3>2 DEF HeardInv
  <2> QED  BY <1>2, <2>2, <2>3 DEF WaitInv
<1>9. CASE BroadcastCompletes
  <2>1. op'.state = "done" /\ op'.meta = op.meta /\ opCount' = opCount /\ published' = published
    BY <1>9 DEF BroadcastCompletes, TransferInv, TransferTypeOK
  <2>2. FirstInv'  BY <2>1 DEF WaitInv, FirstInv
  <2>3. \A r \in Receivers : HeardInv(r)' /\ NextInv(r)'
    BY <1>1, <2>1 DEF WaitInv, HeardInv, NextInv, Behind
  <2> QED  BY <1>2, <2>2, <2>3 DEF WaitInv
<1> QED  BY <1>5, <1>6, <1>7, <1>8, <1>9 DEF Sender

\* A receiver that goes on has the metadata of the last broadcast it took part in.
LEMMA ReceiverWaits ==
  ASSUME TransferInv, WaitInv, NEW r \in Receivers,
         \/ (Join(r) \/ ReceiveMeta(r) \/ ReceiveBucket(r)) /\ UNCHANGED ipcVars
         \/ DeviceCopies(r) \/ Pull(r) \/ Load(r)
  PROVE  WaitInv'
<1>1. UNCHANGED senderVars
  BY DEF Join, ReceiveMeta, ReceiveBucket, DeviceCopies, Pull, Load, HandshakeEnds, PullBucket,
     PutTensor, SendFull, FullAnswered, SendLastBucket, LastAnswered, FirstBucket, NextBucket, Put,
     Yielded, ReceiverHandshake, CloneBucket, Acknowledge, LoadBucket, broadcastVars
<1>2. UNCHANGED <<op, opCount>>  BY <1>1 DEF senderVars
<1>3. FirstInv'  BY <1>2 DEF WaitInv, FirstInv
<1>4. ASSUME NEW q \in Receivers \ {r}
      PROVE  recvOp'[q] = recvOp[q] /\ recvCount'[q] = recvCount[q] /\ published'[q] = published[q]
  BY DEF Join, ReceiveMeta, ReceiveBucket, DeviceCopies, Pull, Load, HandshakeEnds, PullBucket,
     PutTensor, SendFull, FullAnswered, SendLastBucket, LastAnswered, FirstBucket, NextBucket, Put,
     Yielded, ReceiverHandshake, CloneBucket, Acknowledge, LoadBucket, broadcastVars, receiverVars,
     TransferInv, TransferTypeOK
<1>5. ASSUME HeardInv(r)', NextInv(r)', joined' = joined PROVE WaitInv'
  <2>1. \A q \in Receivers \ {r} : HeardInv(q)' /\ NextInv(q)'
    BY <1>2, <1>4, WaitStays DEF WaitInv
  <2>2. JoinedInv'  BY <1>5 DEF WaitInv, JoinedInv
  <2> QED  BY <1>3, <1>5, <2>1, <2>2 DEF WaitInv
<1>6. opCount \in Nat /\ recvCount[r] \in Nat /\ SyncInv(r) /\ HeardInv(r) /\ NextInv(r)
  BY SenderTypes, ReceiverTypes DEF TransferInv, ReceiverInv, WaitInv
<1>7. CASE Join(r)
  <2>1. \A q \in Receivers : HeardInv(q)' /\ NextInv(q)'
    BY <1>2, <1>4, <1>7, WaitStays DEF Join, receiverVars, WaitInv
  <2>2. JoinedInv'  BY <1>7 DEF Join, WaitInv, JoinedInv
  <2> QED  BY <1>3, <2>1, <2>2 DEF WaitInv
<1>8. CASE ReceiveMeta(r)
  <2>1. recvOp'[r] = "collective" /\ joined' = joined
    BY <1>8 DEF ReceiveMeta, TransferInv, TransferTypeOK
  <2> QED  BY <1>5, <2>1 DEF HeardInv, NextInv
<1>9. CASE ReceiveBucket(r)
  <2>1. recvOp'[r] = "done" /\ recvCount'[r] = recvCount[r] + 1 /\ recvCount[r] < opCount
        /\ joined' = joined
    BY <1>9 DEF ReceiveBucket, TransferInv, TransferTypeOK
  <2>2. ~Behind(r)'  BY <1>2, <1>6, <2>1 DEF SyncInv, Behind
  <2> QED  BY <1>5, <2>1, <2>2 DEF HeardInv, NextInv
<1>10. CASE HandshakeEnds(r)
  <2>1. /\ recvOp[r] = "none" /\ recvOp'[r] = "meta" /\ recvCount'[r] = recvCount[r]
        /\ published'[r] = published[r] /\ joined' = joined
    BY <1>10 DEF HandshakeEnds, FirstBucket, TransferInv, TransferTypeOK
  <2>2. HeardInv(r)'  BY <1>2, <1>6, <2>1 DEF HeardInv, Behind
  <2>3. ~Behind(r) => opCount = 0  BY <1>6, <2>1 DEF NextInv, SyncInv, Behind
  <2>4. ~Behind(r) => ~op.meta.is_last  BY <2>3 DEF WaitInv, FirstInv
  <2>5. NextInv(r)'  BY <1>2, <2>1, <2>4 DEF NextInv, Behind
  <2> QED  BY <1>5, <2>1, <2>2, <2>5
<1>11. CASE PullBucket(r)
  <2>1. /\ recvOp[r] = "done" /\ recvCount'[r] = recvCount[r]
        /\ recvOp'[r] = IF metadata[r].is_last THEN "done" ELSE "meta"
        /\ published'[r] = published[r] /\ joined' = joined
    BY <1>11 DEF PullBucket, NextBucket, TransferInv, TransferTypeOK
  <2>2. HeardInv(r)'  BY <1>2, <1>6, <2>1 DEF HeardInv, Behind
  <2>3. recvOp'[r] = "meta" /\ ~Behind(r) => ~op.meta.is_last
    BY <1>6, <2>1 DEF SyncInv
  <2>4. NextInv(r)'  BY <1>2, <2>1, <2>3 DEF NextInv, Behind
  <2> QED  BY <1>5, <2>1, <2>2, <2>4
<1>12. CASE \/ DeviceCopies(r) \/ PutTensor(r) \/ SendFull(r) \/ FullAnswered(r)
            \/ SendLastBucket(r) \/ LastAnswered(r) \/ Load(r)
  <2>1. recvOp'[r] = recvOp[r] /\ recvCount'[r] = recvCount[r] /\ published'[r] = published[r]
        /\ joined' = joined
    BY <1>12 DEF DeviceCopies, PutTensor, SendFull, FullAnswered, SendLastBucket, LastAnswered,
       Load, Put, Yielded, ReceiverHandshake, CloneBucket, Acknowledge, LoadBucket,
       broadcastVars, receiverVars
  <2>2. HeardInv(r)' /\ NextInv(r)'  BY <1>2, <1>6, <2>1, WaitStays
  <2> QED  BY <1>5, <2>1, <2>2
<1> QED  BY <1>7, <1>8, <1>9, <1>10, <1>11, <1>12 DEF Pull

\* Rank 0 waits only for a receiver that is behind, or has sent everything.
LEMMA SenderStops ==
  ASSUME TransferInv, WaitInv, ~SenderMoves
  PROVE  \/ op.state = "collective" /\ \E r \in Receivers : Behind(r)
         \/ op.state = "done" /\ op.meta.is_last
<1>1. /\ op.state \in OpState /\ sent \in 0 .. NumWeights /\ NumWeights \in Nat
      /\ op.meta.is_last \in BOOLEAN
  BY SenderTypes, SizesFit DEF TransferInv
<1>2. op.state # "meta"  BY DEF SenderMoves
<1>3. CASE op.state = "collective"
  <2>1. PICK r \in Receivers : recvCount[r] # opCount  BY <1>3 DEF SenderMoves
  <2>2. Behind(r)  BY <2>1 DEF TransferInv, ReceiverInv, SyncInv
  <2> QED  BY <1>3, <2>2
<1>4. CASE op.state \in {"none", "done"}
  <2>1. op.meta.is_last => sent = NumWeights  BY DEF TransferInv, PackInv
  <2>2. op.meta.is_last
    <3> SUFFICES ASSUME ~op.meta.is_last PROVE FALSE  BY <1>1
    <3>1. sent < NumWeights \/ sent = NumWeights  BY <1>1
    <3> QED  BY <1>4, <3>1 DEF SenderMoves
  <2>3. op.state # "none"  BY <2>2 DEF WaitInv, FirstInv
  <2> QED  BY <1>4, <2>2, <2>3
<1> QED  BY <1>1, <1>2, <1>3, <1>4 DEF OpState

\* The link of a receiver waits only for the next bucket of the broadcast, or is done.
LEMMA LinkStops ==
  ASSUME TransferInv, NEW r \in Receivers, ~LinkMoves(r), ~LoaderMoves(r)
  PROVE  \/ ipcPc[r] = "closed" /\ loadPc[r] = "done" /\ current[r].is_last
         \/ ~current[r].is_last /\ recvOp[r] \in {"meta", "collective"}
<1>1. LinkInv(r) /\ ipcPc[r] \in IpcPc /\ recvOp[r] \in OpState /\ loadPc[r] \in LoadPc
  BY ReceiverTypes DEF TransferInv, ReceiverInv
<1>2. ipcPc[r] # "handshake"
  <2> SUFFICES ASSUME ipcPc[r] = "handshake" PROVE FALSE  OBVIOUS
  <2>1. recvOp[r] = "none"  BY <1>1 DEF LinkInv
  <2>2. \/ loadPc[r] = "handshake" /\ request[r] = <<Handle>>
        \/ Answered(r)
    BY <1>1 DEF LinkInv
  <2> QED  BY <2>1, <2>2 DEF LinkMoves, LoaderMoves, Answered
<1>3. ipcPc[r] \notin {"full", "last"}
  <2> SUFFICES ASSUME ipcPc[r] \in {"full", "last"} PROVE FALSE  OBVIOUS
  <2>1. \/ loadPc[r] \in {"recv", "cloned", "load"} /\ (Asked(r, FALSE) \/ Asked(r, TRUE))
        \/ Answered(r)
    BY <1>1 DEF LinkInv
  <2> QED  BY <2>1 DEF LinkMoves, LoaderMoves, Asked, Answered
<1>4. CASE ipcPc[r] = "closed"
  <2>1. loadPc[r] \in {"loadLast", "done"} /\ Exhausted(r)  BY <1>1, <1>4 DEF LinkInv
  <2> QED  BY <1>4, <2>1 DEF LoaderMoves, Exhausted
<1>5. CASE ipcPc[r] = "pull"
  <2>1. request[r] = <<>>  BY <1>1, <1>5 DEF LinkInv
  <2>2. ~HasTensor(r) /\ ~Exhausted(r)  BY <1>5, <2>1 DEF LinkMoves
  <2>3. ~current[r].is_last /\ recvOp[r] # "done"  BY <1>5, <2>2 DEF LinkMoves, Exhausted
  <2>4. recvOp[r] # "none"  BY <1>1, <1>5 DEF LinkInv
  <2> QED  BY <1>1, <2>3, <2>4 DEF OpState
<1> QED  BY <1>1, <1>2, <1>3, <1>4, <1>5 DEF IpcPc

\* A transfer never gets stuck: as long as it is not over on all sides, rank 0, a receiver, its
\* sender or its loader can go on, for every number of receivers and all lists of weights, if
\* the subscriptions come in time. Everyone waits for someone else here: send_weights for the
\* last broadcast, receive_weights for the next one, async_send_weights for the answer of the
\* loader, and the loader for the next announcement.
THEOREM NoDeadlock == TransferSpec => []NeverStuck
<1>1. WaitInv /\ TransferInv /\ [TransferNext]_transferVars => WaitInv'
  <2> SUFFICES ASSUME WaitInv, TransferInv, [TransferNext]_transferVars PROVE WaitInv'  OBVIOUS
  <2>1. CASE UNCHANGED transferVars
    <3>1. UNCHANGED <<op, opCount, joined, published, recvOp, recvCount>>
      BY <2>1 DEF transferVars, broadcastVars, senderVars, receiverVars
    <3>2. \A q \in Receivers : HeardInv(q)' /\ NextInv(q)'  BY <3>1, WaitStays DEF WaitInv
    <3> QED  BY <3>1, <3>2 DEF WaitInv, JoinedInv, FirstInv
  <2> QED  BY <2>1, SenderWaits, ReceiverWaits DEF TransferNext
<1>2. TransferInv /\ WaitInv => NeverStuck
  <2> SUFFICES ASSUME TransferInv, WaitInv, ~SlowJoin, ~SenderMoves,
                      \A r \in Receivers : ~OperationMoves(r) /\ ~LinkMoves(r) /\ ~LoaderMoves(r)
               PROVE  Over
    BY DEF NeverStuck
  <2>1. \A r \in Receivers :
          /\ SyncInv(r) /\ HeardInv(r) /\ NextInv(r)
          /\ opCount \in Nat /\ recvCount[r] \in Nat /\ recvOp[r] \in OpState
    BY SenderTypes, ReceiverTypes DEF TransferInv, ReceiverInv, WaitInv
  <2>2. ASSUME NEW r \in Receivers, op.state = "collective", Behind(r) PROVE FALSE
    <3>1. ~current[r].is_last /\ recvOp[r] \in {"meta", "collective"}
      <4>1. recvCount[r] # opCount  BY <2>1, <2>2 DEF Behind
      <4>2. ~current[r].is_last  BY <2>1, <4>1 DEF SyncInv
      <4> QED  BY <4>2, LinkStops
    <3>2. recvOp[r] # "meta"  BY <2>1, <2>2 DEF HeardInv, OperationMoves
    <3>3. recvOp[r] # "collective"
      <4>1. recvCount[r] < opCount  BY <2>1, <2>2 DEF Behind
      <4> QED  BY <2>2, <4>1 DEF OperationMoves
    <3> QED  BY <3>1, <3>2, <3>3
  <2>3. op.state = "done" /\ op.meta.is_last  BY <2>2, SenderStops
  <2>4. ASSUME NEW r \in Receivers PROVE ipcPc[r] = "closed" /\ loadPc[r] = "done"
    <3>1. recvCount[r] = opCount /\ ~Behind(r)  BY <2>1, <2>3 DEF SyncInv, Behind
    <3>2. recvOp[r] # "collective"  BY <2>1, <2>3 DEF SyncInv
    <3>3. recvOp[r] # "meta"  BY <2>1, <2>3, <3>1 DEF NextInv
    <3> QED  BY <3>2, <3>3, LinkStops
  <2> QED  BY <2>3, <2>4 DEF Over
<1> QED  BY <1>1, <1>2, WaitInitially, TransferInvariant, PTL DEF TransferSpec
==============================================================================
