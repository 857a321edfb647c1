--------------------------- MODULE WeightTransfer ---------------------------
(***************************************************************************)
(* A weight transfer end to end: WeightBroadcast, and per receiver the     *)
(* BucketedWeightSender that consumes its generator and the                *)
(* BucketedWeightReceiver inside the inference worker                      *)
(* (workers/rollout/vllm_rollout/bucketed_weight_transfer.py), which share *)
(* one buffer and talk over a ZeroMQ REQ/REP pair.  Copies into the buffer *)
(* are non_blocking: the device performs them later, in order, at the      *)
(* latest when it is synchronized.                                         *)
(***************************************************************************)
EXTENDS WeightBroadcast

VARIABLES
  ipcPc,      \* the sender
  ipcOffset, ipcMeta,  \* of the bucket it fills
  ipcBuf,     \* the shared buffer
  copies,     \* copies into it that the device has not performed: <<slot, view>>
  request,    \* the REQ message not yet answered: <<>> or one
  reply,      \* its answer is under way
  loadPc,     \* the receiver
  clones,     \* the weights list it has cloned
  loaded      \* what the model has loaded: <<name, content>>

ipcVars == <<ipcPc, ipcOffset, ipcMeta, ipcBuf, copies, request, reply, loadPc, clones, loaded>>
transferVars == <<broadcastVars, ipcVars>>

IpcPc == {"handshake", "pull", "full", "last", "closed"}
LoadPc == {"handshake", "recv", "cloned", "load", "loadLast", "done"}
Handle == [names |-> <<>>, is_last |-> FALSE]

TransferInit ==
  /\ BroadcastInit
  /\ ipcPc = [r \in Receivers |-> "handshake"]
  /\ ipcOffset = [r \in Receivers |-> 0] /\ ipcMeta = [r \in Receivers |-> <<>>]
  /\ ipcBuf = [r \in Receivers |-> Empty] /\ copies = [r \in Receivers |-> <<>>]
  /\ request = [r \in Receivers |-> <<Handle>>] /\ reply = [r \in Receivers |-> FALSE]
  /\ loadPc = [r \in Receivers |-> "handshake"]
  /\ clones = [r \in Receivers |-> <<>>] /\ loaded = [r \in Receivers |-> <<>>]

Set(f, r, v) == f' = [f EXCEPT ![r] = v]
Content(r, view) == recvBuf[r][view.cell][view.slot]

\* get_torch_device().synchronize(): every copy under way is performed.
Synchronized(r) ==
  [i \in Slots |->
     IF \E k \in DOMAIN copies[r] : copies[r][k].slot = i
     THEN Content(r, copies[r][CHOOSE k \in DOMAIN copies[r] : copies[r][k].slot = i].view)
     ELSE ipcBuf[r][i]]
Synchronize(r) == Set(ipcBuf, r, Synchronized(r)) /\ Set(copies, r, <<>>)

DeviceCopies(r) ==
  /\ copies[r] # <<>>
  /\ LET c == Head(copies[r]) IN ipcBuf' = [ipcBuf EXCEPT ![r][c.slot] = Content(r, c.view)]
  /\ copies' = [copies EXCEPT ![r] = Tail(@)]
  /\ UNCHANGED <<broadcastVars, ipcPc, ipcOffset, ipcMeta, request, reply, loadPc, clones, loaded>>
-----------------------------------------------------------------------------
Send(r, m) == request[r] = <<>> /\ Set(request, r, <<m>>)
Replied(r) == reply[r] /\ Set(reply, r, FALSE)

\* _init_buffer: the handle was sent at the start (TransferInit); its acknowledgement starts the iteration.
HandshakeEnds(r) ==
  /\ ipcPc[r] = "handshake" /\ Replied(r) /\ Set(ipcPc, r, "pull")
  /\ FirstBucket(r)
  /\ UNCHANGED <<ipcOffset, ipcMeta, ipcBuf, copies, request, loadPc, clones, loaded>>

\* The consumer asks for more: the generator synchronizes the device before it swaps.
PullBucket(r) ==
  /\ ipcPc[r] = "pull" /\ NextBucket(r) /\ Synchronize(r)
  /\ UNCHANGED <<ipcPc, ipcOffset, ipcMeta, request, reply, loadPc, clones, loaded>>

\* The tensor the generator yields, and whether it fits into the bucket.
IpcFits(r) == ipcOffset[r] + Size[NextName(r)] <= BucketSize

\* The tensor is appended to a bucket of names m, off bytes long.
Put(r, m, off) ==
  /\ Set(ipcMeta, r, Append(m, NextName(r)))
  /\ Set(ipcOffset, r, off + Size[NextName(r)])
  /\ Set(copies, r, Append(copies[r], [slot |-> Len(m) + 1, view |-> View(r)]))
  /\ Yielded(r)
  /\ UNCHANGED <<ipcBuf, loadPc, clones, loaded>>

PutTensor(r) ==
  /\ ipcPc[r] = "pull" /\ HasTensor(r) /\ IpcFits(r)
  /\ Put(r, ipcMeta[r], ipcOffset[r])
  /\ UNCHANGED <<ipcPc, request, reply>>

\* The bucket is full: it is sent, and the sender blocks for the answer.
SendFull(r) ==
  /\ ipcPc[r] = "pull" /\ HasTensor(r) /\ ~IpcFits(r) /\ Synchronize(r)
  /\ Send(r, [names |-> ipcMeta[r], is_last |-> FALSE]) /\ Set(ipcPc, r, "full")
  /\ UNCHANGED <<broadcastVars, ipcOffset, ipcMeta, reply, loadPc, clones, loaded>>

FullAnswered(r) ==
  /\ ipcPc[r] = "full" /\ Replied(r) /\ Set(ipcPc, r, "pull")
  /\ Put(r, <<>>, 0)
  /\ UNCHANGED request

\* A bug: the device is not synchronized before the last bucket is announced.
SendLastUnsynchronized(r) ==
  /\ ipcPc[r] = "pull" /\ Exhausted(r)
  /\ Send(r, [names |-> ipcMeta[r], is_last |-> TRUE]) /\ Set(ipcPc, r, "last")
  /\ UNCHANGED <<broadcastVars, ipcOffset, ipcMeta, ipcBuf, copies, reply, loadPc, clones, loaded>>

SendLastBucket(r) ==
  /\ ipcPc[r] = "pull" /\ Exhausted(r) /\ Synchronize(r)
  /\ Send(r, [names |-> ipcMeta[r], is_last |-> TRUE]) /\ Set(ipcPc, r, "last")
  /\ UNCHANGED <<broadcastVars, ipcOffset, ipcMeta, reply, loadPc, clones, loaded>>

\* _cleanup: the buffer is gone.
LastAnswered(r) ==
  /\ ipcPc[r] = "last" /\ Replied(r) /\ Set(ipcPc, r, "closed")
  /\ Set(ipcBuf, r, Empty)
  /\ UNCHANGED <<broadcastVars, ipcOffset, ipcMeta, copies, request, loadPc, clones, loaded>>
-----------------------------------------------------------------------------
ReceiverHandshake(r) ==
  /\ loadPc[r] = "handshake" /\ request[r] # <<>> /\ Set(request, r, <<>>)
  /\ Set(reply, r, TRUE) /\ Set(loadPc, r, "recv")
  /\ UNCHANGED <<broadcastVars, ipcPc, ipcOffset, ipcMeta, ipcBuf, copies, clones, loaded>>

\* The tensors of the bucket are cloned out of the shared buffer.
CloneBucket(r) ==
  /\ loadPc[r] = "recv" /\ request[r] # <<>> /\ Set(loadPc, r, "cloned")
  /\ Set(clones, r, [i \in DOMAIN request[r][1].names |-> <<request[r][1].names[i], ipcBuf[r][i]>>])
  /\ UNCHANGED <<broadcastVars, ipcPc, ipcOffset, ipcMeta, ipcBuf, copies, request, reply, loaded>>

\* A bug: only full buckets are acknowledged.
AcknowledgeFull(r) ==
  /\ loadPc[r] = "cloned" /\ Set(reply, r, ~request[r][1].is_last)
  /\ Set(loadPc, r, IF request[r][1].is_last THEN "loadLast" ELSE "load")
  /\ Set(request, r, <<>>)
  /\ UNCHANGED <<broadcastVars, ipcPc, ipcOffset, ipcMeta, ipcBuf, copies, clones, loaded>>

Acknowledge(r) ==
  /\ loadPc[r] = "cloned" /\ Set(reply, r, TRUE)
  /\ Set(loadPc, r, IF request[r][1].is_last THEN "loadLast" ELSE "load")
  /\ Set(request, r, <<>>)
  /\ UNCHANGED <<broadcastVars, ipcPc, ipcOffset, ipcMeta, ipcBuf, copies, clones, loaded>>

\* A bug: the weights handed to the model are views of the buffer, not clones.
LoadViews(r) ==
  /\ loadPc[r] \in {"load", "loadLast"}
  /\ Set(loaded, r, loaded[r] \o [i \in DOMAIN clones[r] |-> <<clones[r][i][1], ipcBuf[r][i]>>])
  /\ Set(clones, r, <<>>)
  /\ Set(loadPc, r, IF loadPc[r] = "load" THEN "recv" ELSE "done")
  /\ UNCHANGED <<broadcastVars, ipcPc, ipcOffset, ipcMeta, ipcBuf, copies, request, reply>>

\* on_bucket_received
LoadBucket(r) ==
  /\ loadPc[r] \in {"load", "loadLast"}
  /\ Set(loaded, r, loaded[r] \o clones[r]) /\ Set(clones, r, <<>>)
  /\ Set(loadPc, r, IF loadPc[r] = "load" THEN "recv" ELSE "done")
  /\ UNCHANGED <<broadcastVars, ipcPc, ipcOffset, ipcMeta, ipcBuf, copies, request, reply>>
-----------------------------------------------------------------------------
Pull(r) ==
  \/ HandshakeEnds(r) \/ PullBucket(r) \/ PutTensor(r) \/ SendFull(r) \/ FullAnswered(r)
  \/ SendLastBucket(r) \/ LastAnswered(r)
Load(r) == ReceiverHandshake(r) \/ CloneBucket(r) \/ Acknowledge(r) \/ LoadBucket(r)

TransferNext ==
  \/ Sender /\ UNCHANGED ipcVars
  \/ \E r \in Receivers :
       \/ (Join(r) \/ ReceiveMeta(r) \/ ReceiveBucket(r)) /\ UNCHANGED ipcVars
       \/ DeviceCopies(r) \/ Pull(r) \/ Load(r)

TransferSpec == TransferInit /\ [][TransferNext]_transferVars

\* Every process, executor thread and device stream keeps going.
FairSpec ==
  /\ TransferSpec
  /\ WF_transferVars(Sender /\ UNCHANGED ipcVars)
  /\ \A r \in Receivers :
       /\ WF_transferVars((Join(r) \/ ReceiveMeta(r) \/ ReceiveBucket(r)) /\ UNCHANGED ipcVars)
       /\ WF_transferVars(DeviceCopies(r)) /\ WF_transferVars(Pull(r)) /\ WF_transferVars(Load(r))
-----------------------------------------------------------------------------
Meta == [names : Seq(Weights), is_last : BOOLEAN]
Buffer == [Slots -> Weights \cup {0}]

\* The type invariant of the broadcast, the shared buffer and the loader.
TransferTypeOK ==
  /\ sent \in 0 .. NumWeights /\ offset \in 0 .. BucketSize /\ bucketMeta \in Seq(Weights)
  /\ sendCell \in Cells /\ sendBuf \in [Cells -> Buffer]
  /\ op \in [state : OpState, cell : Cells, meta : Meta] /\ opCount \in Nat
  /\ joined \subseteq Receivers /\ published \in [Receivers -> Seq(Meta)]
  /\ recvOp \in [Receivers -> OpState] /\ recvCount \in [Receivers -> Nat]
  /\ recvCell \in [Receivers -> Cells] /\ recvBuf \in [Receivers -> [Cells -> Buffer]]
  /\ metadata \in [Receivers -> Meta] /\ current \in [Receivers -> Meta]
  /\ yielded \in [Receivers -> 0 .. NumWeights]
  /\ ipcPc \in [Receivers -> IpcPc] /\ ipcOffset \in [Receivers -> 0 .. BucketSize]
  /\ ipcMeta \in [Receivers -> Seq(Weights)] /\ ipcBuf \in [Receivers -> Buffer]
  /\ copies \in [Receivers -> Seq([slot : Slots, view : [cell : Cells, slot : Slots]])]
  /\ request \in [Receivers -> Seq(Meta)] /\ reply \in [Receivers -> BOOLEAN]
  /\ loadPc \in [Receivers -> LoadPc]
  /\ clones \in [Receivers -> Seq(Weights \X (Weights \cup {0}))]
  /\ loaded \in [Receivers -> Seq(Weights \X (Weights \cup {0}))]

\* What a model has loaded are the first weights of the generator, in order, each with
\* its own content: no bucket is lost, repeated, reordered or overwritten on the way
\* through four buffers.
LoadsInOrder ==
  \A r \in Receivers : \A i \in DOMAIN loaded[r] : loaded[r][i] = <<i, i>>

\* The shared buffer holds the announced bucket until the answer comes back: neither
\* refilled nor freed under the receiver.
AnnouncedIntact ==
  \A r \in Receivers : loadPc[r] \in {"recv", "cloned"} /\ request[r] # <<>> =>
    /\ ipcPc[r] \in {"full", "last"}
    /\ \A i \in DOMAIN request[r][1].names : ipcBuf[r][i] = request[r][1].names[i]

\* If every subscription has reached the publisher before anything is announced (all a
\* barrier after connect() can hope for), every model eventually has all weights and its
\* sender has cleaned up ("weight not received", tests/checkpoint_engine/test_utils.py,
\* check_weights).  A receiver that joins later waits for ever for what it has missed.
Subscribed == op.state = "collective" => joined = Receivers
AllReceived ==
  []Subscribed =>
    \A r \in Receivers : <>(loadPc[r] = "done" /\ ipcPc[r] = "closed" /\ Len(loaded[r]) = NumWeights)
=============================================================================
