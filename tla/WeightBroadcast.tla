--------------------------- MODULE WeightBroadcast ---------------------------
(***************************************************************************)
(* NCCLCheckpointEngine.send_weights and receive_weights                   *)
(* (checkpoint_engine/nccl_checkpoint_engine.py): rank 0 packs the weights *)
(* into buckets and broadcasts them while it fills the other buffer; every *)
(* receiver joins the broadcast of the next bucket before it yields the    *)
(* tensors of the last one, views of its own other buffer.  The metadata   *)
(* of a bucket goes over ZeroMQ PUB/SUB, its bytes over a collective       *)
(* broadcast, both in an executor thread.                                  *)
(***************************************************************************)
EXTENDS Naturals, Sequences, FiniteSets

CONSTANTS
  Receivers,    \* ranks 1 .. world_size - 1
  Size,         \* nbytes of the weights, in the order of the generator
  BucketSize,
  SlowJoin      \* the subscription may reach the publisher after the barrier

NumWeights == Len(Size)
Weights == 1 .. NumWeights

ASSUME TransferAssumption ==
  /\ Size \in Seq(Nat \ {0}) /\ BucketSize \in Nat
  /\ \A n \in Weights : Size[n] <= BucketSize
  /\ SlowJoin \in BOOLEAN

\* A buffer is a sequence of tensors: the n-th tensor of a bucket is at the n-th offset.
Slots == 1 .. NumWeights
Empty == [i \in Slots |-> 0]
Cells == {1, 2}
Other(c) == 3 - c
OpState == {"none", "meta", "collective", "done"}

VARIABLES
  sent,      \* weights packed so far
  offset, bucketMeta,   \* of the bucket being filled: bytes, names
  sendCell,  \* the buffer being filled
  sendBuf,   \* both buffers of rank 0
  op,        \* rank 0's BroadcastOperation: its state, buffer and metadata
  opCount,   \* operations rank 0 has started
  joined,    \* receivers whose subscription the publisher knows
  published, \* metadata on its way to each receiver
  recvOp,    \* a receiver's operation
  recvCount, \* broadcasts a receiver has taken part in
  recvCell,  \* recv_buf; send_buf is the other one
  recvBuf,
  metadata,  \* of the receiver's last operation
  current,   \* the metadata whose tensors it yields
  yielded    \* how many of them

senderVars == <<sent, offset, bucketMeta, sendCell, sendBuf, op, opCount>>
receiverVars == <<recvOp, recvCount, recvCell, recvBuf, metadata, current, yielded>>
broadcastVars == <<senderVars, joined, published, receiverVars>>

NoMeta == [names |-> <<>>, is_last |-> FALSE]

BroadcastInit ==
  /\ sent = 0 /\ offset = 0 /\ bucketMeta = <<>> /\ sendCell = 1
  /\ sendBuf = [c \in Cells |-> Empty]
  /\ op = [state |-> "none", cell |-> 1, meta |-> NoMeta] /\ opCount = 0
  /\ joined = IF SlowJoin THEN {} ELSE Receivers
  /\ published = [r \in Receivers |-> <<>>]
  /\ recvOp = [r \in Receivers |-> "none"] /\ recvCount = [r \in Receivers |-> 0]
  /\ recvCell = [r \in Receivers |-> 2]
  /\ recvBuf = [r \in Receivers |-> [c \in Cells |-> Empty]]
  /\ metadata = [r \in Receivers |-> NoMeta]
  /\ current = [r \in Receivers |-> NoMeta]
  /\ yielded = [r \in Receivers |-> 0]
-----------------------------------------------------------------------------
Fits == offset + Size[sent + 1] <= BucketSize

PackWeight ==
  /\ sent < NumWeights /\ op.meta.is_last = FALSE /\ Fits
  /\ sent' = sent + 1 /\ offset' = offset + Size[sent + 1]
  /\ bucketMeta' = Append(bucketMeta, sent + 1)
  /\ sendBuf' = [sendBuf EXCEPT ![sendCell][Len(bucketMeta) + 1] = sent + 1]
  /\ UNCHANGED <<sendCell, op, opCount, joined, published, receiverVars>>

StartBroadcast(is_last) ==
  /\ op.state \in {"none", "done"}   \* wait_for_complete of the previous one
  /\ op' = [state |-> "meta", cell |-> sendCell,
            meta |-> [names |-> bucketMeta, is_last |-> is_last]]
  /\ opCount' = opCount + 1

\* The next weight does not fit: broadcast the bucket and swap the buffers.
SendBucket ==
  /\ sent < NumWeights /\ ~Fits /\ StartBroadcast(FALSE)
  /\ sendCell' = Other(sendCell) /\ bucketMeta' = <<>> /\ offset' = 0
  /\ UNCHANGED <<sent, sendBuf, joined, published, receiverVars>>

SendLast ==
  /\ sent = NumWeights /\ ~op.meta.is_last /\ StartBroadcast(TRUE)
  /\ UNCHANGED <<sent, offset, bucketMeta, sendCell, sendBuf, joined, published, receiverVars>>

\* ZeroMQ drops what is published before a subscription is known.
Publish ==
  /\ op.state = "meta" /\ op' = [op EXCEPT !.state = "collective"]
  /\ published' = [r \in Receivers |->
                     IF r \in joined THEN Append(published[r], op.meta) ELSE published[r]]
  /\ UNCHANGED <<sent, offset, bucketMeta, sendCell, sendBuf, opCount, joined, receiverVars>>

Join(r) ==
  /\ r \notin joined /\ joined' = joined \cup {r}
  /\ UNCHANGED <<senderVars, published, receiverVars>>

ReceiveMeta(r) ==
  /\ recvOp[r] = "meta" /\ published[r] # <<>>
  /\ recvOp' = [recvOp EXCEPT ![r] = "collective"]
  /\ metadata' = [metadata EXCEPT ![r] = Head(published[r])]
  /\ published' = [published EXCEPT ![r] = Tail(@)]
  /\ UNCHANGED <<senderVars, joined, recvCount, recvCell, recvBuf, current, yielded>>

\* Rank 0 and the receiver are both in the collective: the bytes arrive.
ReceiveBucket(r) ==
  /\ op.state = "collective" /\ recvOp[r] = "collective" /\ recvCount[r] < opCount
  /\ recvBuf' = [recvBuf EXCEPT ![r][recvCell[r]] = sendBuf[op.cell]]
  /\ recvOp' = [recvOp EXCEPT ![r] = "done"]
  /\ recvCount' = [recvCount EXCEPT ![r] = @ + 1]
  /\ UNCHANGED <<senderVars, joined, published, recvCell, metadata, current, yielded>>

BroadcastCompletes ==
  /\ op.state = "collective" /\ \A r \in Receivers : recvCount[r] = opCount
  /\ op' = [op EXCEPT !.state = "done"]
  /\ UNCHANGED <<sent, offset, bucketMeta, sendCell, sendBuf, opCount, joined, published, receiverVars>>

Sender == PackWeight \/ SendBucket \/ SendLast \/ Publish \/ BroadcastCompletes
-----------------------------------------------------------------------------
(* What the generator receive_weights does when its consumer asks for more. *)

FirstBucket(r) ==
  /\ recvOp[r] = "none" /\ recvOp' = [recvOp EXCEPT ![r] = "meta"]
  /\ UNCHANGED <<senderVars, joined, published, recvCount, recvCell, recvBuf, metadata,
                 current, yielded>>

HasTensor(r) == yielded[r] < Len(current[r].names)

\* The bucket is here: swap the buffers and join the next broadcast, if there is one.
NextBucket(r) ==
  /\ ~HasTensor(r) /\ ~current[r].is_last /\ recvOp[r] = "done"
  /\ recvCell' = [recvCell EXCEPT ![r] = Other(@)]
  /\ current' = [current EXCEPT ![r] = metadata[r]]
  /\ yielded' = [yielded EXCEPT ![r] = 0]
  /\ recvOp' = [recvOp EXCEPT ![r] = IF metadata[r].is_last THEN "done" ELSE "meta"]
  /\ UNCHANGED <<senderVars, joined, published, recvCount, recvBuf, metadata>>

\* The next tensor: its name, and the place it is a view of.
NextName(r) == current[r].names[yielded[r] + 1]
View(r) == [cell |-> Other(recvCell[r]), slot |-> yielded[r] + 1]
Yielded(r) ==
  /\ yielded' = [yielded EXCEPT ![r] = @ + 1]
  /\ UNCHANGED <<senderVars, joined, published, recvOp, recvCount, recvCell, recvBuf,
                 metadata, current>>

Exhausted(r) == current[r].is_last /\ ~HasTensor(r)
=============================================================================
