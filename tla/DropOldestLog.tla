---------------------------- MODULE DropOldestLog ----------------------------
(***************************************************************************)
(* What the MessageQueue promises, without queues or conditions: a stream   *)
(* of positions of which the window head+1 .. tail is still held.  A reader *)
(* always takes position head+1; an append that would make the window       *)
(* larger than Cap gives up the oldest position, and only then.             *)
(***************************************************************************)
EXTENDS Naturals

CONSTANTS Cap, MaxTail
VARIABLES head, tail

Init == head = 0 /\ tail = 0

AppendNext ==
  /\ tail < MaxTail
  /\ tail' = tail + 1
  /\ head' = IF tail - head = Cap THEN head + 1 ELSE head

TakeOldest == head < tail /\ head' = head + 1 /\ UNCHANGED tail

Discard == head' = tail /\ UNCHANGED tail

Next == AppendNext \/ TakeOldest \/ Discard

Spec == Init /\ [][Next]_<<head, tail>>
=============================================================================
