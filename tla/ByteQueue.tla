------------------------------ MODULE ByteQueue ------------------------------
(***************************************************************************)
(* What a user of csm-utilities/RingBuffer may rely on: a bounded FIFO of   *)
(* bytes.  A write appends all of its bytes or none, a consumer removes     *)
(* bytes from the front, and clear() forgets everything.                    *)
(***************************************************************************)
EXTENDS Naturals, Sequences

CONSTANTS
  Byte,        \* the values a byte can take
  Capacity     \* how many bytes the queue holds at most

VARIABLE queue \* the bytes written and not yet consumed, oldest first

Init == queue = << >>

Put == \E d \in UNION {[1 .. n -> Byte] : n \in 1 .. Capacity - Len(queue)} :
         queue' = queue \o d

Take == \E n \in 1 .. Len(queue) : queue' = SubSeq(queue, n + 1, Len(queue))

Reset == queue' = << >>

Next == Put \/ Take \/ Reset

Spec == Init /\ [][Next]_queue
=============================================================================
