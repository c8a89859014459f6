---------------------------- MODULE PacketChannel ----------------------------
(***************************************************************************)
(* What a caller of SlaveReactor::sendData may rely on: its packets leave   *)
(* in the order they were accepted, each as one piece.  A packet may be     *)
(* dropped, but only as a whole, and a channel that is broken promises      *)
(* nothing more.                                                            *)
(*                                                                         *)
(* SlaveReactor.h:60 promises more: that a packet without room is refused   *)
(* with -1, for the caller to try again.  The code accepts it and drops it  *)
(* later, and so may the channel.                                           *)
(***************************************************************************)
EXTENDS Naturals, Sequences

CONSTANT
  Packets      \* the byte strings the k-th packet may be, by k

VARIABLES
  accepted,    \* how many packets have been accepted
  queue,       \* those that have not left or been dropped, oldest first
  stream,      \* every byte that has left
  broken       \* the channel has torn a packet, or its process has ended

vars == <<accepted, queue, stream, broken>>

Init == accepted = 0 /\ queue = << >> /\ stream = << >> /\ broken = FALSE

Accept ==
  /\ ~broken /\ accepted + 1 \in DOMAIN Packets
  /\ accepted' = accepted + 1
  /\ \E packet \in Packets[accepted + 1] : queue' = Append(queue, packet)
  /\ UNCHANGED <<stream, broken>>

Leave ==
  /\ ~broken /\ queue # << >>
  /\ stream' = stream \o Head(queue) /\ queue' = Tail(queue)
  /\ UNCHANGED <<accepted, broken>>

Drop ==
  /\ ~broken /\ queue # << >>
  /\ queue' = Tail(queue)
  /\ UNCHANGED <<accepted, stream, broken>>

Break ==
  /\ broken' = TRUE
  /\ accepted' = 0 /\ queue' = << >> /\ stream' = << >>

Next == Accept \/ Leave \/ Drop \/ Break

Spec == Init /\ [][Next]_vars
=============================================================================
