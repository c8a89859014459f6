----------------------------- MODULE MCReceive -----------------------------
(* What the peer sends in the runs of Receive. *)
EXTENDS Receive

Packet(n)  == [len |-> n, known |-> TRUE]
Unknown(n) == [len |-> n, known |-> FALSE]

\* Packets that fill the buffer, share it, have no payload, or are not known.
MixedPlans == { <<Packet(1), Packet(0), Packet(2)>>,
                <<Packet(1), Unknown(1), Packet(0)>> }

ShortPlans == { <<Packet(1), Packet(1), Packet(0)>> }
=============================================================================
