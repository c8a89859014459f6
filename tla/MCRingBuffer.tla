---- MODULE MCRingBuffer ----
(* RingBuffer with TLC. *)
EXTENDS RingBuffer
====
