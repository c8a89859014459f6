---------------------- MODULE MCDistanceVectorService ----------------------
(* A chain of three nodes, whose ends know of each other only by hearsay. *)
EXTENDS DistanceVectorService

MiddleFirst == <<2, 1, 3>>
Chain == {{1, 2}, {2, 3}}
Equal == [l \in Chain |-> 1]
=============================================================================
