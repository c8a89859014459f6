--------------------------- MODULE MCServerService ---------------------------
(* Instances of ServerService for TLC. *)
EXTENDS ServerService
CONSTANTS c1, c2
=============================================================================
