---- MODULE MCHandshake ----
(* Instances of Handshake for TLC: who lists whom in nodes.json, and how    *)
(* many faults of each kind happen.                                         *)
EXTENDS Handshake

Both        == [n \in {1, 2} |-> {1, 2} \ {n}]                   \* each lists the other
BothAndSelf == [n \in {1, 2} |-> IF n = 1 THEN {1, 2} ELSE {1}]  \* and 1 lists itself

NoFault    == [k \in FaultKind |-> 0]
OneRefused == [k \in FaultKind |-> IF k = "refused" THEN 1 ELSE 0]
LossFaults == [k \in FaultKind |-> IF k = "refused" THEN 0 ELSE 1]
====
