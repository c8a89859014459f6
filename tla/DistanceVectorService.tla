----------------------- MODULE DistanceVectorService -----------------------
(***************************************************************************)
(* The nodes of a cluster that probe each other and exchange distance      *)
(* vectors (DistanceVectorService.cpp).  Each node has one worker thread   *)
(* that again and again probes the neighbours, sends its vector and takes  *)
(* an event from its queue.                                                *)
(*                                                                         *)
(* Of the probes the model keeps what they do to the table: a reply that   *)
(* is counted, and a neighbour that has left too many unanswered, at any   *)
(* moment its session has ended or its replies are late.  Such a neighbour *)
(* is not probed any more, and answers no more, unless replies to earlier  *)
(* probes still wait in the queue.                                         *)
(*                                                                         *)
(* The vectors of a neighbour are handled one by one and in order; the one *)
(* queue of the code is a queue for each neighbour, and an iteration takes *)
(* its event from any of them: every order the arrivals can have.  Nothing *)
(* is said of when a vector is handled.                                    *)
(***************************************************************************)
EXTENDS DistanceVector, Sequences

CONSTANTS
    Node,      \* the ids of the cluster's servers
    Links,     \* the pairs of nodes that can have a session with each other
    Cost,      \* of a link: the distance a probe measures
    ProbeOrder, \* the order of the servers in the nodes' maps
    MaxVectors, \* bound: vectors that wait for a node
    MaxChanges \* bound: sessions that end, and replies that come too late

ASSUME NodeAssumption ==
    /\ Node \subseteq Nat /\ IsFiniteSet(Node)
    /\ \A n \in Node : n > Invalid
    /\ ProbeOrder \in Seq(Node)
ASSUME CostAssumption == \A l \in Links : Cost[l] \in 1..(Unreachable - 1)

VARIABLES
    table,   \* m_distanceVector of each node
    silent,  \* the neighbours each node does not probe any more
    told,    \* m_isEventTriggerDistanceVectorBoardcast of each node
    vectors, \* those a node has still to take from its queue, by source
    up,      \* the links whose session exists
    changes

vars == <<table, silent, told, vectors, up, changes>>

\* The neighbours are all servers of the configuration, the node included.  The
\* first probes to those it never has a session with are over.
Init ==
    /\ table = [n \in Node |-> Table(n, Node)]
    /\ silent = [n \in Node |-> {p \in Node : {n, p} \notin Links}]
    /\ told = [n \in Node |-> FALSE]
    /\ vectors = [n \in Node |-> [p \in Node |-> <<>>]]
    /\ up = Links
    /\ changes = 0

Connected(n, p) == {n, p} \in up

Finite(info) == info.distance < Unreachable

Tables(results) == {o.dv : o \in results}

-----------------------------------------------------------------------------
(***************************************************************************)
(* The loop of the worker thread: probe, send, take an event.              *)
(***************************************************************************)

\* What does not fit the session counts as a change.
Judged(fits) ==
    \/ fits /\ UNCHANGED changes
    \/ ~fits /\ changes < MaxChanges /\ changes' = changes + 1

\* Mutant: the changed copy of the table is not stored.
ProbedUnstored(tables, p, lost) == tables

\* What becomes of the possible tables when the loop comes to neighbour p.
Probed(tables, p, lost) ==
    IF p \in lost
    THEN UNION {Tables(UpdateNeighbourDistance(dv, p, Unreachable)) : dv \in tables}
    ELSE tables

\* The loop ends where a probe finds no session.
Reaches(n, lost, k) ==
    \A j \in 1..(k - 1) : ProbeOrder[j] \in lost \/ Connected(n, ProbeOrder[j])

ProbedInTurn(n, lost, k, tables) ==
    IF Reaches(n, lost, k) THEN Probed(tables, ProbeOrder[k], lost) ELSE tables

\* The neighbours that owe too many replies become unreachable.
TablesWithout(n, lost) ==
    LET after[k \in 0..Len(ProbeOrder)] ==
          IF k = 0 THEN {table[n]} ELSE ProbedInTurn(n, lost, k, after[k - 1])
    IN  after[Len(ProbeOrder)]

\* A neighbour whose session has ended leaves the last probe unanswered.
GiveUp(n, p) ==
    /\ ~Connected(n, p) /\ p \notin silent[n]
    /\ \E k \in DOMAIN ProbeOrder : ProbeOrder[k] = p /\ Reaches(n, silent[n], k)
    /\ silent' = [silent EXCEPT ![n] = @ \cup {p}]
    /\ \E dv \in TablesWithout(n, silent'[n]) : table' = [table EXCEPT ![n] = dv]
    /\ UNCHANGED <<told, vectors, up, changes>>

\* A neighbour is given up while its replies wait in the queue.
GiveUpLate(n, p) ==
    /\ p \notin silent[n]
    /\ Judged(FALSE)
    /\ \E dv \in TablesWithout(n, silent[n] \cup {p}) : table' = [table EXCEPT ![n] = dv]
    /\ UNCHANGED <<silent, told, vectors, up>>

Waiting(n) == UNION {{p} \X DOMAIN vectors[n][p] : p \in Node}

\* sendDistanceVector: every neighbour with a session gets the vector, in each
\* iteration once there has been a change: the flag is never reset.  The sender
\* fails where there is no session or, which is how the bound shows, no room.
Sent(n, dv) ==
    [p \in Node |-> IF Connected(n, p) /\ told[n] /\ Cardinality(Waiting(p)) < MaxVectors
                    THEN [vectors[p] EXCEPT ![n] = Append(@, DvInfo(dv, p))]
                    ELSE vectors[p]]

\* What the event taken from the queue does to the table.
Handled(dv, n, event, p) ==
    CASE event = "none"   -> {Result(dv, FALSE)}
      [] event = "reply"  -> UpdateNeighbourDistance(dv, p, Cost[{n, p}])
      [] event = "vector" -> UpdateDvInfos(dv, p, Head(vectors[n][p]))

\* An iteration that probes, sends, takes an event and leaves the others.  Bound:
\* every iteration probes; in the code every second one does, for the interval
\* of the probes is that of the thread.
Round(n, event, p, left) ==
    \E dv \in TablesWithout(n, silent[n]) :
      /\ \E o \in Handled(dv, n, event, p) :
           /\ table' = [table EXCEPT ![n] = o.dv]
           /\ told' = [told EXCEPT ![n] = @ \/ o.returns]
      /\ vectors' = [Sent(n, dv) EXCEPT ![n] = left]
      /\ UNCHANGED <<silent, up>>

\* An iteration that finds the queue empty.
RoundIdle(n) ==
    /\ \A p \in Node : vectors[n][p] = <<>>
    /\ Round(n, "none", n, vectors[n])
    /\ UNCHANGED changes

\* handleDistanceDetectReply, for a reply newer than those counted before.  One
\* that has waited for longer than the session existed counts as a change.
RoundReply(n, p) ==
    /\ p \notin silent[n]
    /\ Judged(Connected(n, p))
    /\ Round(n, "reply", p, vectors[n])

\* handleDistanceVector: every vector a neighbour has sent is handled, in order.
RoundVector(n, p) ==
    /\ vectors[n][p] # <<>>
    /\ Round(n, "vector", p, [vectors[n] EXCEPT ![p] = Tail(@)])
    /\ UNCHANGED changes

\* A session ends, or comes back.  What has arrived before stays.
LinkDown(l) ==
    /\ l \in up
    /\ changes < MaxChanges
    /\ changes' = changes + 1
    /\ up' = up \ {l}
    /\ UNCHANGED <<table, silent, told, vectors>>

LinkUp(l) ==
    /\ l \notin up
    /\ up' = up \cup {l}
    /\ UNCHANGED <<table, silent, told, vectors, changes>>

Next ==
    \/ \E n \in Node : RoundIdle(n)
    \/ \E n, p \in Node : GiveUp(n, p) \/ GiveUpLate(n, p) \/ RoundReply(n, p) \/ RoundVector(n, p)
    \/ \E l \in Links : LinkDown(l) \/ LinkUp(l)

Spec == Init /\ [][Next]_vars

-----------------------------------------------------------------------------
(***************************************************************************)
(* Properties                                                              *)
(***************************************************************************)

\* Every entry a worker has computed is a route through another node of the
\* cluster or says unreachable in both fields (DistanceVector.cpp:254).
TypeOK ==
    /\ \A n \in Node : LET dv == table[n] IN
         /\ Neighbours(dv) = Node
         /\ DOMAIN dv.dvInfos = Node \cup {Invalid}
         /\ \A t \in Node : LET info == dv.dvInfos[t] IN
              \/ Finite(info) /\ info.nextHop \in Node \ {n} /\ info.distance > 0
              \/ info = NodeInfo(Invalid, Unreachable)
    /\ up \subseteq Links

CurrentVector(p, n) == VectorOf(table[n], DvInfo(table[p], n))

\* A node that has p's latest vector never routes to a target through p
\* while p routes to that target through the node (DistanceVector.cpp:160).
NoMutualRoute ==
    \A n, p \in Node : \A t \in Node \ {n, p} :
      /\ n # p
      /\ table[n].neighboursDVInfo[p] = CurrentVector(p, n)
      => ~ (table[n].dvInfos[t].nextHop = p /\ table[p].dvInfos[t].nextHop = n)

\* A neighbour that was given up is not probed when its session is back.
Answers(n, p) == Connected(n, p) /\ p \notin silent[n]

\* Reference: the length of the shortest path from neighbour to neighbour.
ShortestPath(n, t) ==
    LET within[k \in 0..Cardinality(Node), x \in Node] ==
          IF x = t THEN 0
          ELSE IF k = 0 THEN Unreachable
          ELSE Min({Unreachable} \cup
                 {AddDistance(Cost[{x, p}], within[k - 1, p]) : p \in {q \in Node : Answers(x, q)}})
    IN  within[Cardinality(Node), n]

DistancesAreShortest ==
    \A n \in Node : \A t \in Node \ {n} : table[n].dvInfos[t].distance = ShortestPath(n, t)

DistancesIn(dv) == [t \in Node |-> dv.dvInfos[t].distance]

\* No node has anything to learn: every lost neighbour is given up, the vector
\* a neighbour would send now is the one the node has, and a round changes no
\* distance, be it without an event or with a reply.
Settled ==
    /\ \A n, p \in Node : Connected(n, p) \/ p \in silent[n]
    /\ \A n, p \in Node : Answers(n, p) => table[n].neighboursDVInfo[p] = CurrentVector(p, n)
    /\ \A n \in Node : \A dv \in TablesWithout(n, silent[n]) :
         /\ DistancesIn(dv) = DistancesIn(table[n])
         /\ \A p \in Node : Answers(n, p) =>
              \A o \in UpdateNeighbourDistance(dv, p, Cost[{n, p}]) :
                DistancesIn(o.dv) = DistancesIn(table[n])

\* When the nodes have nothing more to tell each other their distances are
\* those of the shortest paths over the neighbours that are still probed: no
\* route of a link that is gone survives as hearsay, and none is missed
\* (DistanceVectorService.cpp:247-265).
SettledIsShortest == Settled => DistancesAreShortest

\* No route leads through a neighbour that has never answered: recomputing
\* skips the neighbours that cannot be reached (DistanceVector.cpp:60).
UnreachableIsSkipped ==
    \A n, p, t \in Node :
      n # p /\ {n, p} \notin Links => table[n].dvInfos[t].nextHop # p

=============================================================================
