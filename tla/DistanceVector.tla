--------------------------- MODULE DistanceVector ---------------------------
(***************************************************************************)
(* The routing table of one node (DistanceVector.cpp): what it knows of    *)
(* every target (m_dvInfos) and the last vector each neighbour sent        *)
(* (m_neighboursDVInfo).  A table is a value; the operations return the    *)
(* set of tables they may leave, because recomputeRoutesWithoutLock visits *)
(* the targets in the order of an unordered_set and its result depends on  *)
(* that order.                                                             *)
(*                                                                         *)
(* Node ids are numbers: the code compares them as strings, and all that   *)
(* matters of a string is its place in the order.                          *)
(***************************************************************************)
EXTENDS Integers, FiniteSets, FiniteSetsExt

CONSTANTS
    \* @c_invalidNodeId, the empty string: below every id of a node
    Invalid,
    \* @c_unreachableDistance
    Unreachable

ASSUME DistanceAssumption == Unreachable \in Nat

NoVector == [t \in {} |-> Unreachable]

NodeInfo(n, d) == [nextHop |-> n, distance |-> d]

\* The constructor enters itself under the id it has just moved from, so
\* the entry at distance 0 belongs to the invalid id, not to the node.
Table(self, neighbours) ==
    [self      |-> self,
     dvInfos   |-> [t \in neighbours \cup {Invalid} |->
                      NodeInfo(Invalid, IF t = Invalid THEN 0 ELSE Unreachable)],
     neighboursDVInfo |-> [n \in neighbours |-> NoVector]]

Neighbours(dv) == DOMAIN dv.neighboursDVInfo

AddDistance(a, b) ==
    IF a >= Unreachable \/ b >= Unreachable \/ a + b > Unreachable
    THEN Unreachable ELSE a + b

-----------------------------------------------------------------------------
(***************************************************************************)
(* recomputeRoutesWithoutLock                                              *)
(***************************************************************************)

Targets(dv) ==
    DOMAIN dv.dvInfos \cup Neighbours(dv)
      \cup UNION {DOMAIN dv.neighboursDVInfo[n] : n \in Neighbours(dv)}

\* What the table holds as the cost of the link to a neighbour: the entry of
\* the neighbour as a target, which a cheaper way round overwrites.
LinkDistance(dv, n) == dv.dvInfos[n].distance

\* The neighbours that are not skipped.
Usable(dv, n) ==
    /\ n \in DOMAIN dv.dvInfos
    /\ LinkDistance(dv, n) < Unreachable

\* The distance to t by way of n.
DistanceBy(dv, n, t) ==
    IF n = t THEN LinkDistance(dv, n)
    ELSE IF t \in DOMAIN dv.neighboursDVInfo[n]
         THEN AddDistance(LinkDistance(dv, n), dv.neighboursDVInfo[n][t])
         ELSE Unreachable

\* Mutant: a neighbour without a way to the target is a way.
BestRouteUnchecked(dv, t) ==
    LET ways == {n \in Neighbours(dv) : Usable(dv, n)}
        d    == Min({DistanceBy(dv, n, t) : n \in ways})
    IN  IF ways = {} THEN NodeInfo(Invalid, Unreachable)
        ELSE NodeInfo(Min({n \in ways : DistanceBy(dv, n, t) = d}), d)

\* Mutant: of equally near ways the last one tried.
BestRouteHighestId(dv, t) ==
    LET ways == {n \in Neighbours(dv) :
                   Usable(dv, n) /\ DistanceBy(dv, n, t) < Unreachable}
        d    == Min({DistanceBy(dv, n, t) : n \in ways})
    IN  IF ways = {} THEN NodeInfo(Invalid, Unreachable)
        ELSE NodeInfo(Max({n \in ways : DistanceBy(dv, n, t) = d}), d)

\* The nearest way, and of equally near ones the neighbour with the lowest id.
BestRoute(dv, t) ==
    LET ways == {n \in Neighbours(dv) :
                   Usable(dv, n) /\ DistanceBy(dv, n, t) < Unreachable}
        d    == Min({DistanceBy(dv, n, t) : n \in ways})
    IN  IF ways = {} THEN NodeInfo(Invalid, Unreachable)
        ELSE NodeInfo(Min({n \in ways : DistanceBy(dv, n, t) = d}), d)

\* The map with x under t, which may be a new key.
Put(f, t, x) == [u \in DOMAIN f \cup {t} |-> IF u = t THEN x ELSE f[u]]

Relax(dv, t) == [dv EXCEPT !.dvInfos = Put(@, t, BestRoute(dv, t))]

RelaxedOnce(w) == {[dv |-> Relax(w.dv, t), left |-> w.left \ {t}] : t \in w.left}

\* What is left to do and what has come of it, after each number of
\* relaxations in some order.
Relaxations(dv) ==
    LET after[k \in 0..Cardinality(Targets(dv))] ==
          IF k = 0 THEN {[dv |-> dv, left |-> Targets(dv)]}
          ELSE UNION {RelaxedOnce(w) : w \in after[k - 1]}
    IN  after

\* Only the entries of neighbours are used for other entries: the order of
\* the targets matters when one of those is going to change.
OrderMatters(dv) ==
    \E t \in Neighbours(dv) : t \notin DOMAIN dv.dvInfos \/ BestRoute(dv, t) # dv.dvInfos[t]

\* One relaxation per target, in any order.
Recomputed(dv) ==
    IF OrderMatters(dv) THEN {w.dv : w \in Relaxations(dv)[Cardinality(Targets(dv))]}
    ELSE {[dv EXCEPT !.dvInfos = [t \in Targets(dv) |-> BestRoute(dv, t)]]}

-----------------------------------------------------------------------------
(***************************************************************************)
(* The operations.  A result is the new table and the returned value.      *)
(***************************************************************************)

Result(dv, returns) == [dv |-> dv, returns |-> returns]

Rejected(dv, peer) == peer = dv.self \/ peer = Invalid

\* A neighbour that cannot be reached any more takes its vector with it.
SetLink(dv, peer, d) ==
    IF d >= Unreachable
    THEN [dv EXCEPT !.dvInfos[peer] = NodeInfo(Invalid, d),
                    !.neighboursDVInfo = Put(@, peer, NoVector)]
    ELSE [dv EXCEPT !.dvInfos[peer] = NodeInfo(peer, d)]

\* Mutant: only a change of the link itself is told to the caller.
UpdateLinkOnly(dv, peer, d) ==
    IF Rejected(dv, peer) \/ peer \notin DOMAIN dv.dvInfos
    THEN {Result(dv, FALSE)}
    ELSE {Result(new, dv.dvInfos[peer].distance # d) : new \in Recomputed(SetLink(dv, peer, d))}

UpdateNeighbourDistance(dv, peer, d) ==
    IF Rejected(dv, peer) \/ peer \notin DOMAIN dv.dvInfos
    THEN {Result(dv, FALSE)}
    ELSE LET direct == dv.dvInfos[peer] # NodeInfo(peer, d)
             linked == IF direct THEN SetLink(dv, peer, d) ELSE dv
         IN  {Result(new, direct \/ new.dvInfos # linked.dvInfos) :
                new \in Recomputed(linked)}

\* The vector is a set of pairs: of two for the same target the nearer counts.
VectorOf(dv, pairs) ==
    [t \in {p[1] : p \in pairs} \ {dv.self} |-> Min({p[2] : p \in {q \in pairs : q[1] = t}})]

UpdateDvInfos(dv, peer, pairs) ==
    IF Rejected(dv, peer) \/ peer \notin Neighbours(dv) \/ peer \notin DOMAIN dv.dvInfos
    THEN {Result(dv, FALSE)}
    ELSE LET heard == [dv EXCEPT !.neighboursDVInfo[peer] = VectorOf(dv, pairs)]
         IN  {Result(new, new.dvInfos # dv.dvInfos) : new \in Recomputed(heard)}

\* Mutant: no poison reverse.
AdvertisedToAll(info, peer) == info.distance

\* Poison reverse: a route through the peer is told to the peer as no route.
Advertised(info, peer) ==
    IF info.nextHop = peer THEN Unreachable ELSE info.distance

DvInfo(dv, peer) ==
    IF peer = dv.self THEN {}
    ELSE {<<t, Advertised(dv.dvInfos[t], peer)>> : t \in DOMAIN dv.dvInfos \ {peer}}

=============================================================================
