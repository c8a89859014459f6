----------------------- MODULE DistanceVectorProofs -----------------------
(***************************************************************************)
(* For every set of nodes, links and costs, every order of probes and any  *)
(* number of sessions that end: the workers' tables have only entries that *)
(* lead through another node or nowhere, and two nodes with each other's   *)
(* latest vectors never route to a target through each other.              *)
(***************************************************************************)
EXTENDS DistanceVectorService, FiniteSetTheorems, SetInduction

\* The targets a table of the cluster can have an entry for.
Target == Node \cup {Invalid}

Infos == [nextHop : Target, distance : Nat]

\* What a neighbour has told.
Heard == UNION {[S -> Nat] : S \in SUBSET Target}

AnyTable == [self : Node, dvInfos : [Target -> Infos], neighboursDVInfo : [Node -> Heard]]

\* A route through another node, or none.
GoodInfo(n, info) ==
  \/ Finite(info) /\ info.nextHop \in Node \ {n} /\ info.distance > 0
  \/ info = NodeInfo(Invalid, Unreachable)

\* No node has a route to itself, nor listens to what others say of it.
OfOthers(n, dv) ==
  /\ dv.dvInfos[n] = NodeInfo(Invalid, Unreachable)
  /\ \A p \in Node : n \notin DOMAIN dv.neighboursDVInfo[p]

\* The tables node n can have, within an operation as well.
TableOf(n) ==
  {dv \in AnyTable : /\ dv.self = n
                     /\ \A t \in Node : GoodInfo(n, dv.dvInfos[t])
                     /\ OfOthers(n, dv)}

\* An entry through p other than that of p itself is one p has told of.
Backing(dv, info, t) ==
  \A p \in Node \ {t} :
    info.nextHop = p => /\ t \in DOMAIN dv.neighboursDVInfo[p]
                        /\ dv.neighboursDVInfo[p][t] < Unreachable
Backed(dv, t) == Backing(dv, dv.dvInfos[t], t)

\* The tables node n can have between two operations.
RoutedOf(n) == {dv \in TableOf(n) : \A t \in Target : Backed(dv, t)}

Pairs == SUBSET (Target \X Nat)

\* The inductive invariant.
IInv ==
  /\ table \in [Node -> AnyTable]
  /\ \A n \in Node : table[n] \in RoutedOf(n)
  /\ silent \in [Node -> SUBSET Node]
  /\ \A n, p \in Node : {n, p} \notin Links => p \in silent[n]
  /\ vectors \in [Node -> [Node -> Seq(Pairs)]]
  /\ up \subseteq Links

-----------------------------------------------------------------------------
(* Tables.                                                                 *)

LEMMA Constants ==
  /\ Unreachable \in Nat /\ Node \subseteq Nat /\ Invalid \notin Node
  /\ \A n \in Node : n \in Nat /\ n # Invalid
<1>1. \A n \in Node : n \in Nat /\ n > Invalid
  BY NodeAssumption
<1>2. ASSUME Invalid \in Node PROVE FALSE
  BY <1>1, <1>2
<1> QED
  BY <1>1, <1>2, NodeAssumption, DistanceAssumption

\* What has been heard is a function from targets to distances.
LEMMA HeardIs ==
  \A v : v \in Heard <=> DOMAIN v \subseteq Target /\ v \in [DOMAIN v -> Nat]
<1>1. ASSUME NEW v \in Heard PROVE DOMAIN v \subseteq Target /\ v \in [DOMAIN v -> Nat]
  BY DEF Heard
<1>2. ASSUME NEW v, DOMAIN v \subseteq Target, v \in [DOMAIN v -> Nat] PROVE v \in Heard
  BY <1>2, Zenon DEF Heard
<1> QED
  BY <1>1, <1>2

LEMMA NoVectorHeard == NoVector \in Heard /\ DOMAIN NoVector = {}
<1>1. DOMAIN NoVector = {} /\ NoVector \in [DOMAIN NoVector -> Nat]
  BY DEF NoVector
<1> QED
  BY <1>1, HeardIs

\* The parts of a table.
LEMMA TableFacts ==
  ASSUME NEW n, NEW dv \in TableOf(n)
  PROVE  /\ n \in Node /\ dv.self = n
         /\ dv.dvInfos \in [Target -> Infos]
         /\ dv.neighboursDVInfo \in [Node -> Heard]
         /\ \A t \in Node : GoodInfo(n, dv.dvInfos[t])
         /\ dv.dvInfos[n] = NodeInfo(Invalid, Unreachable)
         /\ \A p \in Node : /\ n \notin DOMAIN dv.neighboursDVInfo[p]
                            /\ DOMAIN dv.neighboursDVInfo[p] \subseteq Target
                            /\ \A t \in DOMAIN dv.neighboursDVInfo[p] :
                                 dv.neighboursDVInfo[p][t] \in Nat
<1>1. dv \in AnyTable /\ dv.self = n /\ (\A t \in Node : GoodInfo(n, dv.dvInfos[t]))
      /\ OfOthers(n, dv)
  BY Zenon DEF TableOf
<1>2. dv.self \in Node /\ dv.dvInfos \in [Target -> Infos]
      /\ dv.neighboursDVInfo \in [Node -> Heard]
  BY <1>1 DEF AnyTable
<1>3. ASSUME NEW p \in Node
      PROVE  /\ DOMAIN dv.neighboursDVInfo[p] \subseteq Target
             /\ \A t \in DOMAIN dv.neighboursDVInfo[p] : dv.neighboursDVInfo[p][t] \in Nat
  <2>1. dv.neighboursDVInfo[p] \in Heard
    BY <1>2
  <2> QED
    BY <2>1, HeardIs
<1> QED
  BY <1>1, <1>2, <1>3 DEF OfOthers

\* What is needed for a table of n.
LEMMA IsTable ==
  ASSUME NEW n \in Node, NEW infos \in [Target -> Infos], NEW heard \in [Node -> Heard],
         NEW dv, dv = [self |-> n, dvInfos |-> infos, neighboursDVInfo |-> heard],
         \A t \in Node : GoodInfo(n, infos[t]),
         infos[n] = NodeInfo(Invalid, Unreachable),
         \A p \in Node : n \notin DOMAIN heard[p]
  PROVE  dv \in TableOf(n)
<1>1. dv \in AnyTable
  BY DEF AnyTable
<1>2. dv.self = n /\ dv.dvInfos = infos /\ dv.neighboursDVInfo = heard
  OBVIOUS
<1>3. (\A t \in Node : GoodInfo(n, dv.dvInfos[t])) /\ OfOthers(n, dv)
  BY <1>2, Zenon DEF OfOthers
<1> QED
  BY <1>1, <1>2, <1>3, Zenon DEF TableOf

LEMMA NoRoute ==
  /\ NodeInfo(Invalid, Unreachable) \in Infos
  /\ NodeInfo(Invalid, Unreachable).nextHop = Invalid
  /\ NodeInfo(Invalid, Unreachable).distance = Unreachable
  /\ ~ Finite(NodeInfo(Invalid, Unreachable))
  BY Constants DEF NodeInfo, Infos, Target, Finite

-----------------------------------------------------------------------------
(* Recomputing.                                                            *)

LEMMA LeastIs ==
  ASSUME NEW S, S \subseteq Nat, S # {}
  PROVE  Min(S) \in S /\ \A x \in S : Min(S) <= x
<1>1. \E m \in S : \A x \in S : m <= x
  BY LeastNatural
<1> QED
  BY <1>1, Zenon DEF Min

LEMMA SumIs ==
  ASSUME NEW a \in Nat, NEW b \in Nat
  PROVE  /\ AddDistance(a, b) \in Nat
         /\ AddDistance(a, b) < Unreachable =>
              a < Unreachable /\ b < Unreachable /\ AddDistance(a, b) = a + b
  BY Constants DEF AddDistance

\* The neighbours a route can go through, and their distances.
LEMMA WayIs ==
  ASSUME NEW n, NEW dv \in TableOf(n), NEW t \in Target, NEW p \in Node, Usable(dv, p)
  PROVE  /\ p # n
         /\ DistanceBy(dv, p, t) \in Nat
         /\ DistanceBy(dv, p, t) < Unreachable =>
              /\ DistanceBy(dv, p, t) > 0
              /\ t # n
              /\ p # t => /\ t \in DOMAIN dv.neighboursDVInfo[p]
                          /\ dv.neighboursDVInfo[p][t] < Unreachable
<1> DEFINE link == dv.dvInfos[p].distance
           told1 == dv.neighboursDVInfo[p]
<1>1. link < Unreachable
  BY DEF Usable, LinkDistance
<1>2. p \in Target /\ dv.dvInfos[p] \in Infos
  BY TableFacts DEF Target
<1>3. link \in Nat
  BY <1>2 DEF Infos
<1>4. p # n
  BY <1>1, TableFacts, NoRoute, Constants
<1>5. link > 0
  <2>1. GoodInfo(n, dv.dvInfos[p])
    BY TableFacts
  <2> QED
    BY <2>1, <1>1, <1>3, NoRoute, Constants DEF GoodInfo
<1>6. CASE p = t
  <2>1. DistanceBy(dv, p, t) = link
    BY <1>6 DEF DistanceBy, LinkDistance
  <2> QED
    BY <2>1, <1>3, <1>4, <1>5, <1>6
<1>7. CASE p # t /\ t \in DOMAIN told1
  <2>1. told1[t] \in Nat /\ t # n
    BY <1>7, TableFacts
  <2>2. DistanceBy(dv, p, t) = AddDistance(link, told1[t])
    BY <1>7, Zenon DEF DistanceBy, LinkDistance
  <2> HIDE DEF link, told1
  <2>3. AddDistance(link, told1[t]) \in Nat
        /\ (AddDistance(link, told1[t]) < Unreachable =>
              told1[t] < Unreachable /\ AddDistance(link, told1[t]) = link + told1[t])
    BY <2>1, <1>3, SumIs
  <2>4. AddDistance(link, told1[t]) < Unreachable => AddDistance(link, told1[t]) > 0
    BY <2>3, <2>1, <1>3, <1>5
  <2> QED
    BY <2>1, <2>2, <2>3, <2>4, <1>4, <1>7 DEF told1
<1>8. CASE p # t /\ t \notin DOMAIN told1
  <2>1. DistanceBy(dv, p, t) = Unreachable
    BY <1>8, Zenon DEF DistanceBy
  <2> QED
    BY <2>1, <1>4, Constants
<1> QED
  BY <1>6, <1>7, <1>8

\* The best route is a good entry, with the neighbour's word for it.
LEMMA BestRouteIs ==
  ASSUME NEW n, NEW dv \in TableOf(n), NEW t \in Target
  PROVE  /\ BestRoute(dv, t) \in Infos
         /\ GoodInfo(n, BestRoute(dv, t))
         /\ t = n => BestRoute(dv, t) = NodeInfo(Invalid, Unreachable)
         /\ Backing(dv, BestRoute(dv, t), t)
<1> DEFINE ways == {p \in Neighbours(dv) :
                      Usable(dv, p) /\ DistanceBy(dv, p, t) < Unreachable}
           ds == {DistanceBy(dv, p, t) : p \in ways}
           d == Min(ds)
           nearest == {p \in ways : DistanceBy(dv, p, t) = d}
           hop == Min(nearest)
<1>1. Neighbours(dv) = Node
  BY TableFacts DEF Neighbours
<1>2. CASE ways = {}
  <2>1. BestRoute(dv, t) = NodeInfo(Invalid, Unreachable)
    BY <1>2, Zenon DEF BestRoute
  <2>2. \A p \in Node : NodeInfo(Invalid, Unreachable).nextHop # p
    BY NoRoute, Constants
  <2> QED
    BY <2>1, <2>2, NoRoute DEF GoodInfo, Backing
<1>3. CASE ways # {}
  <2>1. ways \subseteq Node
    BY <1>1
  <2>2. ds \subseteq Nat /\ ds # {}
    BY <1>1, <1>3, WayIs
  <2>3. d \in ds
    <3> HIDE DEF ds
    <3> QED
      BY <2>2, LeastIs
  <2>4. nearest # {} /\ nearest \subseteq Nat
    BY <2>1, <2>3, Constants
  <2>5. hop \in nearest
    <3> HIDE DEF nearest
    <3> QED
      BY <2>4, LeastIs
  <2>6. BestRoute(dv, t) = NodeInfo(hop, d)
    BY <1>3, Zenon DEF BestRoute
  <2> HIDE DEF hop, d
  <2>7. hop \in Node /\ Usable(dv, hop) /\ DistanceBy(dv, hop, t) = d /\ d < Unreachable
    BY <2>1, <2>5
  <2> HIDE DEF nearest, ways, ds
  <2>8. /\ hop # n /\ d \in Nat /\ d > 0 /\ t # n
        /\ hop # t => t \in DOMAIN dv.neighboursDVInfo[hop]
                      /\ dv.neighboursDVInfo[hop][t] < Unreachable
    BY <2>7, WayIs
  <2>9. NodeInfo(hop, d).nextHop = hop /\ NodeInfo(hop, d).distance = d
    BY DEF NodeInfo
  <2>10. NodeInfo(hop, d) \in Infos
    BY <2>7, <2>8 DEF NodeInfo, Infos, Target
  <2>11. GoodInfo(n, NodeInfo(hop, d))
    BY <2>7, <2>8, <2>9 DEF GoodInfo, Finite
  <2>12. Backing(dv, NodeInfo(hop, d), t)
    BY <2>8, <2>9 DEF Backing
  <2> QED
    BY <2>6, <2>8, <2>10, <2>11, <2>12
<1> QED
  BY <1>2, <1>3

\* A table with another entry.
LEMMA RelaxIs ==
  ASSUME NEW n, NEW dv \in TableOf(n), NEW t \in Target
  PROVE  /\ Relax(dv, t) \in TableOf(n)
         /\ \A u \in Target : u = t \/ Backed(dv, u) => Backed(Relax(dv, t), u)
<1> DEFINE infos == [u \in Target |-> IF u = t THEN BestRoute(dv, t) ELSE dv.dvInfos[u]]
           heard == dv.neighboursDVInfo
<1>1. Put(dv.dvInfos, t, BestRoute(dv, t)) = infos
  <2>1. DOMAIN dv.dvInfos = Target
    BY TableFacts
  <2>2. DOMAIN dv.dvInfos \cup {t} = Target
    BY <2>1
  <2> QED
    BY <2>1, <2>2, Zenon DEF Put
<1>2. dv \in AnyTable
  BY DEF TableOf
<1>3. Relax(dv, t) = [self |-> n, dvInfos |-> infos, neighboursDVInfo |-> heard]
  <2>1. dv = [self |-> n, dvInfos |-> dv.dvInfos, neighboursDVInfo |-> heard]
    BY <1>2, TableFacts DEF AnyTable
  <2>2. Relax(dv, t) = [dv EXCEPT !.dvInfos = infos]
    BY <1>1 DEF Relax
  <2> HIDE DEF infos, heard
  <2> QED
    BY <2>1, <2>2
<1>4. infos \in [Target -> Infos] /\ heard \in [Node -> Heard]
  BY BestRouteIs, TableFacts
<1>5. \A u \in Node : GoodInfo(n, infos[u])
  <2>1. ASSUME NEW u \in Node PROVE GoodInfo(n, infos[u])
    <3>1. u \in Target
      BY DEF Target
    <3>2. CASE u = t
      BY <3>1, <3>2, BestRouteIs, Zenon
    <3>3. CASE u # t
      BY <3>1, <3>3, TableFacts, Zenon
    <3> QED
      BY <3>2, <3>3
  <2> QED
    BY <2>1
<1>6. infos[n] = NodeInfo(Invalid, Unreachable)
  <2>1. n \in Target
    BY TableFacts DEF Target
  <2>2. CASE n = t
    BY <2>1, <2>2, BestRouteIs, Zenon
  <2>3. CASE n # t
    BY <2>1, <2>3, TableFacts, Zenon
  <2> QED
    BY <2>2, <2>3
<1>7. Relax(dv, t) \in TableOf(n)
  <2>1. n \in Node /\ \A p \in Node : n \notin DOMAIN heard[p]
    BY TableFacts
  <2> HIDE DEF infos, heard
  <2> QED
    BY <1>3, <1>4, <1>5, <1>6, <2>1, IsTable, Zenon
<1>8. Relax(dv, t).dvInfos = infos /\ Relax(dv, t).neighboursDVInfo = heard
  <2> HIDE DEF infos, heard
  <2> QED
    BY <1>3
<1>9. ASSUME NEW u \in Target, u = t \/ Backed(dv, u) PROVE Backed(Relax(dv, t), u)
  <2>1. \A info : Backing(Relax(dv, t), info, u) <=> Backing(dv, info, u)
    BY <1>8, Zenon DEF Backing
  <2>2. CASE u = t
    <3>1. Relax(dv, t).dvInfos[u] = BestRoute(dv, t)
      BY <1>8, <2>2, Zenon
    <3>2. Backing(dv, BestRoute(dv, t), u)
      BY <2>2, BestRouteIs, Zenon
    <3> QED
      BY <2>1, <3>1, <3>2, Zenon DEF Backed
  <2>3. CASE u # t
    <3>1. Relax(dv, t).dvInfos[u] = dv.dvInfos[u]
      BY <1>8, <2>3, Zenon
    <3> QED
      BY <1>9, <2>1, <2>3, <3>1, Zenon DEF Backed
  <2> QED
    BY <2>2, <2>3
<1> QED
  BY <1>7, <1>9

LEMMA TargetsIs ==
  ASSUME NEW n, NEW dv \in TableOf(n)
  PROVE  Targets(dv) = Target
<1>1. DOMAIN dv.dvInfos = Target /\ Neighbours(dv) = Node
  BY TableFacts DEF Neighbours
<1>2. \A p \in Node : DOMAIN dv.neighboursDVInfo[p] \subseteq Target
  BY TableFacts
<1>3. UNION {DOMAIN dv.neighboursDVInfo[p] : p \in Node} \subseteq Target
  BY <1>2
<1> QED
  BY <1>1, <1>3 DEF Targets, Target

LEMMA TargetFinite ==
  /\ IsFiniteSet(Target) /\ Cardinality(Target) \in Nat
  /\ \A S \in SUBSET Target : IsFiniteSet(S) /\ Cardinality(S) \in Nat
<1>1. IsFiniteSet(Target)
  BY NodeAssumption, FS_AddElement DEF Target
<1> QED
  BY <1>1, FS_Subset, FS_CardinalityType

\* What may be left to do in a recomputation, and what has come of it.
World(n) == [dv : TableOf(n), left : SUBSET Target]

\* After k of the relaxations every target is either still to be relaxed or
\* backed.
Halfway(n, k) ==
  {w \in World(n) : /\ Cardinality(w.left) + k = Cardinality(Target)
                    /\ \A t \in Target \ w.left : Backed(w.dv, t)}

\* One more relaxation.
LEMMA RelaxedOnceIs ==
  ASSUME NEW n, NEW w \in World(n), NEW v \in RelaxedOnce(w)
  PROVE  /\ v \in World(n)
         /\ \A k \in Nat : w \in Halfway(n, k) => v \in Halfway(n, k + 1)
<1>1. w.dv \in TableOf(n) /\ w.left \in SUBSET Target
  BY DEF World
<1>2. PICK t \in w.left : v = [dv |-> Relax(w.dv, t), left |-> w.left \ {t}]
  BY DEF RelaxedOnce
<1>3. t \in Target /\ v.dv = Relax(w.dv, t) /\ v.left = w.left \ {t}
  BY <1>1, <1>2
<1>4. v.dv \in TableOf(n) /\ \A u \in Target : u = t \/ Backed(w.dv, u) => Backed(v.dv, u)
  BY <1>1, <1>3, RelaxIs
<1>5. v \in World(n)
  <2>1. Relax(w.dv, t) \in TableOf(n) /\ w.left \ {t} \in SUBSET Target
    BY <1>1, <1>3, <1>4
  <2> QED
    BY <1>2, <2>1 DEF World
<1>6. ASSUME NEW k \in Nat, w \in Halfway(n, k) PROVE v \in Halfway(n, k + 1)
  <2>1. Cardinality(w.left) + k = Cardinality(Target)
        /\ \A u \in Target \ w.left : Backed(w.dv, u)
    BY <1>6 DEF Halfway
  <2>2. Cardinality(v.left) = Cardinality(w.left) - 1 /\ Cardinality(w.left) \in Nat
    BY <1>1, <1>2, <1>3, TargetFinite, FS_RemoveElement
  <2>3. Cardinality(v.left) + (k + 1) = Cardinality(Target)
    BY <2>1, <2>2
  <2>4. \A u \in Target \ v.left : Backed(v.dv, u)
    BY <1>3, <1>4, <2>1
  <2> QED
    BY <1>5, <2>3, <2>4, Zenon DEF Halfway
<1> QED
  BY <1>5, <1>6

\* The recursion of Relaxations has its equation.
LEMMA RelaxationsEquation ==
  ASSUME NEW n, NEW dv \in TableOf(n)
  PROVE  Relaxations(dv) = [k \in 0 .. Cardinality(Targets(dv)) |->
                              IF k = 0 THEN {[dv |-> dv, left |-> Targets(dv)]}
                              ELSE UNION {RelaxedOnce(w) : w \in Relaxations(dv)[k - 1]}]
<1> DEFINE N == Cardinality(Targets(dv))
           x == {[dv |-> dv, left |-> Targets(dv)]}
           Step(W) == UNION {RelaxedOnce(w) : w \in W}
           X == SUBSET World(n)
           Fn(g) == [k \in 0 .. N |-> IF k = 0 THEN x ELSE Step(g[k - 1])]
           F == [k \in 1 .. N |-> [W \in X |-> Step(W)]]
<1>1. N \in Nat
  BY TargetsIs, TargetFinite
<1>2. x \in X
  <2>1. [dv |-> dv, left |-> Targets(dv)] \in World(n)
    BY TargetsIs DEF World
  <2> QED
    BY <2>1
<1>3. \A W \in X : Step(W) \in X
  BY RelaxedOnceIs
<1>4. \A k \in 1 .. N : \A W \in X : F[k][W] \in X /\ F[k][W] = Step(W)
  <2> HIDE DEF Step, N, X
  <2> QED
    BY <1>3
<1>5. \E g : g = Fn(g)
  <2> HIDE DEF N, X, x, F
  <2>1. PICK g \in [0 .. N -> X] : IsIteration(g, F, N, x)
    <3>1. MapsInto(F, N, X)
      BY <1>4 DEF MapsInto
    <3> QED
      BY <1>1, <1>2, <3>1, IterationExists
  <2>2. ASSUME NEW k \in 0 .. N PROVE g[k] = IF k = 0 THEN x ELSE Step(g[k - 1])
    <3> HIDE DEF Step
    <3>1. CASE k = 0
      BY <2>1, <3>1 DEF IsIteration
    <3>2. CASE k # 0
      <4>1. k \in 1 .. N /\ g[k - 1] \in X
        BY <1>1, <2>1, <3>2
      <4> QED
        BY <1>4, <2>1, <3>2, <4>1, Zenon DEF IsIteration
    <3> QED
      BY <3>1, <3>2
  <2>3. g = [k \in 0 .. N |-> g[k]]
    BY <2>1
  <2> HIDE DEF Step
  <2>4. g = Fn(g)
    BY <2>2, <2>3, Zenon
  <2> HIDE DEF Fn
  <2> QED
    BY <2>4
<1>6. Relaxations(dv) = CHOOSE g : g = Fn(g)
  BY DEF Relaxations
<1> HIDE DEF Fn
<1>7. Relaxations(dv) = Fn(Relaxations(dv))
  BY <1>5, <1>6, Zenon
<1> QED
  BY <1>7 DEF Fn

\* After all relaxations.
LEMMA RelaxedAll ==
  ASSUME NEW n, NEW dv \in TableOf(n), NEW w \in Relaxations(dv)[Cardinality(Targets(dv))]
  PROVE  w.dv \in RoutedOf(n)
<1> DEFINE N == Cardinality(Target)
           R == Relaxations(dv)
           T == {k \in 0 .. N : R[k] \subseteq Halfway(n, k)}
<1>1. N \in Nat /\ Targets(dv) = Target /\ Cardinality(Targets(dv)) = N
  BY TargetsIs, TargetFinite, Zenon
<1>2. R = [k \in 0 .. N |-> IF k = 0 THEN {[dv |-> dv, left |-> Target]}
                            ELSE UNION {RelaxedOnce(v) : v \in R[k - 1]}]
  <2>1. R = [k \in 0 .. Cardinality(Targets(dv)) |->
               IF k = 0 THEN {[dv |-> dv, left |-> Targets(dv)]}
               ELSE UNION {RelaxedOnce(v) : v \in R[k - 1]}]
    BY RelaxationsEquation, Zenon
  <2> HIDE DEF R
  <2> QED
    BY <1>1, <2>1
<1> HIDE DEF R
<1>3. 0 \in T
  <2>1. R[0] = {[dv |-> dv, left |-> Target]}
    BY <1>1, <1>2
  <2>2. [dv |-> dv, left |-> Target] \in Halfway(n, 0)
    BY <1>1 DEF World, Halfway
  <2> QED
    BY <1>1, <2>1, <2>2
<1>4. ASSUME NEW k \in 0 .. N - 1, k \in T PROVE k + 1 \in T
  <2>1. R[k + 1] = UNION {RelaxedOnce(v) : v \in R[k]}
    <3>1. k + 1 \in 0 .. N /\ k + 1 # 0 /\ (k + 1) - 1 = k
      BY <1>1
    <3> QED
      BY <1>2, <3>1, Zenon
  <2>2. ASSUME NEW u \in R[k + 1] PROVE u \in Halfway(n, k + 1)
    <3>1. PICK v \in R[k] : u \in RelaxedOnce(v)
      BY <2>1
    <3>2. v \in Halfway(n, k) /\ v \in World(n) /\ k \in Nat
      BY <1>1, <1>4 DEF Halfway
    <3> QED
      BY <3>1, <3>2, RelaxedOnceIs, Zenon
  <2> QED
    BY <1>1, <2>2
<1>5. N \in T
  <2> HIDE DEF T
  <2>1. 0 .. N \subseteq T
    BY <1>1, <1>3, <1>4, InductionTo, Zenon
  <2> QED
    BY <1>1, <2>1
<1>6. w \in Halfway(n, N)
  BY <1>1, <1>5 DEF R
<1>7. w.dv \in TableOf(n) /\ w.left \in SUBSET Target /\ Cardinality(w.left) + N = N
      /\ \A t \in Target \ w.left : Backed(w.dv, t)
  BY <1>6 DEF Halfway, World
<1>8. w.left = {}
  <2>1. IsFiniteSet(w.left) /\ Cardinality(w.left) \in Nat
    BY <1>7, TargetFinite
  <2>2. Cardinality(w.left) = 0
    BY <1>1, <1>7, <2>1
  <2> QED
    BY <2>1, <2>2, FS_EmptySet
<1> QED
  BY <1>7, <1>8 DEF RoutedOf

\* All at once, where the order does not matter.
LEMMA RelaxedTogether ==
  ASSUME NEW n, NEW dv \in TableOf(n)
  PROVE  [dv EXCEPT !.dvInfos = [t \in Targets(dv) |-> BestRoute(dv, t)]] \in RoutedOf(n)
<1> DEFINE infos == [t \in Target |-> BestRoute(dv, t)]
           heard == dv.neighboursDVInfo
           new == [self |-> n, dvInfos |-> infos, neighboursDVInfo |-> heard]
<1>1. [dv EXCEPT !.dvInfos = [t \in Targets(dv) |-> BestRoute(dv, t)]] = new
  <2>1. dv = [self |-> n, dvInfos |-> dv.dvInfos, neighboursDVInfo |-> heard]
    BY TableFacts DEF TableOf, AnyTable
  <2>2. [t \in Targets(dv) |-> BestRoute(dv, t)] = infos
    BY TargetsIs, Zenon
  <2> HIDE DEF infos, heard
  <2> QED
    BY <2>1, <2>2
<1>2. infos \in [Target -> Infos] /\ heard \in [Node -> Heard]
  BY BestRouteIs, TableFacts
<1>3. \A u \in Node : u \in Target /\ GoodInfo(n, infos[u])
  BY BestRouteIs DEF Target
<1>4. n \in Node /\ infos[n] = NodeInfo(Invalid, Unreachable)
      /\ \A p \in Node : n \notin DOMAIN heard[p]
  BY <1>3, BestRouteIs, TableFacts
<1>5. new \in TableOf(n)
  <2> HIDE DEF infos, heard
  <2> QED
    BY <1>2, <1>3, <1>4, IsTable, Zenon
<1>6. ASSUME NEW t \in Target PROVE Backed(new, t)
  <2>1. new.dvInfos[t] = BestRoute(dv, t) /\ new.neighboursDVInfo = dv.neighboursDVInfo
    OBVIOUS
  <2>2. Backing(dv, BestRoute(dv, t), t)
    BY BestRouteIs, Zenon
  <2> HIDE DEF new
  <2> QED
    BY <2>1, <2>2, Zenon DEF Backed, Backing
<1> HIDE DEF new
<1> QED
  BY <1>1, <1>5, <1>6 DEF RoutedOf

LEMMA RecomputedIs ==
  ASSUME NEW n, NEW dv \in TableOf(n)
  PROVE  Recomputed(dv) \subseteq RoutedOf(n)
<1>1. CASE OrderMatters(dv)
  <2>1. Recomputed(dv) = {w.dv : w \in Relaxations(dv)[Cardinality(Targets(dv))]}
    BY <1>1, Zenon DEF Recomputed
  <2> QED
    BY <2>1, RelaxedAll
<1>2. CASE ~ OrderMatters(dv)
  <2>1. Recomputed(dv) = {[dv EXCEPT !.dvInfos = [t \in Targets(dv) |-> BestRoute(dv, t)]]}
    BY <1>2, Zenon DEF Recomputed
  <2> QED
    BY <2>1, RelaxedTogether
<1> QED
  BY <1>1, <1>2

-----------------------------------------------------------------------------
(* Where the order of the relaxations does not matter.                     *)

\* The best routes are those of the neighbours' entries and vectors.
LEMMA SameBest ==
  ASSUME NEW n, NEW dv \in TableOf(n), NEW dw \in TableOf(n), NEW t \in Target,
         dw.neighboursDVInfo = dv.neighboursDVInfo,
         \A p \in Node : dw.dvInfos[p] = dv.dvInfos[p]
  PROVE  BestRoute(dw, t) = BestRoute(dv, t)
<1> DEFINE ways(x) == {p \in Neighbours(x) : Usable(x, p) /\ DistanceBy(x, p, t) < Unreachable}
           ds(x) == {DistanceBy(x, p, t) : p \in ways(x)}
           nearest(x, d) == {p \in ways(x) : DistanceBy(x, p, t) = d}
<1>1. Neighbours(dv) = Node /\ Neighbours(dw) = Node
  BY TableFacts DEF Neighbours
<1>2. DOMAIN dv.dvInfos = Target /\ DOMAIN dw.dvInfos = Target
  BY TableFacts
<1>3. \A p \in Node : (Usable(dw, p) <=> Usable(dv, p)) /\ DistanceBy(dw, p, t) = DistanceBy(dv, p, t)
  BY <1>2, Zenon DEF Usable, LinkDistance, DistanceBy
<1>4. ways(dw) = ways(dv) /\ ways(dv) \subseteq Node
  BY <1>1, <1>3
<1>5. ds(dw) = ds(dv) /\ \A d : nearest(dw, d) = nearest(dv, d)
  BY <1>3, <1>4
<1>6. BestRoute(dv, t) = IF ways(dv) = {} THEN NodeInfo(Invalid, Unreachable)
                         ELSE NodeInfo(Min(nearest(dv, Min(ds(dv)))), Min(ds(dv)))
  BY DEF BestRoute
<1>7. BestRoute(dw, t) = IF ways(dw) = {} THEN NodeInfo(Invalid, Unreachable)
                         ELSE NodeInfo(Min(nearest(dw, Min(ds(dw)))), Min(ds(dw)))
  BY DEF BestRoute
<1> HIDE DEF ways, ds, nearest
<1>8. nearest(dw, Min(ds(dw))) = nearest(dv, Min(ds(dv))) /\ Min(ds(dw)) = Min(ds(dv))
  BY <1>5, Zenon
<1> QED
  BY <1>4, <1>6, <1>7, <1>8

\* What has been relaxed is at its best, the rest is as it was.
PartlyBest(dv, w) ==
  /\ w.dv.neighboursDVInfo = dv.neighboursDVInfo
  /\ \A u \in Target : w.dv.dvInfos[u] = IF u \in w.left THEN dv.dvInfos[u] ELSE BestRoute(dv, u)

LEMMA PartlyBestKept ==
  ASSUME NEW n, NEW dv \in TableOf(n), ~ OrderMatters(dv),
         NEW w \in World(n), PartlyBest(dv, w), NEW v \in RelaxedOnce(w)
  PROVE  PartlyBest(dv, v)
<1>1. w.dv \in TableOf(n) /\ w.left \subseteq Target
  BY DEF World
<1>2. PICK t \in w.left : v = [dv |-> Relax(w.dv, t), left |-> w.left \ {t}]
  BY DEF RelaxedOnce
<1>3. t \in Target /\ v.dv = Relax(w.dv, t) /\ v.left = w.left \ {t}
  BY <1>1, <1>2
<1>4. \A p \in Node : w.dv.dvInfos[p] = dv.dvInfos[p]
  <2>1. \A p \in Node : BestRoute(dv, p) = dv.dvInfos[p]
    BY TableFacts DEF OrderMatters, Neighbours
  <2>2. \A p \in Node : p \in Target
    BY DEF Target
  <2> QED
    BY <2>1, <2>2 DEF PartlyBest
<1>5. BestRoute(w.dv, t) = BestRoute(dv, t)
  BY <1>1, <1>3, <1>4, SameBest DEF PartlyBest
<1>6. DOMAIN w.dv.dvInfos = Target
  BY <1>1, TableFacts
<1>7. /\ v.dv.neighboursDVInfo = dv.neighboursDVInfo
      /\ v.dv.dvInfos = [u \in Target |-> IF u = t THEN BestRoute(dv, t) ELSE w.dv.dvInfos[u]]
  <2> DEFINE infos == Put(w.dv.dvInfos, t, BestRoute(dv, t))
  <2>1. infos = [u \in Target |-> IF u = t THEN BestRoute(dv, t) ELSE w.dv.dvInfos[u]]
    <3>1. DOMAIN w.dv.dvInfos \cup {t} = Target
      BY <1>3, <1>6
    <3> QED
      BY <3>1, Zenon DEF Put
  <2>2. Relax(w.dv, t) = [w.dv EXCEPT !.dvInfos = infos]
    BY <1>5, Zenon DEF Relax
  <2> HIDE DEF infos
  <2>3. Relax(w.dv, t).dvInfos = infos /\ Relax(w.dv, t).neighboursDVInfo = w.dv.neighboursDVInfo
    <3>1. w.dv = [self |-> n, dvInfos |-> w.dv.dvInfos, neighboursDVInfo |-> w.dv.neighboursDVInfo]
      BY <1>1, TableFacts DEF TableOf, AnyTable
    <3> QED
      BY <2>2, <3>1
  <2> QED
    BY <1>3, <2>1, <2>3 DEF PartlyBest
<1>8. ASSUME NEW u \in Target
      PROVE  v.dv.dvInfos[u] = IF u \in v.left THEN dv.dvInfos[u] ELSE BestRoute(dv, u)
  <2>1. CASE u = t
    BY <1>3, <1>7, <2>1
  <2>2. CASE u # t
    <3>1. v.dv.dvInfos[u] = w.dv.dvInfos[u] /\ (u \in v.left <=> u \in w.left)
      BY <1>3, <1>7, <2>2
    <3> QED
      BY <3>1, Zenon DEF PartlyBest
  <2> QED
    BY <2>1, <2>2
<1> QED
  BY <1>7, <1>8, Zenon DEF PartlyBest

\* Whatever the order in which recomputeRoutesWithoutLock comes to the targets
\* (DistanceVector.cpp:202), it ends with the same table if the neighbours'
\* entries are at their best when it begins.
THEOREM AnyOrder ==
  ASSUME NEW n, NEW dv \in TableOf(n), ~ OrderMatters(dv)
  PROVE  {w.dv : w \in Relaxations(dv)[Cardinality(Targets(dv))]} \subseteq Recomputed(dv)
<1> DEFINE N == Cardinality(Target)
           R == Relaxations(dv)
           T == {k \in 0 .. N : R[k] \subseteq Halfway(n, k) /\ \A w \in R[k] : PartlyBest(dv, w)}
           best == [t \in Target |-> BestRoute(dv, t)]
<1>1. N \in Nat /\ Targets(dv) = Target /\ Cardinality(Targets(dv)) = N
  BY TargetsIs, TargetFinite, Zenon
<1>2. R = [k \in 0 .. N |-> IF k = 0 THEN {[dv |-> dv, left |-> Target]}
                            ELSE UNION {RelaxedOnce(v) : v \in R[k - 1]}]
  <2>1. R = [k \in 0 .. Cardinality(Targets(dv)) |->
               IF k = 0 THEN {[dv |-> dv, left |-> Targets(dv)]}
               ELSE UNION {RelaxedOnce(v) : v \in R[k - 1]}]
    BY RelaxationsEquation, Zenon
  <2> HIDE DEF R
  <2> QED
    BY <1>1, <2>1
<1> HIDE DEF R
<1>3. 0 \in T
  <2>1. R[0] = {[dv |-> dv, left |-> Target]}
    BY <1>1, <1>2
  <2>2. [dv |-> dv, left |-> Target] \in Halfway(n, 0)
    BY <1>1 DEF World, Halfway
  <2>3. PartlyBest(dv, [dv |-> dv, left |-> Target])
    BY DEF PartlyBest
  <2> QED
    BY <1>1, <2>1, <2>2, <2>3
<1>4. ASSUME NEW k \in 0 .. N - 1, k \in T PROVE k + 1 \in T
  <2>1. R[k + 1] = UNION {RelaxedOnce(v) : v \in R[k]}
    <3>1. k + 1 \in 0 .. N /\ k + 1 # 0 /\ (k + 1) - 1 = k
      BY <1>1
    <3> QED
      BY <1>2, <3>1, Zenon
  <2>2. ASSUME NEW u \in R[k + 1] PROVE u \in Halfway(n, k + 1) /\ PartlyBest(dv, u)
    <3>1. PICK v \in R[k] : u \in RelaxedOnce(v)
      BY <2>1
    <3>2. v \in Halfway(n, k) /\ v \in World(n) /\ k \in Nat /\ PartlyBest(dv, v)
      BY <1>1, <1>4 DEF Halfway
    <3> QED
      BY <3>1, <3>2, RelaxedOnceIs, PartlyBestKept, Zenon
  <2> QED
    BY <1>1, <2>2
<1>5. N \in T
  <2> HIDE DEF T
  <2>1. 0 .. N \subseteq T
    BY <1>1, <1>3, <1>4, InductionTo, Zenon
  <2> QED
    BY <1>1, <2>1
<1>6. ASSUME NEW w \in R[N] PROVE w.dv \in Recomputed(dv)
  <2>1. w \in Halfway(n, N) /\ PartlyBest(dv, w)
    BY <1>5
  <2>2. w.dv \in TableOf(n) /\ w.left \in SUBSET Target /\ Cardinality(w.left) + N = N
    BY <2>1 DEF Halfway, World
  <2>3. w.left = {}
    <3>1. IsFiniteSet(w.left) /\ Cardinality(w.left) \in Nat
      BY <2>2, TargetFinite
    <3>2. Cardinality(w.left) = 0
      BY <1>1, <2>2, <3>1
    <3> QED
      BY <3>1, <3>2, FS_EmptySet
  <2>4. w.dv.dvInfos = best
    <3>1. w.dv.dvInfos \in [Target -> Infos] /\ \A u \in Target : w.dv.dvInfos[u] = BestRoute(dv, u)
      BY <2>1, <2>2, <2>3, TableFacts DEF PartlyBest
    <3> QED
      BY <3>1
  <2>5. w.dv = [self |-> n, dvInfos |-> best, neighboursDVInfo |-> dv.neighboursDVInfo]
    <3>1. w.dv = [self |-> n, dvInfos |-> w.dv.dvInfos, neighboursDVInfo |-> w.dv.neighboursDVInfo]
      BY <2>2, TableFacts DEF TableOf, AnyTable
    <3> QED
      BY <2>1, <2>4, <3>1, Zenon DEF PartlyBest
  <2>6. [dv EXCEPT !.dvInfos = best] = [self |-> n, dvInfos |-> best, neighboursDVInfo |-> dv.neighboursDVInfo]
    <3>1. dv = [self |-> n, dvInfos |-> dv.dvInfos, neighboursDVInfo |-> dv.neighboursDVInfo]
      BY TableFacts DEF TableOf, AnyTable
    <3> HIDE DEF best
    <3> QED
      BY <3>1
  <2>7. Recomputed(dv) = {[dv EXCEPT !.dvInfos = [t \in Targets(dv) |-> BestRoute(dv, t)]]}
    BY Zenon DEF Recomputed
  <2>8. [t \in Targets(dv) |-> BestRoute(dv, t)] = best
    BY <1>1, Zenon
  <2> HIDE DEF best
  <2> QED
    BY <2>5, <2>6, <2>7, <2>8, Zenon
<1> QED
  BY <1>1, <1>6 DEF R

-----------------------------------------------------------------------------
(* The operations on a table.                                              *)

\* A table of n from its parts.
LEMMA PartsOf ==
  ASSUME NEW n, NEW dv \in TableOf(n)
  PROVE  dv = [self |-> n, dvInfos |-> dv.dvInfos, neighboursDVInfo |-> dv.neighboursDVInfo]
  BY TableFacts DEF TableOf, AnyTable

\* The distances a link is set to.
LinkCost == {d \in Nat : d = Unreachable \/ (d > 0 /\ d < Unreachable)}

LEMMA SetLinkIs ==
  ASSUME NEW n, NEW dv \in TableOf(n), NEW peer \in Node \ {n}, NEW d \in LinkCost
  PROVE  SetLink(dv, peer, d) \in TableOf(n)
<1> DEFINE info == IF d >= Unreachable THEN NodeInfo(Invalid, d) ELSE NodeInfo(peer, d)
           infos == [dv.dvInfos EXCEPT ![peer] = info]
           cut == Put(dv.neighboursDVInfo, peer, NoVector)
           heard == IF d >= Unreachable THEN cut ELSE dv.neighboursDVInfo
<1>1. /\ n \in Node /\ peer \in Target /\ dv.dvInfos \in [Target -> Infos]
      /\ dv.neighboursDVInfo \in [Node -> Heard]
  BY TableFacts DEF Target
<1>2. d \in Nat /\ Unreachable \in Nat /\ (d >= Unreachable => d = Unreachable)
      /\ (~ (d >= Unreachable) => d > 0 /\ d < Unreachable)
  BY Constants DEF LinkCost
<1>3. info \in Infos /\ GoodInfo(n, info)
  BY <1>1, <1>2 DEF NodeInfo, Infos, Target, GoodInfo, Finite
<1> HIDE DEF info
<1>4. infos \in [Target -> Infos] /\ infos[n] = dv.dvInfos[n]
      /\ \A t \in Node : infos[t] = info \/ infos[t] = dv.dvInfos[t]
  BY <1>1, <1>3 DEF Target
<1>5. cut \in [Node -> Heard] /\ \A p \in Node : cut[p] = NoVector \/ cut[p] = dv.neighboursDVInfo[p]
  <2>1. DOMAIN dv.neighboursDVInfo \cup {peer} = Node
    BY <1>1
  <2>2. cut = [u \in Node |-> IF u = peer THEN NoVector ELSE dv.neighboursDVInfo[u]]
    BY <2>1, Zenon DEF Put
  <2> QED
    BY <1>1, <2>2, NoVectorHeard
<1> HIDE DEF cut
<1>6. heard \in [Node -> Heard] /\ \A p \in Node : n \notin DOMAIN heard[p]
  <2>1. ASSUME NEW p \in Node PROVE n \notin DOMAIN heard[p]
    BY <1>5, TableFacts, NoVectorHeard
  <2> QED
    BY <1>1, <1>5, <2>1
<1>7. SetLink(dv, peer, d) = [self |-> n, dvInfos |-> infos, neighboursDVInfo |-> heard]
  <2>1. CASE d >= Unreachable
    <3>1. SetLink(dv, peer, d) =
            [dv EXCEPT !.dvInfos[peer] = NodeInfo(Invalid, d), !.neighboursDVInfo = cut]
      BY <2>1 DEF SetLink, cut
    <3>2. info = NodeInfo(Invalid, d) /\ heard = cut
      BY <2>1 DEF info
    <3>3. [dv EXCEPT !.dvInfos[peer] = NodeInfo(Invalid, d), !.neighboursDVInfo = cut]
            = [self |-> n, dvInfos |-> [dv.dvInfos EXCEPT ![peer] = NodeInfo(Invalid, d)],
               neighboursDVInfo |-> cut]
      <4> DEFINE a == dv.dvInfos
                 b == dv.neighboursDVInfo
                 e == NodeInfo(Invalid, d)
      <4>1. dv = [self |-> n, dvInfos |-> a, neighboursDVInfo |-> b]
        BY PartsOf
      <4> HIDE DEF a, b, e
      <4>2. [dv EXCEPT !.dvInfos[peer] = e, !.neighboursDVInfo = cut]
              = [self |-> n, dvInfos |-> [a EXCEPT ![peer] = e], neighboursDVInfo |-> cut]
        <5> DEFINE mid == [dv EXCEPT !.dvInfos[peer] = e]
        <5>1. mid = [self |-> n, dvInfos |-> [a EXCEPT ![peer] = e], neighboursDVInfo |-> b]
          BY <4>1
        <5>2. [dv EXCEPT !.dvInfos[peer] = e, !.neighboursDVInfo = cut]
                = [mid EXCEPT !.neighboursDVInfo = cut]
          BY <4>1
        <5> HIDE DEF mid
        <5> QED
          BY <5>1, <5>2
      <4> QED
        BY <4>2 DEF a, e
    <3> HIDE DEF heard
    <3> QED
      BY <3>1, <3>2, <3>3, Zenon
  <2>2. CASE ~ (d >= Unreachable)
    <3>1. SetLink(dv, peer, d) = [dv EXCEPT !.dvInfos[peer] = NodeInfo(peer, d)]
      BY <2>2, Zenon DEF SetLink
    <3>2. info = NodeInfo(peer, d) /\ heard = dv.neighboursDVInfo
      BY <2>2, Zenon DEF info
    <3>3. [dv EXCEPT !.dvInfos[peer] = NodeInfo(peer, d)]
            = [self |-> n, dvInfos |-> [dv.dvInfos EXCEPT ![peer] = NodeInfo(peer, d)],
               neighboursDVInfo |-> dv.neighboursDVInfo]
      BY PartsOf
    <3> HIDE DEF heard
    <3> QED
      BY <3>1, <3>2, <3>3, Zenon
  <2> QED
    BY <2>1, <2>2
<1>8. \A t \in Node : GoodInfo(n, infos[t])
  <2>1. ASSUME NEW t \in Node PROVE GoodInfo(n, infos[t])
    <3>1. infos[t] = info \/ infos[t] = dv.dvInfos[t]
      BY <1>4
    <3>2. GoodInfo(n, dv.dvInfos[t])
      BY TableFacts
    <3> HIDE DEF infos
    <3> QED
      BY <1>3, <3>1, <3>2, Zenon
  <2> QED
    BY <2>1
<1>9. infos[n] = NodeInfo(Invalid, Unreachable)
  BY <1>4, TableFacts, Zenon
<1> HIDE DEF infos, heard
<1> QED
  BY <1>1, <1>4, <1>6, <1>7, <1>8, <1>9, IsTable, Zenon

LEMMA RoutedIsTable == ASSUME NEW n, NEW dv \in RoutedOf(n) PROVE dv \in TableOf(n)
  BY DEF RoutedOf

LEMMA ResultIs ==
  ASSUME NEW dv, NEW b PROVE Result(dv, b).dv = dv
  BY DEF Result

\* A new distance of a neighbour.
LEMMA UpdateNeighbourIs ==
  ASSUME NEW n, NEW dv \in RoutedOf(n), NEW peer \in Node, NEW d \in LinkCost,
         NEW o \in UpdateNeighbourDistance(dv, peer, d)
  PROVE  o.dv \in RoutedOf(n)
<1>1. dv \in TableOf(n) /\ dv.self = n
  BY RoutedIsTable, TableFacts, Zenon
<1>2. CASE Rejected(dv, peer) \/ peer \notin DOMAIN dv.dvInfos
  <2>1. UpdateNeighbourDistance(dv, peer, d) = {Result(dv, FALSE)}
    BY <1>2, Zenon DEF UpdateNeighbourDistance
  <2> QED
    BY <2>1, ResultIs
<1>3. CASE ~ (Rejected(dv, peer) \/ peer \notin DOMAIN dv.dvInfos)
  <2> DEFINE direct == dv.dvInfos[peer] # NodeInfo(peer, d)
             linked == IF direct THEN SetLink(dv, peer, d) ELSE dv
  <2>1. UpdateNeighbourDistance(dv, peer, d) =
          {Result(new, direct \/ new.dvInfos # linked.dvInfos) : new \in Recomputed(linked)}
    BY <1>3, Zenon DEF UpdateNeighbourDistance
  <2>2. peer \in Node \ {n}
    BY <1>1, <1>3 DEF Rejected
  <2>3. linked \in TableOf(n)
    BY <1>1, <2>2, SetLinkIs
  <2> HIDE DEF linked, direct
  <2>4. PICK new \in Recomputed(linked) : o = Result(new, direct \/ new.dvInfos # linked.dvInfos)
    BY <2>1
  <2>5. o.dv = new
    BY <2>4, ResultIs, Zenon
  <2> QED
    BY <2>3, <2>5, RecomputedIs
<1> QED
  BY <1>2, <1>3

\* What is heard of a neighbour's vector.
LEMMA VectorOfIs ==
  ASSUME NEW n, NEW dv \in TableOf(n), NEW pairs \in Pairs
  PROVE  VectorOf(dv, pairs) \in Heard /\ n \notin DOMAIN VectorOf(dv, pairs)
<1> DEFINE S == {p[1] : p \in pairs} \ {dv.self}
           At(t) == {p[2] : p \in {q \in pairs : q[1] = t}}
<1>1. dv.self = n /\ \A p \in pairs : p[1] \in Target /\ p[2] \in Nat
  BY TableFacts DEF Pairs
<1>2. S \subseteq Target /\ n \notin S
  BY <1>1
<1>3. ASSUME NEW t \in S PROVE Min(At(t)) \in Nat
  <2>1. At(t) \subseteq Nat /\ At(t) # {}
    BY <1>1
  <2> HIDE DEF At
  <2> QED
    BY <2>1, LeastIs
<1>4. VectorOf(dv, pairs) = [t \in S |-> Min(At(t))]
  BY DEF VectorOf
<1> HIDE DEF S, At
<1>5. DOMAIN VectorOf(dv, pairs) = S /\ VectorOf(dv, pairs) \in [S -> Nat]
  BY <1>3, <1>4
<1> QED
  BY <1>2, <1>5, HeardIs, Zenon

\* A neighbour's vector.
LEMMA UpdateDvInfosIs ==
  ASSUME NEW n, NEW dv \in RoutedOf(n), NEW peer \in Node, NEW pairs \in Pairs,
         NEW o \in UpdateDvInfos(dv, peer, pairs)
  PROVE  o.dv \in RoutedOf(n)
<1>1. dv \in TableOf(n) /\ dv.self = n
  BY RoutedIsTable, TableFacts, Zenon
<1>2. CASE Rejected(dv, peer) \/ peer \notin Neighbours(dv) \/ peer \notin DOMAIN dv.dvInfos
  <2>1. UpdateDvInfos(dv, peer, pairs) = {Result(dv, FALSE)}
    BY <1>2, Zenon DEF UpdateDvInfos
  <2> QED
    BY <2>1, ResultIs
<1>3. CASE ~ (Rejected(dv, peer) \/ peer \notin Neighbours(dv) \/ peer \notin DOMAIN dv.dvInfos)
  <2> DEFINE vector == VectorOf(dv, pairs)
             heard == [dv.neighboursDVInfo EXCEPT ![peer] = vector]
             new == [dv EXCEPT !.neighboursDVInfo[peer] = vector]
  <2>1. UpdateDvInfos(dv, peer, pairs) =
          {Result(next, next.dvInfos # dv.dvInfos) : next \in Recomputed(new)}
    BY <1>3, Zenon DEF UpdateDvInfos
  <2>2. vector \in Heard /\ n \notin DOMAIN vector
    BY <1>1, VectorOfIs
  <2> HIDE DEF vector
  <2>3. dv.dvInfos \in [Target -> Infos] /\ dv.neighboursDVInfo \in [Node -> Heard] /\ n \in Node
    BY <1>1, TableFacts
  <2>4. heard \in [Node -> Heard] /\ \A p \in Node : n \notin DOMAIN heard[p]
    BY <1>1, <2>2, <2>3, TableFacts
  <2>5. new = [self |-> n, dvInfos |-> dv.dvInfos, neighboursDVInfo |-> heard]
    BY <1>1, PartsOf
  <2>6. new \in TableOf(n)
    <3>1. (\A t \in Node : GoodInfo(n, dv.dvInfos[t])) /\ dv.dvInfos[n] = NodeInfo(Invalid, Unreachable)
      BY <1>1, TableFacts
    <3> HIDE DEF new, heard
    <3> QED
      BY <2>3, <2>4, <2>5, <3>1, IsTable, Zenon
  <2> HIDE DEF new
  <2>7. PICK next \in Recomputed(new) : o = Result(next, next.dvInfos # dv.dvInfos)
    BY <2>1
  <2>8. o.dv = next
    BY <2>7, ResultIs, Zenon
  <2> QED
    BY <2>6, <2>8, RecomputedIs
<1> QED
  BY <1>2, <1>3

\* What is told to a neighbour.
LEMMA DvInfoIs ==
  ASSUME NEW n, NEW dv \in TableOf(n), NEW peer \in Node
  PROVE  DvInfo(dv, peer) \in Pairs
<1>1. dv.dvInfos \in [Target -> Infos]
  BY TableFacts
<1>2. ASSUME NEW t \in Target PROVE Advertised(dv.dvInfos[t], peer) \in Nat
  BY <1>1, Constants DEF Advertised, Infos
<1> QED
  BY <1>1, <1>2 DEF DvInfo, Pairs

-----------------------------------------------------------------------------
(* The iterations of the worker threads.                                   *)

\* A loop over the probes leaves tables of the node.
LEMMA ProbedIs ==
  ASSUME NEW n, NEW lost, NEW p \in Node, NEW S \in SUBSET RoutedOf(n)
  PROVE  Probed(S, p, lost) \in SUBSET RoutedOf(n)
<1>1. Unreachable \in LinkCost
  BY Constants DEF LinkCost
<1>2. ASSUME NEW dv \in S, NEW o \in UpdateNeighbourDistance(dv, p, Unreachable)
      PROVE  o.dv \in RoutedOf(n)
  BY <1>1, UpdateNeighbourIs
<1>3. CASE p \in lost
  <2>1. Probed(S, p, lost) = UNION {Tables(UpdateNeighbourDistance(dv, p, Unreachable)) : dv \in S}
    BY <1>3, Zenon DEF Probed
  <2> QED
    BY <1>2, <2>1 DEF Tables
<1>4. CASE p \notin lost
  BY <1>4 DEF Probed
<1> QED
  BY <1>3, <1>4

LEMMA TablesWithoutIs ==
  ASSUME NEW n, NEW lost, table[n] \in RoutedOf(n)
  PROVE  TablesWithout(n, lost) \subseteq RoutedOf(n)
<1> DEFINE N == Len(ProbeOrder)
           x == {table[n]}
           X == SUBSET RoutedOf(n)
           Fn(g) == [k \in 0 .. N |-> IF k = 0 THEN x ELSE ProbedInTurn(n, lost, k, g[k - 1])]
           F == [k \in 1 .. N |-> [S \in X |-> ProbedInTurn(n, lost, k, S)]]
           after == CHOOSE g : g = Fn(g)
<1>1. N \in Nat /\ \A k \in 1 .. N : ProbeOrder[k] \in Node
  BY NodeAssumption
<1>2. x \in X
  OBVIOUS
<1>3. \A k \in 1 .. N : \A S \in X :
        ProbedInTurn(n, lost, k, S) \in X /\ F[k][S] = ProbedInTurn(n, lost, k, S)
  BY <1>1, ProbedIs DEF ProbedInTurn
<1>4. \E g : g = Fn(g)
  <2> HIDE DEF N, X, x, F
  <2>1. PICK g \in [0 .. N -> X] : IsIteration(g, F, N, x)
    <3>1. MapsInto(F, N, X)
      BY <1>3, Zenon DEF MapsInto
    <3> QED
      BY <1>1, <1>2, <3>1, IterationExists
  <2>2. ASSUME NEW k \in 0 .. N
        PROVE  g[k] = IF k = 0 THEN x ELSE ProbedInTurn(n, lost, k, g[k - 1])
    <3>1. CASE k = 0
      BY <2>1, <3>1 DEF IsIteration
    <3>2. CASE k # 0
      <4>1. k \in 1 .. N /\ g[k - 1] \in X
        BY <1>1, <2>1, <3>2
      <4> QED
        BY <1>3, <2>1, <3>2, <4>1, Zenon DEF IsIteration
    <3> QED
      BY <3>1, <3>2
  <2>3. g = [k \in 0 .. N |-> g[k]]
    BY <2>1
  <2>4. g = Fn(g)
    BY <2>2, <2>3, Zenon
  <2> HIDE DEF Fn
  <2> QED
    BY <2>4
<1>5. TablesWithout(n, lost) = after[N]
  BY DEF TablesWithout
<1>6. after = Fn(after)
  <2> HIDE DEF Fn
  <2> QED
    BY <1>4, Zenon
<1> HIDE DEF after
<1> DEFINE T == {k \in 0 .. N : after[k] \in X}
<1>7. \A k \in 0 .. N : after[k] = IF k = 0 THEN x ELSE ProbedInTurn(n, lost, k, after[k - 1])
  <2> HIDE DEF N, x
  <2> QED
    BY <1>6
<1>8. 0 \in T
  BY <1>1, <1>2, <1>7
<1>9. ASSUME NEW k \in 0 .. N - 1, k \in T PROVE k + 1 \in T
  <2>1. k + 1 \in 0 .. N /\ k + 1 \in 1 .. N /\ k + 1 # 0 /\ (k + 1) - 1 = k
    BY <1>1
  <2>2. after[k + 1] = ProbedInTurn(n, lost, k + 1, after[k])
    BY <1>7, <2>1, Zenon
  <2> HIDE DEF X, N, x, F
  <2> QED
    BY <1>3, <1>9, <2>1, <2>2, Zenon
<1>10. N \in T
  <2> HIDE DEF T
  <2>1. 0 .. N \subseteq T
    BY <1>1, <1>8, <1>9, InductionTo, Zenon
  <2> QED
    BY <1>1, <2>1
<1> QED
  BY <1>5, <1>10

\* The tables of all nodes.
AllRouted == table \in [Node -> AnyTable] /\ \A n \in Node : table[n] \in RoutedOf(n)

LEMMA NewTable ==
  ASSUME AllRouted, NEW n \in Node, NEW dv \in RoutedOf(n), table' = [table EXCEPT ![n] = dv]
  PROVE  AllRouted'
<1>1. dv \in AnyTable
  BY DEF RoutedOf, TableOf
<1>2. table' \in [Node -> AnyTable]
  BY <1>1 DEF AllRouted
<1>3. ASSUME NEW m \in Node PROVE table'[m] \in RoutedOf(m)
  BY DEF AllRouted
<1> QED
  BY <1>2, <1>3 DEF AllRouted

\* What becomes of the table when an event is handled.
LEMMA HandledIs ==
  ASSUME NEW n \in Node, NEW p \in Node, NEW dv \in RoutedOf(n),
         NEW event \in {"none", "reply", "vector"}, NEW o \in Handled(dv, n, event, p),
         event = "reply" => {n, p} \in Links,
         event = "vector" => Head(vectors[n][p]) \in Pairs
  PROVE  o.dv \in RoutedOf(n)
<1>1. CASE event = "none"
  <2>1. o = Result(dv, FALSE)
    BY <1>1 DEF Handled
  <2> QED
    BY <2>1, ResultIs
<1>2. CASE event = "reply"
  <2>1. o \in UpdateNeighbourDistance(dv, p, Cost[{n, p}])
    BY <1>2 DEF Handled
  <2>2. Cost[{n, p}] \in LinkCost
    BY <1>2, CostAssumption, Constants DEF LinkCost
  <2> QED
    BY <2>1, <2>2, UpdateNeighbourIs
<1>3. CASE event = "vector"
  <2>1. o \in UpdateDvInfos(dv, p, Head(vectors[n][p]))
    BY <1>3 DEF Handled
  <2> QED
    BY <1>3, <2>1, UpdateDvInfosIs
<1> QED
  BY <1>1, <1>2, <1>3

LEMMA RoundIs ==
  ASSUME IInv, NEW n \in Node, NEW p \in Node, NEW event \in {"none", "reply", "vector"},
         NEW left \in [Node -> Seq(Pairs)], Round(n, event, p, left),
         event = "reply" => {n, p} \in Links,
         event = "vector" => Head(vectors[n][p]) \in Pairs
  PROVE  IInv'
<1>1. AllRouted /\ table[n] \in RoutedOf(n)
  BY DEF IInv, AllRouted
<1>2. PICK dv \in TablesWithout(n, silent[n]) :
        /\ \E o \in Handled(dv, n, event, p) : table' = [table EXCEPT ![n] = o.dv]
        /\ vectors' = [Sent(n, dv) EXCEPT ![n] = left]
        /\ UNCHANGED <<silent, up>>
  BY DEF Round
<1>3. dv \in RoutedOf(n) /\ dv \in TableOf(n)
  BY <1>1, TablesWithoutIs, RoutedIsTable
<1>4. PICK o \in Handled(dv, n, event, p) : table' = [table EXCEPT ![n] = o.dv]
  BY <1>2
<1>5. o.dv \in RoutedOf(n)
  BY <1>3, HandledIs
<1>6. AllRouted'
  BY <1>1, <1>4, <1>5, NewTable
<1>7. Sent(n, dv) \in [Node -> [Node -> Seq(Pairs)]]
  <2>1. ASSUME NEW q \in Node
        PROVE  /\ vectors[q] \in [Node -> Seq(Pairs)]
               /\ [vectors[q] EXCEPT ![n] = Append(@, DvInfo(dv, q))] \in [Node -> Seq(Pairs)]
    <3>1. DvInfo(dv, q) \in Pairs
      BY <1>3, DvInfoIs
    <3>2. vectors[q] \in [Node -> Seq(Pairs)] /\ vectors[q][n] \in Seq(Pairs)
      BY DEF IInv
    <3>3. Append(vectors[q][n], DvInfo(dv, q)) \in Seq(Pairs)
      <4> HIDE DEF Pairs
      <4> QED
        BY <3>1, <3>2
    <3> QED
      BY <3>2, <3>3
  <2> QED
    BY <2>1 DEF Sent
<1>8. vectors' \in [Node -> [Node -> Seq(Pairs)]]
  BY <1>2, <1>7
<1> QED
  BY <1>2, <1>6, <1>8 DEF IInv, AllRouted

LEMMA InitIInv == Init => IInv
<1> SUFFICES ASSUME Init PROVE IInv
  OBVIOUS
<1>1. ASSUME NEW n \in Node PROVE Table(n, Node) \in RoutedOf(n)
  <2> DEFINE infos == [t \in Target |-> NodeInfo(Invalid, IF t = Invalid THEN 0 ELSE Unreachable)]
             heard == [p \in Node |-> NoVector]
  <2>1. Table(n, Node) = [self |-> n, dvInfos |-> infos, neighboursDVInfo |-> heard]
    BY Zenon DEF Table, Target
  <2>2. infos \in [Target -> Infos] /\ heard \in [Node -> Heard]
    BY NoVectorHeard, Constants DEF Infos, NodeInfo, Target
  <2>3. \A t \in Node : infos[t] = NodeInfo(Invalid, Unreachable)
    BY Constants DEF Target
  <2>4. \A t \in Target : infos[t].nextHop = Invalid
    BY DEF NodeInfo
  <2>5. \A p \in Node : n \notin DOMAIN heard[p]
    BY NoVectorHeard
  <2> HIDE DEF infos, heard
  <2>6. Table(n, Node) \in TableOf(n)
    BY <2>1, <2>2, <2>3, <2>5, IsTable, Zenon DEF GoodInfo
  <2>7. \A t \in Target : Backed(Table(n, Node), t)
    BY <2>1, <2>4, Constants DEF Backed, Backing
  <2> QED
    BY <2>6, <2>7 DEF RoutedOf
<1>2. \A n \in Node : Table(n, Node) \in AnyTable
  BY <1>1 DEF RoutedOf, TableOf
<1> QED
  BY <1>1, <1>2 DEF Init, IInv

LEMMA GiveUpIs ==
  ASSUME IInv, NEW n \in Node, NEW p \in Node, GiveUp(n, p)
  PROVE  IInv'
<1>1. PICK dv \in TablesWithout(n, silent'[n]) : table' = [table EXCEPT ![n] = dv]
  BY DEF GiveUp
<1>2. AllRouted /\ table[n] \in RoutedOf(n)
  BY DEF IInv, AllRouted
<1>3. dv \in RoutedOf(n)
  BY <1>1, <1>2, TablesWithoutIs
<1>4. AllRouted'
  BY <1>1, <1>2, <1>3, NewTable
<1>5. /\ silent' = [silent EXCEPT ![n] = @ \cup {p}] /\ silent \in [Node -> SUBSET Node]
      /\ UNCHANGED <<vectors, up>>
  BY DEF GiveUp, IInv
<1>6. silent' \in [Node -> SUBSET Node] /\ \A m \in Node : silent[m] \subseteq silent'[m]
  BY <1>5
<1> QED
  BY <1>4, <1>5, <1>6 DEF IInv, AllRouted

LEMMA GiveUpLateIs ==
  ASSUME IInv, NEW n \in Node, NEW p \in Node, GiveUpLate(n, p)
  PROVE  IInv'
<1>1. PICK dv \in TablesWithout(n, silent[n] \cup {p}) : table' = [table EXCEPT ![n] = dv]
  BY DEF GiveUpLate
<1>2. AllRouted /\ table[n] \in RoutedOf(n)
  BY DEF IInv, AllRouted
<1>3. dv \in RoutedOf(n)
  BY <1>1, <1>2, TablesWithoutIs
<1>4. AllRouted'
  BY <1>1, <1>2, <1>3, NewTable
<1> QED
  BY <1>4 DEF IInv, AllRouted, GiveUpLate

LEMMA NextIInv == IInv /\ [Next]_vars => IInv'
<1> SUFFICES ASSUME IInv, [Next]_vars PROVE IInv'
  OBVIOUS
<1>1. \A n \in Node : vectors[n] \in [Node -> Seq(Pairs)]
  BY DEF IInv
<1>2. CASE UNCHANGED vars
  BY <1>2 DEF IInv, vars
<1>3. ASSUME NEW n \in Node, RoundIdle(n) PROVE IInv'
  <2>1. Round(n, "none", n, vectors[n])
    BY <1>3 DEF RoundIdle
  <2> QED
    BY <1>1, <2>1, RoundIs
<1>4. ASSUME NEW n \in Node, NEW p \in Node, GiveUp(n, p) PROVE IInv'
  BY <1>4, GiveUpIs
<1>5. ASSUME NEW n \in Node, NEW p \in Node, GiveUpLate(n, p) PROVE IInv'
  BY <1>5, GiveUpLateIs
<1>6. ASSUME NEW n \in Node, NEW p \in Node, RoundReply(n, p) PROVE IInv'
  <2>1. Round(n, "reply", p, vectors[n]) /\ p \notin silent[n]
    BY <1>6 DEF RoundReply
  <2>2. {n, p} \in Links
    BY <2>1 DEF IInv
  <2> QED
    BY <1>1, <2>1, <2>2, RoundIs
<1>7. ASSUME NEW n \in Node, NEW p \in Node, RoundVector(n, p) PROVE IInv'
  <2> DEFINE left == [vectors[n] EXCEPT ![p] = Tail(@)]
  <2>1. Round(n, "vector", p, left) /\ vectors[n][p] # <<>>
    BY <1>7 DEF RoundVector
  <2>2. vectors[n] \in [Node -> Seq(Pairs)] /\ vectors[n][p] \in Seq(Pairs)
    BY <1>1
  <2>3. Tail(vectors[n][p]) \in Seq(Pairs) /\ Head(vectors[n][p]) \in Pairs
    BY <2>1, <2>2
  <2>4. left \in [Node -> Seq(Pairs)]
    BY <2>2, <2>3
  <2> HIDE DEF left
  <2> QED
    BY <2>1, <2>3, <2>4, RoundIs
<1>8. ASSUME NEW l \in Links, LinkDown(l) \/ LinkUp(l) PROVE IInv'
  BY <1>8 DEF IInv, LinkDown, LinkUp
<1> QED
  BY <1>2, <1>3, <1>4, <1>5, <1>6, <1>7, <1>8 DEF Next

LEMMA IInvHolds == Spec => []IInv
  BY InitIInv, NextIInv, PTL DEF Spec

-----------------------------------------------------------------------------

\* Every entry a worker has computed is a route through another node of the
\* cluster or says unreachable in both fields (DistanceVector.cpp:254).
THEOREM TypeCorrect == Spec => []TypeOK
<1>1. IInv => TypeOK
  <2> SUFFICES ASSUME IInv PROVE TypeOK
    OBVIOUS
  <2>1. ASSUME NEW n \in Node
        PROVE  /\ Neighbours(table[n]) = Node
               /\ DOMAIN table[n].dvInfos = Node \cup {Invalid}
               /\ \A t \in Node : GoodInfo(n, table[n].dvInfos[t])
    <3>1. table[n] \in TableOf(n)
      BY RoutedIsTable DEF IInv
    <3> QED
      BY <3>1, TableFacts DEF Neighbours, Target
  <2> QED
    BY <2>1 DEF IInv, TypeOK, GoodInfo
<1> QED
  BY <1>1, IInvHolds, PTL

\* A node that has p's latest vector never routes to a target through p
\* while p routes to that target through the node (DistanceVector.cpp:160).
THEOREM MutualCorrect == Spec => []NoMutualRoute
<1>1. ASSUME IInv, NEW n \in Node, NEW p \in Node, NEW t \in Node \ {n, p}, n # p,
             table[n].neighboursDVInfo[p] = CurrentVector(p, n),
             table[n].dvInfos[t].nextHop = p, table[p].dvInfos[t].nextHop = n
      PROVE  FALSE
  <2> DEFINE pairs == DvInfo(table[p], n)
             At == {q[2] : q \in {r \in pairs : r[1] = t}}
  <2>1. /\ table[n] \in RoutedOf(n) /\ table[n] \in TableOf(n)
        /\ table[p] \in TableOf(p) /\ t \in Target
    BY <1>1, RoutedIsTable DEF IInv, Target
  \* n's route is backed by what p has told.
  <2>2. /\ t \in DOMAIN table[n].neighboursDVInfo[p]
        /\ table[n].neighboursDVInfo[p][t] < Unreachable
    BY <1>1, <2>1 DEF RoutedOf, Backed, Backing
  \* But what p tells n of a route through n is that there is none.
  <2>3. \A q \in pairs : q[1] = t => q[2] = Unreachable
    BY <1>1 DEF DvInfo, Advertised
  <2>4. DOMAIN VectorOf(table[n], pairs) = {q[1] : q \in pairs} \ {table[n].self}
        /\ (t \in DOMAIN VectorOf(table[n], pairs) => VectorOf(table[n], pairs)[t] = Min(At))
    BY DEF VectorOf
  <2>5. table[n].neighboursDVInfo[p] = VectorOf(table[n], pairs)
    BY <1>1, Zenon DEF CurrentVector
  <2>6. At # {} /\ \A d \in At : d = Unreachable
    <3>1. t \in {q[1] : q \in pairs}
      BY <2>2, <2>4, <2>5
    <3> HIDE DEF pairs
    <3> QED
      BY <2>3, <3>1
  <2>7. Min(At) = Unreachable
    <3> HIDE DEF At
    <3> QED
      BY <2>6, LeastIs, Constants
  <2> HIDE DEF pairs, At
  <2>8. table[n].neighboursDVInfo[p][t] = Unreachable
    BY <2>2, <2>4, <2>5, <2>7
  <2> QED
    BY <2>2, <2>8, Constants
<1>2. IInv => NoMutualRoute
  BY <1>1 DEF NoMutualRoute
<1> QED
  BY <1>2, IInvHolds, PTL
=============================================================================
