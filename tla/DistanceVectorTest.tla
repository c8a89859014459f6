------------------------- MODULE DistanceVectorTest -------------------------
(***************************************************************************)
(* The scenarios of src/unittest/DistanceVectorTest.cpp, run against the   *)
(* tables of DistanceVector.  A test is a sequence of steps: a call with   *)
(* the values the test accepts from it, or an expectation about a table.   *)
(* The test runs its steps in order; what is left open is the order in     *)
(* which each recomputation visits its targets, so a scenario that passes  *)
(* here passes whatever the hash of a node id is.                          *)
(***************************************************************************)
EXTENDS DistanceVector, Sequences, SequencesExt

\* The cluster of the tests, in the order of the ids.
A == 1
B == 2
C == 3
D == 4
E == 5
Cluster == {A, B, C, D, E}

-----------------------------------------------------------------------------
(***************************************************************************)
(* Steps                                                                   *)
(***************************************************************************)

True == {TRUE}
False == {FALSE}

New(n, neighbours)         == [op |-> "new", node |-> n, neighbours |-> neighbours]
Link(n, peer, d, returns)  == [op |-> "link", node |-> n, peer |-> peer, d |-> d, returns |-> returns]
\* n is given the vector that peer has for it.
Hear(n, peer, returns)     == [op |-> "hear", node |-> n, peer |-> peer, returns |-> returns]
Given(n, peer, pairs, returns) ==
    [op |-> "given", node |-> n, peer |-> peer, pairs |-> pairs, returns |-> returns]
Remember(n)                == [op |-> "remember", node |-> n]

Routes(n, target, d, hop)  == [op |-> "routes", node |-> n, target |-> target, route |-> NodeInfo(hop, d)]
NoRoute(n, target)         == Routes(n, target, Unreachable, Invalid)
Tells(n, peer, pairs)      == [op |-> "tells", node |-> n, peer |-> peer, pairs |-> pairs]
Unchanged(n)               == [op |-> "unchanged", node |-> n]
Entries(n, size)           == [op |-> "size", node |-> n, size |-> size]
ToldSize(n, peer, size)    == [op |-> "told", node |-> n, peer |-> peer, size |-> size]

\* Every node links directly to its neighbours: <<peer, distance>> in order.
Setup(n, links, returns) ==
    <<New(n, {l[1] : l \in Range(links)})>>
      \o [i \in 1..Len(links) |-> Link(n, links[i][1], links[i][2], returns)]

\* The routes of n after a step: <<target, distance, next hop>>.
TableIs(n, routes) ==
    <<Entries(n, Len(routes))>>
      \o [i \in 1..Len(routes) |-> Routes(n, routes[i][1], routes[i][2], routes[i][3])]

Told(n, peer, pairs) == <<ToldSize(n, peer, Cardinality(pairs)), Tells(n, peer, pairs)>>

-----------------------------------------------------------------------------
(***************************************************************************)
(* The tests                                                               *)
(***************************************************************************)

MainTestSetup ==
       Setup(A, <<<<B, 1>>, <<C, 3>>, <<E, 2>>>>, True)
    \o TableIs(A, <<<<B, 1, B>>, <<C, 3, C>>, <<E, 2, E>>>>)
    \o Setup(B, <<<<A, 1>>, <<C, 2>>>>, True)
    \o TableIs(B, <<<<A, 1, A>>, <<C, 2, C>>>>)
    \o Setup(C, <<<<A, 3>>, <<B, 2>>, <<E, 4>>>>, True)

MainTestSetupCDE ==
       TableIs(C, <<<<A, 3, A>>, <<B, 2, B>>, <<E, 4, E>>>>)
    \o Setup(D, <<<<E, 1>>>>, True)
    \o TableIs(D, <<<<E, 1, E>>>>)
    \o Setup(E, <<<<A, 2>>, <<C, 4>>, <<D, 1>>>>, True)
    \o TableIs(E, <<<<A, 2, A>>, <<C, 4, C>>, <<D, 1, D>>>>)

MainTestVectors ==
       Told(B, A, {<<C, 2>>})
    \o <<Hear(A, B, BOOLEAN)>>
    \o TableIs(A, <<<<B, 1, B>>, <<C, 3, B>>, <<E, 2, E>>>>)
    \o Told(C, A, {<<B, 2>>, <<E, 4>>})
    \o <<Hear(A, C, BOOLEAN)>>
    \o TableIs(A, <<<<B, 1, B>>, <<C, 3, B>>, <<E, 2, E>>>>)
    \o Told(E, A, {<<C, 4>>, <<D, 1>>})
    \o <<Hear(A, E, BOOLEAN)>>
    \o TableIs(A, <<<<B, 1, B>>, <<C, 3, B>>, <<E, 2, E>>, <<D, 3, E>>>>)

MainTestLinkDown ==
    <<Link(E, D, Unreachable, BOOLEAN)>>
    \o TableIs(E, <<<<A, 2, A>>, <<C, 4, C>>, <<D, Unreachable, Invalid>>>>)
    \o Told(E, A, {<<C, 4>>, <<D, Unreachable>>})
    \o <<Hear(A, E, BOOLEAN)>>
    \o Told(A, E, {<<B, 1>>, <<C, 3>>, <<D, Unreachable>>})
    \o <<NoRoute(A, D)>>

MainTest == MainTestSetup \o MainTestSetupCDE \o MainTestVectors \o MainTestLinkDown

PreferIndirectShorterPath ==
       <<New(C, {A, B})>>
    \o Setup(A, <<<<B, 1>>, <<C, 10>>>>, BOOLEAN)
    \o Setup(B, <<<<A, 1>>, <<C, 1>>>>, BOOLEAN)
    \o <<Hear(A, B, BOOLEAN), Routes(A, C, 2, B)>>

\* Five nodes; only the chain A - B - C - E - D exchanges vectors.
SpreadSetup ==
       Setup(A, <<<<B, 1>>, <<C, 3>>, <<E, 2>>>>, BOOLEAN)
    \o Setup(B, <<<<A, 1>>, <<C, 2>>>>, BOOLEAN)
    \o Setup(C, <<<<A, 3>>, <<B, 2>>, <<E, 4>>>>, BOOLEAN)
    \o Setup(D, <<<<E, 3>>>>, BOOLEAN)
    \o Setup(E, <<<<A, 2>>, <<C, 4>>, <<D, 3>>>>, BOOLEAN)

MultiRoundSpread ==
    LET round == <<Hear(A, B, BOOLEAN), Hear(B, C, BOOLEAN), Hear(C, E, BOOLEAN), Hear(E, D, BOOLEAN)>>
    IN  SpreadSetup \o round \o round \o round \o round \o round \o <<Routes(A, D, 10, B)>>

MultiRoundSpread2 ==
    LET round == <<Hear(E, D, BOOLEAN), Hear(C, E, BOOLEAN), Hear(B, C, BOOLEAN), Hear(A, B, BOOLEAN)>>
    IN  SpreadSetup \o round \o round \o round \o round \o round \o <<Routes(A, D, 10, B)>>

CostIncreaseMustPropagate ==
       Setup(A, <<<<B, 1>>>>, BOOLEAN) \o Setup(B, <<<<A, 1>>, <<C, 1>>>>, BOOLEAN)
    \o <<Hear(A, B, BOOLEAN), Routes(A, C, 2, B),
         Link(B, C, 100, BOOLEAN), Hear(A, B, BOOLEAN), Routes(A, C, 101, B)>>

PoisonReverse ==
       Setup(A, <<<<E, 2>>>>, BOOLEAN) \o Setup(E, <<<<A, 2>>, <<D, 1>>>>, BOOLEAN)
    \o Setup(D, <<<<E, 1>>>>, BOOLEAN)
    \o <<Hear(A, E, BOOLEAN), Routes(A, E, 2, E), Routes(A, D, 3, E)>>
    \o Told(A, E, {<<D, Unreachable>>})

FromNonNeighbour ==
       Setup(A, <<<<B, 1>>>>, BOOLEAN)
    \o <<Routes(A, B, 1, B), Remember(A), Given(A, C, {<<D, 2>>}, False), Unchanged(A)>>

UnknownDestination ==
       Setup(A, <<<<B, 1>>>>, BOOLEAN) \o Setup(B, <<<<A, 1>>, <<E, 4>>>>, BOOLEAN)
    \o <<Hear(A, B, BOOLEAN)>> \o TableIs(A, <<<<B, 1, B>>, <<E, 5, B>>>>)

EmptyVector ==
       Setup(A, <<<<B, 1>>>>, BOOLEAN)
    \o <<Remember(A), Given(A, B, {}, False), Unchanged(A)>>

SameInputTwice ==
       Setup(A, <<<<B, 1>>>>, BOOLEAN) \o Setup(B, <<<<A, 1>>, <<C, 2>>>>, BOOLEAN)
    \o <<Hear(A, B, True), Remember(A), Hear(A, B, False), Unchanged(A)>>

NonNeighbourDistance ==
       Setup(A, <<<<B, 1>>>>, BOOLEAN) \o Setup(B, <<<<A, 1>>, <<C, 2>>>>, BOOLEAN)
    \o Setup(C, <<<<B, 2>>>>, BOOLEAN)
    \o <<Link(A, C, 3, False)>>

SmallerOrSameDistance ==
       Setup(A, <<<<B, 3>>>>, True)  \o TableIs(A, <<<<B, 3, B>>>>)
    \o <<Link(A, B, 3, False)>>      \o TableIs(A, <<<<B, 3, B>>>>)
    \o <<Link(A, B, 1, True)>>       \o TableIs(A, <<<<B, 1, B>>>>)

UnreachableBoundary ==
    Setup(A, <<<<B, Unreachable>>>>, True) \o TableIs(A, <<<<B, Unreachable, Invalid>>>>)

LinkBreak ==
       Setup(A, <<<<E, 2>>>>, True) \o Setup(E, <<<<A, 2>>, <<D, 1>>>>, True)
    \o <<Entries(A, 1), Hear(A, E, True)>>
    \o TableIs(A, <<<<E, 2, E>>, <<D, 3, E>>>>)
    \o <<Link(E, D, Unreachable, True)>>
    \o TableIs(E, <<<<A, 2, A>>, <<D, Unreachable, Invalid>>>>)
    \o <<Hear(A, E, True)>>
    \o TableIs(A, <<<<E, 2, E>>, <<D, Unreachable, Invalid>>>>)

\* A - E - B is shorter than A - D - B until the link E - B changes.
TwoWays(costEB) ==
       Setup(A, <<<<E, 2>>, <<D, 5>>>>, True) \o Setup(E, <<<<A, 2>>, <<B, costEB>>>>, True)
    \o Setup(D, <<<<A, 5>>, <<B, 2>>>>, True)

ViaE == TableIs(A, <<<<E, 2, E>>, <<D, 5, D>>, <<B, 3, E>>>>)
ViaD == TableIs(A, <<<<E, 2, E>>, <<D, 5, D>>, <<B, 7, D>>>>)

SwitchToBackupPath ==
       TwoWays(1)
    \o <<Hear(A, E, True), Hear(A, D, False)>> \o ViaE
    \o <<Link(E, B, Unreachable, True), Hear(A, E, True)>> \o ViaD

BackupPathArrivesLater ==
       TwoWays(1)
    \o <<Hear(A, E, True)>> \o ViaE
    \o <<Link(E, B, Unreachable, True), Hear(A, E, True)>>
    \o TableIs(A, <<<<E, 2, E>>, <<D, 5, D>>, <<B, Unreachable, Invalid>>>>)
    \o <<Hear(A, D, True)>> \o ViaD

CheaperBackupPath ==
       TwoWays(1)
    \o <<Hear(A, E, True), Hear(A, D, False)>> \o ViaE
    \o <<Link(E, B, 7, True), Hear(A, E, True)>> \o ViaD

AlwaysChooseSamePath ==
       TwoWays(5)
    \o <<Hear(A, E, True), Hear(A, D, True), Hear(A, E, False)>> \o ViaD

LinkUpAfterDown ==
       Setup(A, <<<<E, 2>>>>, True) \o Setup(E, <<<<A, 2>>, <<B, 1>>>>, True)
    \o <<Hear(A, E, True)>> \o TableIs(A, <<<<E, 2, E>>, <<B, 3, E>>>>)
    \o <<Link(A, E, Unreachable, True)>>
    \o TableIs(A, <<<<E, Unreachable, Invalid>>, <<B, Unreachable, Invalid>>>>)
    \o <<Link(A, E, 2, True)>> \o TableIs(A, <<<<E, 2, E>>, <<B, Unreachable, Invalid>>>>)
    \o <<Hear(A, E, True)>> \o TableIs(A, <<<<E, 2, E>>, <<B, 3, E>>>>)

DuplicateDvInfo ==
       Setup(A, <<<<E, 2>>>>, True)
    \o <<Given(A, E, {<<B, 1>>, <<B, 3>>}, True)>>
    \o TableIs(A, <<<<E, 2, E>>, <<B, 3, E>>>>)

DistanceIllegal ==
       Setup(A, <<<<E, 9999>>>>, True) \o TableIs(A, <<<<E, Unreachable, Invalid>>>>)
    \o <<Link(A, E, 2, True)>> \o TableIs(A, <<<<E, 2, E>>>>)
    \o <<Given(A, E, {<<B, 9999>>}, True)>>
    \o TableIs(A, <<<<E, 2, E>>, <<B, Unreachable, Invalid>>>>)

Tests ==
    {MainTest, PreferIndirectShorterPath, MultiRoundSpread, MultiRoundSpread2,
     CostIncreaseMustPropagate, PoisonReverse, FromNonNeighbour, UnknownDestination,
     EmptyVector, SameInputTwice, NonNeighbourDistance, SmallerOrSameDistance,
     UnreachableBoundary, LinkBreak, SwitchToBackupPath, BackupPathArrivesLater,
     CheaperBackupPath, AlwaysChooseSamePath, LinkUpAfterDown, DuplicateDvInfo,
     DistanceIllegal}

-----------------------------------------------------------------------------
(***************************************************************************)
(* Running a test                                                          *)
(***************************************************************************)

VARIABLES
    test,       \* the test that runs
    pc,         \* the step it is at
    table,      \* the table of each node
    remembered, \* the copy of a table taken by a test
    returned    \* what the last call returned

vars == <<test, pc, table, remembered, returned>>

Nobody == Table(Invalid, {})

Init ==
    /\ test \in Tests
    /\ pc = 1
    /\ table = [n \in Cluster |-> Nobody]
    /\ remembered = Nobody
    /\ returned = FALSE

Running == pc <= Len(test)
Step == test[pc]

\* What the call of a step may leave in the node's table and return.
Outcomes ==
    CASE Step.op = "new"   -> {Result(Table(Step.node, Step.neighbours), FALSE)}
      [] Step.op = "link"  -> UpdateNeighbourDistance(table[Step.node], Step.peer, Step.d)
      [] Step.op = "hear"  -> UpdateDvInfos(table[Step.node], Step.peer, DvInfo(table[Step.peer], Step.node))
      [] Step.op = "given" -> UpdateDvInfos(table[Step.node], Step.peer, Step.pairs)

Call ==
    /\ Running
    /\ Step.op \in {"new", "link", "hear", "given"}
    /\ \E o \in Outcomes :
         /\ table' = [table EXCEPT ![Step.node] = o.dv]
         /\ returned' = o.returns
    /\ pc' = pc + 1
    /\ UNCHANGED <<test, remembered>>

Copy ==
    /\ Running
    /\ Step.op = "remember"
    /\ remembered' = table[Step.node]
    /\ pc' = pc + 1
    /\ UNCHANGED <<test, table, returned>>

Expect ==
    /\ Running
    /\ Step.op \in {"routes", "tells", "unchanged", "size", "told"}
    /\ pc' = pc + 1
    /\ UNCHANGED <<test, table, remembered, returned>>

Next == Call \/ Copy \/ Expect

Spec == Init /\ [][Next]_vars

-----------------------------------------------------------------------------
(***************************************************************************)
(* Properties                                                              *)
(***************************************************************************)

At(op) == Running /\ Step.op = op

\* Every EXPECT of the unit tests about a route, about the pairs a node tells
\* a neighbour and about a table that must stay as it was holds, whatever the
\* order in which the recomputations visited the targets
\* (DistanceVectorTest.cpp:65-83; the sizes are SizesAsExpected's).
RoutesAsExpected ==
    /\ At("routes") =>
         /\ Step.target \in DOMAIN table[Step.node].dvInfos
         /\ table[Step.node].dvInfos[Step.target] = Step.route
    /\ At("tells") => Step.pairs \subseteq DvInfo(table[Step.node], Step.peer)
    /\ At("unchanged") => table[Step.node].dvInfos = remembered.dvInfos

\* Every EXPECT_EQ of the unit tests about the number of entries of a table, or
\* of a vector for a neighbour (DistanceVectorTest.cpp:105, 253), as it stands.
SizesAsExpected ==
    /\ At("size") => Cardinality(DOMAIN table[Step.node].dvInfos) = Step.size
    /\ At("told") => Cardinality(DvInfo(table[Step.node], Step.peer)) = Step.size

\* Every EXPECT of the unit tests about a returned value holds: a call says
\* that the table changed exactly when the test expects it to.
ReturnsAsExpected ==
    LET last == test[pc - 1]
    IN  pc > 1 /\ last.op \in {"link", "hear", "given"} => returned \in last.returns

=============================================================================
