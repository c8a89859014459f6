----------------------------- MODULE MCUnitTests -----------------------------
(***************************************************************************)
(* The repository's two unit test programs, one after the other: first the *)
(* tests of the ring buffer, then those of the routing table.              *)
(***************************************************************************)
EXTENDS RingBufferTest

VARIABLES routeTest, pc, table, remembered, returned

routeVars == <<routeTest, pc, table, remembered, returned>>

\* The distances of the code; node ids are 1 to 5 and 0 is the invalid id.
Routes == INSTANCE DistanceVectorTest
            WITH Invalid <- 0, Unreachable <- 750, test <- routeTest

MCInit == TestInit /\ Routes!Init

RingBufferProgram == TestNext /\ UNCHANGED routeVars
DistanceVectorProgram == phase = "done" /\ Routes!Next /\ UNCHANGED testVars

MCNext == RingBufferProgram \/ DistanceVectorProgram

MCSpec == MCInit /\ [][MCNext]_<<testVars, routeVars>>

\* What the routing table's tests expect of routes, of the sizes of tables and
\* vectors and of returned values (DistanceVectorTest.cpp).
RoutesAsExpected == Routes!RoutesAsExpected
SizesAsExpected == Routes!SizesAsExpected
ReturnsAsExpected == Routes!ReturnsAsExpected
=============================================================================
