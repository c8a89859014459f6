\* Two nodes that list each other; one attempt may be refused.  Three sockets:
\* both may dial at the same time, and one may dial once more.
CONSTANTS
  Node = {1, 2}
  Hosts <- Both
  MaxConn = 3
  MaxFault <- OneRefused
SPECIFICATION FairSpec
INVARIANTS
  OneAttemptPerHost
  PairKeepsConnection
PROPERTIES
  RejectedIsClosed
  DialledIsLinked
