CONSTANTS
  Node = {1, 2}
  Hosts <- Both
  MaxConn = 2
  MaxFault <- NoFault
SPECIFICATION Spec
INVARIANT OneConnectionKept
