CONSTANTS
  Invalid = 0
  Unreachable = 750
  Node = {1, 2, 3}
  ProbeOrder <- MiddleFirst
  MaxVectors = 2
  Links <- Chain
  Cost <- Equal
  MaxChanges = 1
SPECIFICATION Spec
INVARIANT
  UnreachableIsSkipped
