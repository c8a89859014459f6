\* A read buffer of 7 bytes (5 usable), headers of 2, at most 4 bytes per recv
\* and two decoder threads: packets are split and joined in every way, wrap
\* around, overflow the buffer and overtake each other.
CONSTANTS
  Size = 7
  RecvSize = 4
  Header = 2
  Plans <- MixedPlans
  Worker = {1, 2}
SPECIFICATION Spec
INVARIANTS
  TypeOK
  DeliveredInOrder
  BufferFollowsDelivered
  NothingStranded
  MagicFailsOnlyWrapped
CHECK_DEADLOCK FALSE
