\* A write buffer of 5 bytes (3 usable) and a kernel buffer of 2; packets of
\* 1 byte and of 4, which only the kernel's buffer and the write buffer hold
\* together: they are sent at once, split, wait, find no room, or end the
\* process; the peer may reset the connection.
CONSTANTS
  Size = 5
  Lens = {1, 4}
  MaxSend = 3
  KernelSpace = 2
  EdgeSpace = 2
  Resets = TRUE
SPECIFICATION FairSpec
INVARIANTS
  TypeOK
  WholeUntilPartialFlush
  ArmedWhilePending
  EventHasData
PROPERTIES
  ChannelSpec
  PendingIsSent
CHECK_DEADLOCK FALSE
