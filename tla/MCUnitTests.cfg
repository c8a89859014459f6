\* The packet of the tests, 14 + 7 bytes, in a buffer of 71 instead of 32768
\* bytes: as there, 8 bytes are left behind the last whole packet, too few for
\* a header; 3 instead of 1560 packets fill it and 2 instead of 50 follow.
CONSTANTS
  Size = 71
  Byte = {0, 1, 2, 3, 4, 5, 6, 7, 8, 9, 10, 11, 12, 13, 14, 15, 16, 17, 18, 19, 20, 21}
  Zero = 0
  HeaderLength = 14
  PayloadLength = 7
  More = 2
SPECIFICATION MCSpec
INVARIANTS
  PacketsComeBack
  RoutesAsExpected
  ReturnsAsExpected
CHECK_DEADLOCK FALSE
