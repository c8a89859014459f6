\* The unit tests as in MCUnitTests.cfg, with their expectations about the
\* number of entries of a table or vector.
CONSTANTS
  Size = 71
  Byte = {0, 1, 2, 3, 4, 5, 6, 7, 8, 9, 10, 11, 12, 13, 14, 15, 16, 17, 18, 19, 20, 21}
  Zero = 0
  HeaderLength = 14
  PayloadLength = 7
  More = 2
SPECIFICATION MCSpec
INVARIANT SizesAsExpected
CHECK_DEADLOCK FALSE
