\* A buffer of 6 bytes (4 usable) of two values: every pair of offsets,
\* every wrap-around and every length of write and read occurs.
CONSTANTS
  Size = 6
  Byte = {0, 1}
  Zero = 0
SPECIFICATION Spec
INVARIANTS
  TypeOK
  CapacityKept
  ReadDataReadsContents
  WriteWindowIsFree
PROPERTIES
  WriteAppends
  FifoSpec
