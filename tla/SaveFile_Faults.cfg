SPECIFICATION Spec
CONSTANTS
  ByteBits = 3
  LzwBits = 4
  LongBits = 24
  TableSize = 17
  BuffSize = 14
  UargSize = 14
  Proc = {p1, p2}
  Target = {f}
  TempNames = 2
  NewBases = {1, 2}
  Starts <- AllStarts
INVARIANTS Kept Resumed RoundTrip
PROPERTIES Replaced Ends
CHECK_DEADLOCK FALSE
