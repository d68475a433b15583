SPECIFICATION Spec
CONSTANTS
  Disk <- Directory
  BufLines = 2
  Depth = 2
  Environment <- Variables
  Starts <- AllStarts
  CodeNames <- Includable
  MaxCalls = 2
INVARIANTS Descriptors OutputSeparated ArgumentsLeft
PROPERTIES InOrder Switches
CHECK_DEADLOCK FALSE
