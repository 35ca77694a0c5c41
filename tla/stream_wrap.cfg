CONSTANTS
  Channels = {c0}
  ReliableWindows = 6
  FreeWindows = 3
  WindowSize = 1
  FragmentCounts = {1}
  MaxInTransit = 2
  MaxWaiting = 3
  StartPosition = 0
  MaxSequence = 9
  MaxUnsent = 1
  NetCapacity = 2
  Lifetime = 4
SPECIFICATION Spec
INVARIANTS
  AcknowledgementsMatch
PROPERTIES
  StreamIsFIFO
CHECK_DEADLOCK FALSE
