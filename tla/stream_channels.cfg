CONSTANTS
  Channels = {c0, c1}
  ReliableWindows = 6
  FreeWindows = 3
  WindowSize = 2
  FragmentCounts = {1}
  MaxInTransit = 2
  MaxWaiting = 2
  StartPosition = 9
  MaxSequence = 12
  MaxUnsent = 1
  NetCapacity = 1
  Lifetime = 4
SPECIFICATION Spec
INVARIANTS
  OutstandingBounded
  AcknowledgedIsHeld
PROPERTIES
  StreamIsFIFO
CHECK_DEADLOCK FALSE
