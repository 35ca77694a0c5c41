CONSTANTS
  Channels = {c0}
  ReliableWindows = 6
  FreeWindows = 3
  WindowSize = 2
  FragmentCounts = {1, 3}
  MaxInTransit = 2
  MaxWaiting = 4
  StartPosition = 10
  MaxSequence = 13
  MaxUnsent = 3
  NetCapacity = 2
  Lifetime = 4
SPECIFICATION FairSpec
INVARIANTS
  TypeOK
  WindowAccounting
  IncomingSorted
  WaitingAccounting
PROPERTIES
  StreamIsFIFO
  EventuallyDelivered
CHECK_DEADLOCK FALSE
