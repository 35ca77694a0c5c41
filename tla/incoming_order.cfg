CONSTANTS
  Flags = {"reliable", "unsequenced", "fragment", "none"}
  FragmentCounts = {1, 2}
  ReliableWindows = 6
  WindowSize = 1
  FreeWindows = 3
  MaxUnreliable = 2
  GroupWindows = 4
  GroupWindowSize = 2
  FreeGroupWindows = 2
  MaxWaiting = 3
  StartPosition = 5
  StartGroup = 6
  MaxPackets = 3
  MaxBacklog = 5
  NetCapacity = 2
  Lifetime = 3
  GroupLifetime = 4
SPECIFICATION Spec
INVARIANTS
  TypeOK
  NothingOverdue
  ThrottleDropsWhole
PROPERTIES
  KeepsOrder
  DropsOnlyOvertaken
CHECK_DEADLOCK FALSE
