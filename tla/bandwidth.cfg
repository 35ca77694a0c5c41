CONSTANTS
  PeerCount = 3
  IncomingOf <- TakeAtMost
  OutgoingOf <- SendAtMost
  HostBandwidths = {0, 130}
  Loads = {150}
  Interval = 2
  Pauses = {2, 64}
  Scale = 32
  Acceleration = 32
  Deceleration = 32
  Word = 8192
SPECIFICATION Spec
INVARIANTS
  TypeOK
PROPERTIES
  SharesWithinBandwidth
  ThrottledForCause
  AnnouncedWithinBandwidth
CHECK_DEADLOCK FALSE
