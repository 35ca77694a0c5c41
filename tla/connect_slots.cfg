CONSTANTS
  Hosts = {h1, h2}
  Slots = {0, 1}
  None = None
  Initiators = {h1}
  LimitedHosts = {h2}
  Calls = {"now", "reset", "limit"}
  EventModes = {TRUE}
  Checksum = FALSE
  MaxConnects = 1
  MaxSequence = 2
  MaxData = 1
  MaxAttempts = 1
  MaxCopies = 1
  MaxRestarts = 0
  NetCapacity = 2
SPECIFICATION Spec
INVARIANTS
  ConnectedCounted
  OneSlotPerAttempt
CHECK_DEADLOCK FALSE
