CONSTANTS
  Hosts = {h1, h2}
  Slots = {0}
  None = None
  Initiators = {h1}
  LimitedHosts = {}
  Calls = {"send", "now", "reset"}
  EventModes = {TRUE}
  Checksum = FALSE
  MaxConnects = 2
  MaxSequence = 1
  MaxData = 1
  MaxAttempts = 1
  MaxCopies = 1
  MaxRestarts = 0
  NetCapacity = 2
SPECIFICATION Spec
INVARIANTS
  SessionsTellApart
CHECK_DEADLOCK FALSE
