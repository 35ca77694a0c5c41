CONSTANTS
  Peers = {p1, p2}
  Packets = {k1, k2}
  Commands = {c1, c2, c3}
  MaxFragments = 2
  None = None
SPECIFICATION Spec
INVARIANTS
  ListsLinked
  CountsHolders
  NothingDangles
  NothingLeaks
CHECK_DEADLOCK FALSE
