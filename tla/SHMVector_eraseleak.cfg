SPECIFICATION FairSpec
CONSTANTS
  Process = {p1, p2}
  Element = {a, b}
  Raw = Raw
  SegmentSize = 2
  MemoryBytes = 7
  SizeT = 16
  Ops = {"push_back", "eraseAt"}
  Index = {0}
  Count = {2}
  Crashable = {}
PROPERTIES LockReleased
CHECK_DEADLOCK FALSE
