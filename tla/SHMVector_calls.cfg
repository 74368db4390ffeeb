SPECIFICATION FairSpec
CONSTANTS
  Process = {p1, p2}
  Element = {a, b}
  Raw = Raw
  SegmentSize = 2
  MemoryBytes = 7
  SizeT = 16
  Ops = {"reserve", "push_back", "at", "size", "capacity", "eraseAt", "getNextElement", "~SHMVector"}
  Index = {0, 1}
  Count = {2, 3, 4}
  Crashable = {p1, p2}
INVARIANTS TypeOK MutualExclusion InRegion  ReserveKept
PROPERTIES OnlyEraseAtLeaks Linearizable SomeCallReturns
CHECK_DEADLOCK FALSE
