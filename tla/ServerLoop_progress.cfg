SPECIFICATION FairSpec
CONSTANTS
  Conn = {c1, c2}
  MaxFD = 2
  SegmentCount = 2
  ReadMax = 2
  EventMax = 1
  MaxSend = 2
  NoClient = NoClient
  Failing = {}
  Signals = TRUE
PROPERTIES DataIsRead  StopsOnSignal
CHECK_DEADLOCK FALSE
