SPECIFICATION Spec
CONSTANTS
  Conn = {c1, c2, c3}
  MaxFD = 2
  SegmentCount = 2
  ReadMax = 2
  EventMax = 1
  MaxSend = 2
  NoClient = NoClient
  Failing = {"poll", "epoll_wait"}
  Signals = FALSE
SYMMETRY Symmetry
INVARIANTS TypeOK StreamsIntact RegistryAgrees  NothingStranded
CHECK_DEADLOCK FALSE
