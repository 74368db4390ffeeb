SPECIFICATION FairSpec
CONSTANTS
  Main = main
  Pid = {c1, c2}
  MaxSignals = 3
INVARIANT PassComplete
PROPERTIES SignalledEnd
CHECK_DEADLOCK FALSE
