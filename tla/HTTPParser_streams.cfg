SPECIFICATION MCSpec
CONSTANTS
  Connections <- AllConnections
  HTTP_POST_MAX_CONTENT_LENGTH = 5
  LengthMod = 16
  IntMax = 50
  MaxLength = 5
INVARIANTS TypeOK   RefusalKeepsEarlier  CutsDoNotMatter
CHECK_DEADLOCK FALSE
