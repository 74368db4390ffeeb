SPECIFICATION MCSpec
CONSTANTS
  Connections <- BlankLineInBody
  HTTP_POST_MAX_CONTENT_LENGTH = 5
  LengthMod = 16
  IntMax = 50
  MaxLength = 5
INVARIANTS WaitingKeepsBody
CHECK_DEADLOCK FALSE
