SPECIFICATION GeneratorFairSpec
CONSTANTS
  HeaderID = {h1, h2}
  OkBytes = 3
  StatusBytes = {4}
  LineBytes = 1
  BodyLengths = {0, 1, 3, 4}
  Uninit = {0, 2}
INVARIANTS GeneratorTypeOK WindowInMessage SentBeforePointer
PROPERTIES SendEnds
