SPECIFICATION FairSpec
CONSTANTS
  h1 = h1
  h2 = h2
  h3 = h3
  d1 = d1
  d2 = d2
  a = a
  b = b
  c = c
  html = html
  js = js
  Host = {h1, h2, h3}
  Directory = {d1, d2}
  Path <- HostPaths
  File = {a, b, c}
  Dir <- FileDirs
  Extension <- FileTypes
  Mimetypes <- Types
  MaxFD = 5
  MaxChanges = 2
  None = None
INVARIANTS TypeOK StableServed DescriptorsOwned EtagNotOlder ServesPrepared
PROPERTIES TermEnds
CHECK_DEADLOCK FALSE
