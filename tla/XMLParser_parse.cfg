SPECIFICATION MCSpec
CONSTANTS
  Buffers <- MCBuffers
  ParseBufferSize = {7, 12}
  Nowhere = Nowhere
  Threads = {t1, t2, t3}
  User = t1
  Documents <- MCDocuments
  NoDocument = NoDocument
INVARIANTS TypeOK ParseExact FirstFaultReported  LeavesReadable WindowsInOrder
CHECK_DEADLOCK TRUE
