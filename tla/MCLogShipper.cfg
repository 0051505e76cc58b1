CONSTANTS
  p1 = p1
  p2 = p2
  Callers = {p1, p2}
  MaxCalls = 5
  Size <- MCSize
  BufferSize = 2
  BatchSize = 2
  maxRequestBytes = 4
  emptyRequestBytes = 1
SPECIFICATION FairSpec
INVARIANTS
  EveryEntryAccounted
  RequestsCorrect
PROPERTY
  ShutdownEnds
CHECK_DEADLOCK FALSE
