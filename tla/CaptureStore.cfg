SPECIFICATION FairSpec
CONSTANTS
  Captures = {c1, c2, c3}
  Closers = {k1, k2}
  Flushers = {f1}
  BufferSize = 2
  MaxRestarts = 1
  NoCapture = NoCapture
INVARIANTS
  StoreInv
  NothingVanishes
  RowsInOrder
  CloseFlushes
  FlushLeavesAtMostOne
PROPERTIES
  CloseReturns
  ImplementsLog
CHECK_DEADLOCK FALSE
