SPECIFICATION FairSpec
CONSTANTS
  Captures = {c1, c2}
  Closers = {k1}
  Flushers = {f1}
  BufferSize = 1
  MaxRestarts = 0
  NoCapture = NoCapture
INVARIANTS
  AppendNeverPanics
CHECK_DEADLOCK FALSE
