SPECIFICATION FairRunnerSpec
INVARIANTS
  RunOutlivesAgent
PROPERTIES
  InterruptEndsRun
CHECK_DEADLOCK FALSE
