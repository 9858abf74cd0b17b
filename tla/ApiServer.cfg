SPECIFICATION FairServeSpec
CONSTANTS
  Streams = {c1}
  Readers = {r1}
  StreamPage = 2
  DefaultLimit = 2
  MaxLimit = 3
  AskedLimits <- MCAskedLimits
  MaxRows = 6
INVARIANTS
  StreamIsExact
  PagesAreExact
  NothingMissed
PROPERTIES
  NewCapturesArrive
  ShutdownEnds
CHECK_DEADLOCK FALSE
