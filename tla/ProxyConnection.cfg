SPECIFICATION FairConnectionSpec
CONSTANTS
  Handlers = {h1, h2}
  MaxChunks = 2
  Window = 1
INVARIANTS
  ConnectionInv
  LogIsTheTruth
  LastWordIsDelivered
  ServeOutlastsConnection
PROPERTIES
  ConnectionEnds
CHECK_DEADLOCK FALSE
