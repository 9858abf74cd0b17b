SPECIFICATION StreamSpec
CONSTANTS
  Providers = {"anthropic", "chat", "responses"}
  MaxItems = 3
  MaxDeltas = 4
INVARIANTS
  KeepsAllSaid
  StreamReadsAsDocument
CHECK_DEADLOCK FALSE
