SPECIFICATION FairSessionSpec
CONSTANTS
  Requests = {q1, q2}
  Rules <- MCRules
  RuleAction <- MCAction
  RuleDirection <- MCDirection
  Shapes <- MCShapes
  Answers <- MCAnswers
  NoAnswer = NoAnswer
  NoCapture = NoCapture
  Main = main
  BufferSize = 1
  NoRequest = NoRequest
INVARIANTS
  OrderlyEndAccounts
  RowsTellTheTruth
PROPERTIES
  TeardownEnds
  SentReachesTable
CHECK_DEADLOCK FALSE
