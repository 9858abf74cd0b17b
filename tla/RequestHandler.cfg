SPECIFICATION HandlerSpec
CONSTANTS
  Requests = {q1}
  Rules <- MCRules
  RuleAction <- MCAction
  RuleDirection <- MCDirection
  Shapes <- MCShapes
  Answers <- MCAnswers
  NoAnswer = NoAnswer
  NoCapture = NoCapture
INVARIANTS
  HandlerInv
  RefusedStaysHome
  SentIsCaptured
  CaptureCoversDelivery
  CaptureHasFindings
CHECK_DEADLOCK FALSE
