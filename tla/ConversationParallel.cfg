SPECIFICATION ConversationSpec
CONSTANTS
  Rules <- MCRules
  RuleAction <- MCAction
  RuleDirection <- MCDirection
  Texts <- MCTexts
  Apis = {"chat"}
  MaxParallel <- MCParallel
  MaxItems = 5
INVARIANTS
  EvaluatedBeforeSent
CHECK_DEADLOCK FALSE
