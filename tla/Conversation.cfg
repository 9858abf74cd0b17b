SPECIFICATION ConversationSpec
CONSTANTS
  Rules <- MCRules
  RuleAction <- MCAction
  RuleDirection <- MCDirection
  Texts <- MCTexts
  Apis = {"anthropic", "chat"}
  MaxParallel <- MCInTurn
  MaxItems = 6
INVARIANTS
  ConversationInv
  EvaluatedBeforeSent
  RefusedNeverSent
CHECK_DEADLOCK FALSE
