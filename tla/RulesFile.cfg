SPECIFICATION RulesFileSpec
CONSTANTS
  RuleIds <- MCRuleIds
  BrokenPatterns <- MCBrokenPatterns
  StarterIds <- MCStarterIds
  InitialFiles <- AnyFile
  Editors = {e1}
  Sessions = {s1, s2}
  MaxEdits = 2
INVARIANTS
  RulesFileInv
  EditsStand
PROPERTIES
  SessionRunsTheBook
CHECK_DEADLOCK FALSE
