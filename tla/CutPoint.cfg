SPECIFICATION Spec
CONSTANTS
  MaxMessages = 5
  MaxCalls = 2
  MaxRules = 2
  Weights = {1, 3}
  RuleWeights = {0, 2}
  SystemTokens = 1
  SummaryTokens = 1
  Keeps = {2, 4, 6}
  WindowKeep = 4
  CostKeep = 2
  Threshold = 6
  Remaining = 3
  AssumedSummary = 2
  TemplateTokens = 1
  ResultTokens = 2
INVARIANTS
  PlanAllowed
  KeptBounded
  TurnsKeptWhole
  CompactionPays
CHECK_DEADLOCK FALSE
