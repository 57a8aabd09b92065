SPECIFICATION Spec
CONSTANTS
  MaxRuns = 1
  MaxCrashes = 0
  MaxRules = 1
  MaxSteps = 1
  MaxCalls = 2
  Budget = 0
  Drift = {}
  InterruptAt = {"reply"}
  FailAt = {}
  SplitAt = {}
INVARIANTS
  PairedAtRest
CHECK_DEADLOCK FALSE
