SPECIFICATION FairSpec
CONSTANTS
  MaxRuns = 1
  MaxCrashes = 1
  MaxRules = 2
  MaxSteps = 2
  MaxCalls = 2
  Budget = 6
  Drift = {1}
  InterruptAt <- Points
  FailAt <- Points
  SplitAt = {}
INVARIANTS
  WithinBudget
  EffectsRecorded
  UnexecutedHadNoEffect
  MemoryMatchesLog
PROPERTIES
  RunEnds
CHECK_DEADLOCK FALSE
