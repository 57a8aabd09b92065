SPECIFICATION Spec
CONSTANTS
  MaxRuns = 2
  MaxCrashes = 1
  MaxRules = 1
  MaxSteps = 1
  MaxCalls = 2
  Budget = 0
  Drift = {}
  InterruptAt <- GuardedInterrupts
  FailAt <- GuardedWrites
  SplitAt <- GuardedSplits
INVARIANTS
  TypeOK
  PairedAtRest
  RefusedOnlyMidBatch
  EndReasonFaithful
  EventsPaired
PROPERTIES
  ConversationKept
CHECK_DEADLOCK FALSE
