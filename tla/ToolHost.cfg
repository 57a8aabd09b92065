SPECIFICATION Spec
CONSTANTS
  MaxServers = 2
  MaxRuns = 2
  MaxReloads = 1
  MaxConnections = 3
  MaxCalls = 2
  MaxChanges = 1
  ReadonlyServers = {2}
  Modes = {"workspace", "readonly"}
  InterruptAt <- Points
INVARIANTS
  EffectApproved
  RunCatalog
  NothingStray
CHECK_DEADLOCK FALSE
