SPECIFICATION FairSpec
CONSTANTS
  MaxOps = 3
  MaxRequests = 4
  MaxVersion = 2
  MaxPipe = 2
  MaxInterrupts = 2
  InterruptAt = {"starting", "listing", "calling", "closing", "killed"}
INVARIANTS
  ChangeNoticed
  NothingLeft
PROPERTIES
  CallsCarriedOutOnce
  OperationsEnd
CHECK_DEADLOCK FALSE
