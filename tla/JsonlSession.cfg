SPECIFICATION Spec
CONSTANTS
  MaxEntries = 4
  MaxStops = 2
  Ends = {"whole", "unterminated", "torn"}
  Texts = {"plain"}
INVARIANTS
  TypeOK
  ParentsEarlier
  KeptOnBranch
PROPERTIES
  PromiseKept
CHECK_DEADLOCK FALSE
