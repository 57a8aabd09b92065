SPECIFICATION Spec
CONSTANTS
  MaxEntries = 3
  MaxStops = 1
  Ends = {}
  Texts = {"plain", "separator"}
INVARIANTS
  LoadableAfterAppend
CHECK_DEADLOCK FALSE
