SPECIFICATION FairSpec
CONSTANTS
  Docs = {a, b, c}
  Texts = {0, 1, 2}
  MaxDocuments = 2
  MaxEdits = 1
  MaxPipe = 1
INVARIANTS
  TypeOK
  OwnTextFresh
  PulledReportsFresh
PROPERTIES
  QueryEnds
CHECK_DEADLOCK FALSE
