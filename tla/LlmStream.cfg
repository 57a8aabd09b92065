SPECIFICATION StreamSpec
CONSTANTS
  MaxRetries = 1
  Indexes = {0, 1}
  OtherIds = {idA}
  MaxRequests = 2
  MaxPieces = 4
INVARIANTS
  IdsOwn
PROPERTIES
  ReplyAsSent
CHECK_DEADLOCK FALSE
