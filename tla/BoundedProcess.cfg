SPECIFICATION FairSpec
CONSTANTS
  MaxRuns = 2
  MaxDescendants = 2
  MaxUnread = 1
  MayEscape = TRUE
  InterruptAt = {"wait", "cleanup"}
INVARIANTS
  GroupGone
  OwnOutputOnly
  OutputComplete
PROPERTIES
  CommandEnds
CHECK_DEADLOCK FALSE
