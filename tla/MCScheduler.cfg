\* One slot, a line of two, and a fourth request that finds both full.
SPECIFICATION FairSpec
CONSTANTS
  Requests = {r1, r2, r3, r4}
  MaxConcurrency = 1
  MaxQueueDepth = 2
  QueueTimeout = TRUE
INVARIANTS
  QueueIsSound
  OnlyTheQueueOutlivesDrain
PROPERTIES
  ImplementsAdmission
  WaitersAreServed
CHECK_DEADLOCK FALSE
