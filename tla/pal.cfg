SPECIFICATION FairSpec
CONSTANTS
  Layouts <- MCLayouts
  BlocksPerPlane = 1
  Timing <- MCTiming
  AntiLatency = 1
  ChClasses = {2, 3, 6}
  DieClasses = {3, 6}
  Requests <- MCRequests
  Arrivals = {0, 9}
  FlushTicks = {9}
  FLUSH_RANGE = 2
INVARIANTS
  ResourcesExclusive
  NoAliasing
PROPERTIES
  Scheduled
CHECK_DEADLOCK FALSE
