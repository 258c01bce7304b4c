SPECIFICATION Spec
CONSTANTS
  NumSQ = 2
  NumCQ = 2
  QueueSize = 3
  WRRHigh = 2
  WRRMedium = 2
  MaxRequest = 2
  AggregationTime = TRUE
  AggregationThreshold = 1
  Hosts <- SafetyHosts
INVARIANT NeverPanics
INVARIANT NoCommandLost
INVARIANT InterruptOwed
CHECK_DEADLOCK FALSE
