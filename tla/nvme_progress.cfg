SPECIFICATION FairSpec
CONSTANTS
  NumSQ = 3
  NumCQ = 1
  QueueSize = 3
  WRRHigh = 1
  WRRMedium = 2
  MaxRequest = 2
  AggregationTime = TRUE
  AggregationThreshold = 1
  Hosts <- LiveHosts
PROPERTY AllAnswered
PROPERTY ShutdownStops
CHECK_DEADLOCK FALSE
