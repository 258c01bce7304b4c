SPECIFICATION StackSpec
CONSTANTS
  Requests = {0, 1, 2, 3, 4, 5, 6, 7, 8, 9}
  CoreCounts = {0, 1, 2}
  CoreLatency = {1, 2}
  DeviceLatency = {1, 2, 4}
  MaxTick = 2
  Workloads <- AllWorkloads
  SubmissionLatency = 1
  CompletionLatency = 1
  LogicalPages = 5
  LogicalPageSize = 2
  MinBlock = 2
  Word = 64
  LastLog = 60
INVARIANT WakeUpsArmed
INVARIANT DepthKept
INVARIANT EndsComplete
PROPERTY FirstScheduledFirst
PROPERTY OnTime
PROPERTY SimulationEnds
CHECK_DEADLOCK FALSE
