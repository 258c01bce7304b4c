SPECIFICATION Spec
CONSTANTS
  TotalLogicalPages = 4
  LogicalPageSize = 2
  NlbRange = 3
  WordSize = 16
  MaxCommands = 5
CONSTANT LbaSizes <- MCLbaSizes
CONSTANT Hosts <- MCHosts
INVARIANT SpacePartition
INVARIANT ReadsNewest
INVARIANT NothingUsedAfterFree
PROPERTY AnsweredOnce
CHECK_DEADLOCK FALSE
