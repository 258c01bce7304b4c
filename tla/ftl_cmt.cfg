SPECIFICATION Spec
CONSTANTS
  TotalPhysicalBlocks = 3
  TotalLogicalBlocks = 1
  PagesInBlock = 2
  PageCountToMaxPerf = 1
  GCFreeBlocks = 1
  ReclaimBlocks = 1
  PageAwareOfCache = TRUE
  EraseThreshold = 3
  RandomTweak = TRUE
  EnableCMT = TRUE
  CmtSize = 1
  FillingMode = 0
  PagesToWarmup = 1
  PagesToInvalidate = 1
  WordSize = 65536
  HostReads = {1}
  HostTrims = {}
  FormatRanges = {{0}}
INVARIANT PoolNeverCorrupted
CHECK_DEADLOCK FALSE
