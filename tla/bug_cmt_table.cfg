SPECIFICATION Spec
CONSTANTS
  TotalPhysicalBlocks = 4
  TotalLogicalBlocks = 1
  PagesInBlock = 2
  PageCountToMaxPerf = 1
  GCFreeBlocks = 2
  ReclaimBlocks = 1
  PageAwareOfCache = TRUE
  EraseThreshold = 100
  RandomTweak = TRUE
  EnableCMT = TRUE
  CmtSize = 2
  FillingMode = 0
  PagesToWarmup = 1
  PagesToInvalidate = 1
  WordSize = 65536
  HostReads = {0}
  HostTrims = {0}
  FormatRanges = {}
INVARIANT ValidPagesHaveEntries
CHECK_DEADLOCK FALSE
