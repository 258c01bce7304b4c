SPECIFICATION FairSpec
CONSTANTS
  TotalPhysicalBlocks = 5
  TotalLogicalBlocks = 1
  PagesInBlock = 2
  PageCountToMaxPerf = 2
  GCFreeBlocks = 2
  ReclaimBlocks = 2
  PageAwareOfCache = FALSE
  EraseThreshold = 3
  RandomTweak = TRUE
  EnableCMT = FALSE
  CmtSize = 1
  FillingMode = 2
  PagesToWarmup = 1
  PagesToInvalidate = 1
  WordSize = 65536
  HostReads = {0}
  HostTrims = {0}
  FormatRanges = {}
INVARIANT TypeOK
INVARIANT PoolPartition
INVARIANT SequentialWrites
INVARIANT MappingConsistent
INVARIANT OnlyOutOfSpacePanics
INVARIANT NoValidPageErased
INVARIANT FreeListSorted
PROPERTY ImplementsStore
PROPERTY CallsEnd
CHECK_DEADLOCK FALSE
