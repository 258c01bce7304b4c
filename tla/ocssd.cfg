SPECIFICATION FairSpec
CONSTANTS
  Chunks = 2
  Pages = 2
  WriteSize = 2
  Versions = {"1.2", "2.0"}
  VectorLists <- MCVectorLists
  Ranges <- MCRanges
  MaskBits = 64
  MaxNand = 2
  MaxCommands = 3
INVARIANTS
  DescriptorsTrue
  ReadsNewest

  
CHECK_DEADLOCK FALSE
