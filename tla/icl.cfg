SPECIFICATION Spec
CONSTANTS
  WaySize = 2
  ParallelIO = 3
  Settings <- Variants
  FlushRanges = {{0}}
  TrimRanges = {{0}}
  FormatRanges = {{1, 2}}
INVARIANT NoDuplicates
INVARIANT NewestReadable
INVARIANT NeverCorrupted
INVARIANT DurableWrites
