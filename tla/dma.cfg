SPECIFICATION Spec
CONSTANTS
  TransferUnit = 2
  QueueSize = 4
  PageSize = 3
  ListEntries = 3
  MaxCommands = 2
CONSTANT Transfers <- MCTransfers
INVARIANT TransferComplete
PROPERTY ImplementsChannel
PROPERTY TransfersEnd
CHECK_DEADLOCK FALSE
