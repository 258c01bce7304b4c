SPECIFICATION FairSpec
CONSTANTS
  Slots = {1, 2}
  Kinds = {"readNCQ", "writeNCQ", "readDMA", "writeDMA", "flushCache",
           "identifyDevice", "readVerify", "setMode", "unknown"}
  MaxCommands = 2
  MaxResets = 1
INVARIANT DoneMeansDone
PROPERTY AllCompleted
CHECK_DEADLOCK FALSE
