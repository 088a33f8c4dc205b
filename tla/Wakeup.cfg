SPECIFICATION FairSpec
CONSTANTS
  MAX_TABLE_LEN = 1
  MAX_TABLE_ENTRY = 3
  MaxCalls = 3
  MaxOutstanding = 3
  IdleCoversStart = TRUE
INVARIANT SleeperFlagged
PROPERTIES StartWakes WorkerExits CallsComplete MarkedInTime
CHECK_DEADLOCK FALSE
