SPECIFICATION Spec
CONSTANTS
  Ratios = {1, 2}
  MAX_TABLE_LEN = 3
  MAX_TABLE_ENTRY = 1
  MAX_POOL_SIZE = 9
  MAX_POOL_IOV_SIZE = 4
  MAX_POOL_MSG_SIZE = 2
  Longest = 2
  MaxPieces = 2
  MaxOutstanding = 2
  MaxCalls = 4
CHECK_DEADLOCK FALSE
INVARIANTS OffsetsInPools SentAsMeant PoolsHoldTable
