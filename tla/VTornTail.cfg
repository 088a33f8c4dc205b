SPECIFICATION Spec
CONSTANTS
  MAX_TABLE_LEN = 2
  MAX_TABLE_ENTRY = 3
  MaxCalls = 4
  MaxOutstanding = 3
  IdleCoversStart = FALSE
INVARIANT ExecutedInOrder
CHECK_DEADLOCK FALSE
