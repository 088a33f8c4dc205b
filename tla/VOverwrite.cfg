SPECIFICATION Spec
CONSTANTS
  MAX_TABLE_LEN = 1
  MAX_TABLE_ENTRY = 2
  MaxCalls = 4
  MaxOutstanding = 2
  IdleCoversStart = FALSE
INVARIANT NoOverwrite
CHECK_DEADLOCK FALSE
