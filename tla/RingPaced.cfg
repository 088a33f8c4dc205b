SPECIFICATION Spec
CONSTANTS
  MAX_TABLE_LEN = 1
  MAX_TABLE_ENTRY = 3
  MaxCalls = 5
  MaxOutstanding = 2
  IdleCoversStart = FALSE
INVARIANTS TypeOK ExecutedInOrder NoOverwrite
PROPERTIES ImplementsQueue
CHECK_DEADLOCK FALSE
