SPECIFICATION Spec
CONSTANTS
  pgsize = 4096
  ENTRY_SIZE = 64
  CPUs = {cpu0, cpu1}
  Keys <- MCKeys
  Files <- MCFiles
  NoFile = NoFile
  Garbage = {0, 1}
  MaxMoves = 1
CHECK_DEADLOCK FALSE
INVARIANTS TableWhole CodePresent WorkerConfigured KernelDivides ParsedAsWritten SameMemory
