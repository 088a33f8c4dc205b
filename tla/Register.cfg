SPECIFICATION FairSpec
CONSTANTS
  Procs = {p1, p2, p3}
  Configs <- RegisterConfigs
  CPU_NUM_LIMIT = 4
  None = None
  ForkOverlap = FALSE
INVARIANTS TypeOK SetServed
PROPERTIES NoHijack InitReturns
CHECK_DEADLOCK FALSE
