SPECIFICATION Spec
CONSTANTS
  Procs = {p1, p2}
  Configs <- RegisterConfigs
  CPU_NUM_LIMIT = 4
  None = None
  ForkOverlap = TRUE
INVARIANT SetServed
CHECK_DEADLOCK FALSE
