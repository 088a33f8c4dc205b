SPECIFICATION Spec
CONSTANTS
  Targets = {"ngx"}
  CPU_NUM_LIMIT = 2
  Ratios = {2}
  Fds = {3, 4, 5}
  MaxFiles = 4
  MaxCalls = 3
INVARIANT ActsOnMeantFile
CHECK_DEADLOCK FALSE
