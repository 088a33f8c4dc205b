SPECIFICATION Spec
CONSTANTS
  Targets = {"ngx", "ngx_tls", "ngx_ktls", "lighty", "redis", "echo", "mcached"}
  CPU_NUM_LIMIT = 2
  Ratios = {1, 2}
  Fds = {3, 4, 5}
  MaxFiles = 4
  MaxCalls = 3
INVARIANTS TypeOK HeldIsOpen QueuedActsOnMeantFile StreamOrder FileOrder
CHECK_DEADLOCK FALSE
