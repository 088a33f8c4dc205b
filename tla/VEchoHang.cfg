SPECIFICATION Spec
CONSTANTS
  Clients = {c1, c2}
  MAX_THREAD = 3
  MaxRequests = 2
  MaxRefusals = 1
  NoTimeoutInSegment = FALSE
  Servers = {"esca"}
  Sizes <- MCSizes
CHECK_DEADLOCK FALSE
PROPERTY BenchEnds
