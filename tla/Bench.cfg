SPECIFICATION Spec
CONSTANTS
  Clients = {c1, c2}
  MAX_THREAD = 3
  MaxRequests = 2
  MaxRefusals = 1
  NoTimeoutInSegment = TRUE
  Servers = {"epoll", "esca", "uring"}
  Sizes <- MCSizes
CHECK_DEADLOCK FALSE
INVARIANTS OneEcho OwnBytes BuffersAccounted ServerSurvives ReportComplete
PROPERTY BenchEnds
