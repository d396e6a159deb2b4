CONSTANTS
  d1 = d1
  x1 = x1
  Modules = {d1}
  Consumers = {x1}
  Input = input
  Profiler = profiler
  Handler = handler
  NonStop = FALSE
  MayFail = {d1}
  MayHang = {d1}
  Timeout = 2
  MaxLines = 1
  MaxInterrupts = 1
SPECIFICATION Spec
INVARIANTS TypeOK HandlerStopsLast DatabasesOutliveChildren GracefulKillsNobody StopsAfterLastLine
CHECK_DEADLOCK FALSE
