CONSTANTS
  d1 = d1
  x1 = x1
  Modules = {d1}
  Consumers = {}
  Input = input
  Profiler = profiler
  Handler = handler
  NonStop = FALSE
  MayFail = {}
  MayHang = {d1}
  Timeout = 2
  MaxLines = 1
  MaxInterrupts = 0
SPECIFICATION Spec
PROPERTIES StopsWhenDone ShutdownEnds
CHECK_DEADLOCK FALSE
