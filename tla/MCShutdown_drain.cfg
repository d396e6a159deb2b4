CONSTANTS
  d1 = d1
  x1 = x1
  Modules = {d1}
  Consumers = {x1}
  Input = input
  Profiler = profiler
  Handler = handler
  NonStop = FALSE
  MayFail = {}
  MayHang = {}
  Timeout = 2
  MaxLines = 1
  MaxInterrupts = 0
SPECIFICATION Spec
INVARIANTS StoppedModulesDrained
CHECK_DEADLOCK FALSE
