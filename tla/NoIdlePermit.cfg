CONSTANTS
  a = a
  b = b
  idle = idle
  Task = {a, b, idle}
  NULL = NULL
  Main = Main
  Handler = Handler
  SizeMax = 255
  Prio <- SamePriority
  MAX_PRIORITIES = 2
  TickMax = 0
  SleepTicks = {}
  Sleepers = {}
  Boot = {a, b, idle}
  Creators = {}
  WaitLists <- OneSemaphore
  ClientLabels <- SemLabels
  Users = {a, b}
  max_count = 2
  InitCount = 1
  KernelTicks = 1
SPECIFICATION MCSpec
CHECK_DEADLOCK FALSE
INVARIANT NoIdlePermit
