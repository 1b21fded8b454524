CONSTANTS
  a = a
  b = b
  idle = idle
  Task = {a, b, idle}
  NULL = NULL
  Main = Main
  Handler = Handler
  SizeMax = 255
  Prio <- SamePriority
  MAX_PRIORITIES = 2
  TickMax = 7
  SleepTicks = {1, 2}
  Sleepers = {a, b}
  Boot = {a, b, idle}
  Creators = {}
  WaitLists = {}
  ClientLabels = {}
  KernelTicks = 1
SPECIFICATION MCSpec
CHECK_DEADLOCK FALSE
INVARIANT SomeTaskIsReady
