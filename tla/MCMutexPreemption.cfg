CONSTANTS
  a = a
  b = b
  idle = idle
  Task = {a, b, idle}
  NULL = NULL
  Main = Main
  Handler = Handler
  SizeMax = 255
  Prio <- SamePriority
  MAX_PRIORITIES = 2
  TickMax = 1
  SleepTicks = {1}
  Sleepers = {b}
  Boot = {a, idle}
  Creators = {a}
  WaitLists <- OneMutex
  ClientLabels <- MutexLabels
  Lockers = {a, b}
  KernelTicks = 2
SPECIFICATION MCSpec
CHECK_DEADLOCK FALSE
INVARIANTS MutexTypeOK MutualExclusion OwnerIsHolder RunningIsCurrent BitmapMatches EveryTaskPlaced HaltsOnlyIfTorn HighestPriorityRuns NoLostWakeup
PROPERTY ImplementsPriorities
