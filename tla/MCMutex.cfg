CONSTANTS
  a = a
  b = b
  idle = idle
  Task = {a, b, idle}
  NULL = NULL
  Main = Main
  Handler = Handler
  SizeMax = 255
  Prio <- SamePriority
  MAX_PRIORITIES = 2
  TickMax = 0
  SleepTicks = {}
  Sleepers = {}
  Boot = {a, b, idle}
  Creators = {}
  WaitLists <- OneMutex
  ClientLabels <- MutexLabels
  Lockers = {a, b}
SPECIFICATION CalmMutexSpec
INVARIANTS NoLostWakeup EveryTaskPlaced
PROPERTIES WaitersWake EqualsTakeTurns ImplementsPriorities
