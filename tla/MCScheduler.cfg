CONSTANTS
  a = a
  b = b
  idle = idle
  Task = {a, b, idle}
  NULL = NULL
  Main = Main
  Handler = Handler
  SizeMax = 255
  Prio <- DistinctPriorities
  MAX_PRIORITIES = 3
  TickMax = 2
  SleepTicks = {1}
  Sleepers = {a, b}
  Boot = {a, idle}
  Creators = {a}
  WaitLists = {}
  ClientLabels = {}
SPECIFICATION CalmSchedulerSpec
INVARIANTS HaltsOnlyIfTorn EveryTaskPlaced HighestPriorityRuns
PROPERTIES SleepersWake ImplementsPriorities
