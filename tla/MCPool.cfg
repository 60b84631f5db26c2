CONSTANTS
  main = main
  idle = idle
  a = a
  b = b
  c = c
  notify = notify
  Threads = {main, idle, a, b, c}
  Main = main
  IdleThread = idle
  NoThread = NoThread
  Mutexes = {}
  Conds = {notify}
  Barriers = {}
  Parties <- MCNone
  NoObject = NoObject
  PoolCond = notify
  Workers <- MCWorkers
  QueueSize = 3
  TaskPrio <- MCTaskPrio
  Highest = 1
  Lowest = 3
  MainPriority = 4
  IdlePriority = 5
  TaskPriority <- MCHighest
  AgingFactor <- MCZero
  AgingTime <- MCOne
  Program <- MCProgram
  Budget <- MCBudget
  MaxTime = 0
SPECIFICATION PoolSpec
INVARIANT NoTaskForgotten
INVARIANT FreedLast
PROPERTY ImplementsTaskPool
PROPERTY DestroyEnds
