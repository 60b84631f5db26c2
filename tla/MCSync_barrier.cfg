CONSTANTS
  main = main
  idle = idle
  a = a
  b = b
  m = m
  n = n
  c = c
  bar = bar
  Threads = {main, idle, a, b}
  Main = main
  IdleThread = idle
  NoThread = NoThread
  Mutexes = {m, n}
  Conds = {c}
  Barriers = {bar}
  Parties <- MCParties
  NoObject = NoObject
  Highest = 1
  Lowest = 2
  MainPriority = 3
  IdlePriority = 4
  TaskPriority <- MCBarrierPriority
  AgingFactor <- MCNoAging
  AgingTime <- MCOne
  Program <- MCBarrierProgram
  Budget <- MCBarrierBudget
  MaxTime = 0
SPECIFICATION FairSync
PROPERTY BarrierReleases
