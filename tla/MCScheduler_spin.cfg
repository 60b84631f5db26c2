CONSTANTS
  main = main
  idle = idle
  a = a
  b = b
  Threads = {main, idle, a, b}
  Main = main
  IdleThread = idle
  NoThread = NoThread
  Highest = 1
  Lowest = 3
  MainPriority = 4
  IdlePriority = 5
  TaskPriority <- MCPriorityEqual
  AgingFactor <- MCOnlyBAges
  AgingTime <- MCOne
  Program <- MCTwo
  Budget <- MCBudgetTwo
  MaxTime = 0
SPECIFICATION FairSpec
PROPERTY DispatchEnds
