CONSTANTS
  main = main
  idle = idle
  a = a
  b = b
  Threads = {main, idle, a, b}
  Main = main
  IdleThread = idle
  NoThread = NoThread
  Highest = 1
  Lowest = 3
  MainPriority = 4
  IdlePriority = 5
  TaskPriority <- MCPriority2
  AgingFactor <- MCOnlyBAges
  AgingTime <- MCOne
  Program <- MCAllCalls
  Budget <- MCBudget321
  MaxTime = 2
SPECIFICATION Spec
INVARIANT OneList
INVARIANT OneRunning
INVARIANT NoDangling
INVARIANT JoinsPaired
