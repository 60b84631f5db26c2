CONSTANTS
  Threads = {main, idle, w}
  Main = main
  IdleThread = idle
  Global = global
  Futexes <- MCFutexes
  Ops = {"yield", "block", "exit", "wake", "create", "join", "detach"}
SPECIFICATION FairSpec
INVARIANT SelfIsCaller
INVARIANT OneInLibrary
INVARIANT NoUseAfterFree
INVARIANT NoTokenBanked
PROPERTY ImplementsBaton
PROPERTY ChosenRuns
