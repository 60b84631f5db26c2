CONSTANTS
  Threads = {t1, t2, t3}
  Futexes = {g}
  NoOwner = NoOwner
SPECIFICATION SignalSpec
INVARIANT MutualExclusion
