CONSTANTS
  Threads = {t1, t2, t3}
  Futexes = {g}
  NoOwner = NoOwner
SPECIFICATION FairSpec
INVARIANT TypeOK
INVARIANT MutualExclusion
INVARIANT CountMatchesOwner
INVARIANT NoLostWakeup
PROPERTY ImplementsLock
PROPERTY SomeoneEnters
