CONSTANTS
  Threads = {n1, n2, n3, n4, idle}
  IdleThread = idle
  IdlePriority = 2
  NoNode = NoNode
SPECIFICATION Spec
INVARIANT RingsClosed
INVARIANT ChainsClosed
INVARIANT Sound
PROPERTY ImplementsBuckets
PROPERTY HiddenBehindFirstOnly
PROPERTY ImplementsLists
