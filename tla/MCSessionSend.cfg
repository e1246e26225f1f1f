SPECIFICATION FairSpec
CONSTANTS
  t1 = t1
  t2 = t2
  t3 = t3
  Threads <- ThreeThreads
  MaxChunks = 5
  MaxReuse = 2
INVARIANTS TypeOK OneSender NeverEmptySend FlagIsToken SomeoneSends InOrder
PROPERTIES ImplementsOutbox QueuedIsPosted
CHECK_DEADLOCK FALSE
