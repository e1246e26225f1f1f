SPECIFICATION Spec
CONSTANTS
  t1 = t1
  t2 = t2
  t3 = t3
  Threads <- ThreeThreads
  MaxChunks = 3
  MaxReuse = 1
INVARIANT OwnChunksOnly
CHECK_DEADLOCK FALSE
