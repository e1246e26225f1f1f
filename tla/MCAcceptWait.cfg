SPECIFICATION FairSpec
CONSTANTS
  Acceptors = {o1, o2}
  Sessions = {s1, s2}
  l1 = l1
  t1 = t1
  l2 = l2
  Threads <- SomeThreads
  Listeners <- SomeListeners
  None = None
INVARIANTS TypeOK SessionsConserved AcceptorsKept NoLostWakeup
PROPERTY WaitersAreServed
CHECK_DEADLOCK FALSE
