SPECIFICATION FairSpec
CONSTANTS
  w1 = w1
  w2 = w2
  Workers <- TwoWorkers
  RoomCount = 2
  MaxJobs = 3
INVARIANTS TypeOK RoomFifo DrainedBeforeExit OneLatePerWorker ReleasedAlone
PROPERTIES JobsAreDispatched ShutdownEnds
CHECK_DEADLOCK FALSE
