SPECIFICATION FairSpec
CONSTANTS
  s1 = s1
  s2 = s2
  s3 = s3
  s4 = s4
  Sessions = {s1, s2, s3, s4}
  SocketOf <- MCSocketOf
  MaxRoomUserCount = 3
  MaxSendSpawnCount = 1
  MaxSendMoveCount = 1
  MinMoveTick = 2
  MaxX = 3
  Limits <- MCLimits
  NoUser = NoUser
  Unknown = Unknown
INVARIANTS TypeOK SeqIDsKept OnCourse StoppedIsKnown
PROPERTIES ImplementsView MoversArrive
CHECK_DEADLOCK FALSE
