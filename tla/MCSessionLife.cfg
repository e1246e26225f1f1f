SPECIFICATION Spec
CONSTANTS
  Sessions = {s1, s2}
  Handles = {h1, h2}
  Workers = {w1, w2}
  Rooms = {0, 1}
  ReuseHandles = TRUE
  MaxConns = 2
  MaxMsgs = 2
  None = None
SYMMETRY LifeSymmetry
INVARIANTS TypeOK KeysMatch MembersAreOpen RoomIDMatches ConnectedIsMember
CHECK_DEADLOCK FALSE
