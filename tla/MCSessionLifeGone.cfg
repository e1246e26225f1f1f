SPECIFICATION FairSpec
CONSTANTS
  Sessions = {s1}
  Handles = {h1}
  Workers = {w1, w2}
  Rooms = {0, 1}
  ReuseHandles = TRUE
  MaxConns = 2
  MaxMsgs = 3
  None = None
PROPERTY GoneIsPooled
CHECK_DEADLOCK FALSE
