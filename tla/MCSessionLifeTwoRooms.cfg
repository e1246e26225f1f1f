SPECIFICATION Spec
CONSTANTS
  Sessions = {s1}
  Handles = {h1}
  Workers = {w1, w2}
  Rooms = {0, 1}
  ReuseHandles = FALSE
  MaxConns = 1
  MaxMsgs = 2
  None = None
INVARIANT OneRoom
CHECK_DEADLOCK FALSE
