SPECIFICATION Spec
CONSTANTS
  HeaderSize = 2
  BufferSize = 5
  BodySizes <- SomeSizes
  MaxPackets = 2
  MaxConns = 2
INVARIANT FramesRightAlways
CHECK_DEADLOCK FALSE
