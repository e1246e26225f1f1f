SPECIFICATION Spec
CONSTANTS
  HeaderSize = 2
  BufferSize = 5
  BodySizes <- SomeSizes
  MaxPackets = 3
  MaxConns = 2
INVARIANTS TypeOK FramesRight StreamConserved NothingHeldBack RoomToReceive
CHECK_DEADLOCK FALSE
