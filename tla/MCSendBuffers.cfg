SPECIFICATION Spec
CONSTANTS
  t1 = t1
  t2 = t2
  b1 = b1
  b2 = b2
  p1 = p1
  p2 = p2
  s1 = s1
  Threads = {t1, t2}
  Sessions = {s1}
  Buffers = {b1, b2}
  FirstPool <- MCFirstPool
  NoBuffer = NoBuffer
  Packets = {p1, p2}
  NoPacket = NoPacket
  Sizes = {0, 2}
  HeaderSize = 1
  ChunkSize = 2
  MaxHeld = 2
SYMMETRY MCSymmetry
INVARIANTS TypeOK ChunksIntact BuffersConserved
CHECK_DEADLOCK FALSE
