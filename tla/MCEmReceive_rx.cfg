CONSTANTS
  p1 = p1  p2 = p2  NoPacket = NoPacket
  Packets = {p1, p2}
  RingSize = 4
  FreeThresh = 1
  BurstSize = 3
  CacheSize = 2
  PoolSizes = {2, 4, 7, 9}
SPECIFICATION FairSpec
INVARIANTS TypeOK BuffersConserved CardKeepsOff NeverOutOfBuffers
PROPERTIES CardIsServed ImplementsPacketQueue
CHECK_DEADLOCK FALSE
