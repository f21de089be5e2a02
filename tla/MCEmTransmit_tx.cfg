CONSTANTS
  XFirst = 1  XLast = 2  YFirst = 1  YLast = 2
  NoPacket = NoPacket
  RingSize = 6
  FreeThresh = 2
  RsThresh = 2
  BurstSize = 3
  CacheSize = 4
  RxRingSize = 1
  PoolSizes = {6, 12, 15}
SPECIFICATION FairSpec
INVARIANTS TypeOK BuffersConserved FreeCountHonest ArrayNeverStale
PROPERTIES FullRingDrains ImplementsPacketQueue
