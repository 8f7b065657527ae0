SPECIFICATION FairSpec
CONSTANTS
  NumReaders = 3
  Capacity = 2
  MaxPackets = 3
  MaxDrops = 2
  Configs <- Views
INVARIANTS PacketWakesReader
PROPERTY EndReachesReaders
CHECK_DEADLOCK FALSE
