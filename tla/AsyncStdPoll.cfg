SPECIFICATION FairSpec
CONSTANTS
  NumReaders = 1
  Capacity = 1
  MaxPackets = 1
  MaxDrops = 0
  Configs <- AsyncStdPoller
PROPERTY PollerIsWoken
CHECK_DEADLOCK FALSE
