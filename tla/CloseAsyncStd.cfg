CONSTANTS
  NumWorkers = 1
  Configs <- AsyncStdTcp
SPECIFICATION FairSpec
PROPERTY CloseStopsEveryListener
CHECK_DEADLOCK FALSE
