CONSTANTS
  NumWorkers = 1
  Configs <- TokioTcp
SPECIFICATION FairSpec
PROPERTY DropStopsListeners
CHECK_DEADLOCK FALSE
