SPECIFICATION FairSpec
CONSTANTS
  NumWorkers = 3
  MaxPackets = 2
  Configs <- Services
INVARIANTS SelectorVerified CleanHandOver GroupConsistent NoSocketLeftBehind
PROPERTY ServeReturns
CHECK_DEADLOCK FALSE
