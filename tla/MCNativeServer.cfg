CONSTANTS
  NumWorkers = 2
  Configs <- AllServers
SPECIFICATION FairSpec
INVARIANTS
  PermitsBalanced
  AtMostOneLateStart
PROPERTIES
  OnlyLiveDataHandled
  LookupHandsOutLive
  CloseStopsListeners
  LeftoverEndsOnEvent
  RuntimeDropStopsAll
CHECK_DEADLOCK FALSE
