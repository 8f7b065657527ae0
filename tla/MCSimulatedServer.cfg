CONSTANTS
  NumWorkers = 2
  Configs <- AllServers
SPECIFICATION FairSpec
INVARIANTS
  PermitPerWorkItem
  SendNeverWaits
  DispatchersOutliveAcceptor
PROPERTIES
  HandledInOrder
  SendCompletes
  AcceptorEndEndsAll
  CloseStopsAll
CHECK_DEADLOCK FALSE
