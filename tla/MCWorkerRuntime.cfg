CONSTANTS
  NumWorkers = 2
  MaxTasks = 3
  Configs <- Builds
SPECIFICATION FairSpec
INVARIANTS
  NoStaleSubmit
  TableTracksTasks
  JoinedBeforeReturn
PROPERTIES
  CancelStops
  DropEnds
CHECK_DEADLOCK FALSE
