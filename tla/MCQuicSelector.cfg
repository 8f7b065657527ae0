CONSTANTS
  Packets <- MCPackets
  Randoms <- MCRandoms
  WorkerCounts = {1, 3, 300}
SPECIFICATION FairSpec
INVARIANTS
  LoadsInBounds
  SelectorsAgree
  ConnectionAffinity
PROPERTY Decided
CHECK_DEADLOCK FALSE
