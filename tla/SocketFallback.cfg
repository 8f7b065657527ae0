CONSTANTS
  NumWorkers = 2
  Capacity = 1
  MaxArrivals = 3
SPECIFICATION FairSpec
INVARIANTS
  RoutedNeverDropped
  AtMostOneLateDelivery
PROPERTIES
  CloseEndsViews
CHECK_DEADLOCK FALSE
