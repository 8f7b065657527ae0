CONSTANTS
  NumWorkers = 2
  Capacity = 1
  MaxArrivals = 2
SPECIFICATION Spec
PROPERTIES
  CallbackEndIsLocal
CHECK_DEADLOCK FALSE
