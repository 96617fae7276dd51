SPECIFICATION Spec
CONSTANTS
  Adapters <- MCAdapters
  Events <- MCEvents
  Window = 2
  MaxPosted = 3
  MaxAgain = 1
  MaxFaults = 2
INVARIANT TypeOK BusRight
PROPERTY Served
CHECK_DEADLOCK FALSE
