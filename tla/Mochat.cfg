SPECIFICATION Spec
CONSTANTS
  Settings <- MCSettings
  Limit = 2
  Cap = 3
  MaxPosted = 2
  MaxLives = 2
  MaxFaults = 1
  None = None
INVARIANT TypeOK DeliveredOnce
CHECK_DEADLOCK FALSE
PROPERTY Heard
