SPECIFICATION Spec
CONSTANTS
  Sources <- MCSources
  Kinds <- MCKinds
  MaxEvents = 3
  None = None
  Torn = Torn
INVARIANT TypeOK TrailAgrees
PROPERTY CatchesUp
CHECK_DEADLOCK FALSE
