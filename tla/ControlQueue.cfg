SPECIFICATION Spec
CONSTANTS
  Keys = {k1}
  Projects = {p1}
  MaxGaps = 1
  MaxEvents = 3
  None = None
INVARIANT TypeOK
INVARIANT Trail
INVARIANT Findable
CHECK_DEADLOCK FALSE
