CONSTANTS
  Gates = {"fresh", "missing", "expired"}
  Goals = {"bootstrap", "g"}
  DefaultGoal = "bootstrap"
  MaxUpsets = 1
  None = None
SPECIFICATION Spec
INVARIANT TypeOK OneActive KeepsVerifying
PROPERTY StaysRetired
CHECK_DEADLOCK FALSE
