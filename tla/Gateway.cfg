SPECIFICATION Spec
CONSTANTS
  Configs <- MCConfigs
  Shapes <- MCShapes
  Runs = {"cron", "heartbeat"}
  MaxFaults = 4
  MaxErrors = 4
  MaxTalk = 1
  None = None
INVARIANT TypeOK SeenRight
PROPERTY Settles
CHECK_DEADLOCK FALSE
