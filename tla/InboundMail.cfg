SPECIFICATION Spec
CONSTANTS
  Adapters = {"email"}
  Events <- MailEvents
  Window = 2
  MaxPosted = 3
  MaxAgain = 0
  MaxFaults = 2
PROPERTY MailHeard
CHECK_DEADLOCK FALSE
