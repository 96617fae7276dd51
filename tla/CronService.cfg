CONSTANTS
  a1 = a1  e1 = e1  c1 = c1
  AtJobs = {a1}
  EveryJobs = {e1}
  CronJobs = {c1}
  Period = 2
  MaxTime = 5
  AtTimes = {1, 3}
  MaxEdits = 1
  MaxCrashes = 1
  None = None
SPECIFICATION FairSpec
INVARIANT TypeOK JobsKept OnTime
PROPERTY ImplementsReminders DueRuns
CHECK_DEADLOCK FALSE
