CONSTANTS
  t1 = t1  t2 = t2  t3 = t3  r1 = r1  n1 = n1  n2 = n2
  ChatKeys = {"chat"}
  DirectKeys = {"cron"}
  Turns = {t1, t2}
  Results = {r1}
  News = {n1, n2}
  MaxFailures = 3
  MaxRounds = 2
  MaxCrashes = 1
  None = None
SPECIFICATION FairSpec
INVARIANT TypeOK NothingLost HiddenIsArchived BetweenAwaits ArchivedOnce
PROPERTY AppendOnly Settles
CHECK_DEADLOCK FALSE
