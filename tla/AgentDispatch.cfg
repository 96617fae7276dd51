CONSTANTS
  m1 = m1  m2 = m2  m3 = m3  stop = stop  cron = cron  s1 = s1
  Msgs = {m1, m3}
  Stops = {stop}
  Directs = {cron}
  Subs = {s1}
  Chats <- MCChats
  Keys <- MCChats
  Chat <- MCChat
  Key <- MCKey
  MaxRestarts = 1
  None = None
SPECIFICATION FairSpec
INVARIANT TypeOK AnsweredInOrder ResultsReported
PROPERTY StopIsComplete Settles
CHECK_DEADLOCK FALSE
