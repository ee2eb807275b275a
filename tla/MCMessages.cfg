CONSTANTS
  Message = {1, 2}
  Text = {t1, t2}
  Unresolvable = {t2}
  Web = {w1, w2}
  Cron = {c1, c2}
  MaxPerRun = 1
  MaxRecipients = 2
  MaxFault = 1
  MaxPurge = 1
  First = 1
  MaxRows = 3
  Single = {w1, c1}
SPECIFICATION MCSpec
CHECK_DEADLOCK FALSE
INVARIANTS
  TypeOK
  CountersMatchRows
  SentMeansDone
PROPERTIES
  ScheduledUntouched
  SendingFinishes
  DueReleased
