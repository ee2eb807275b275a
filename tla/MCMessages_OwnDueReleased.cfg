CONSTANTS
  Message = {1, 2}
  Text = {t1}
  Unresolvable = {}
  Web = {}
  Cron = {c1}
  MaxPerRun = 2
  MaxRecipients = 1
  MaxFault = 0
  MaxPurge = 0
  First = 1
  MaxRows = 1
  Single = {c1}
SPECIFICATION MCSpec
CHECK_DEADLOCK FALSE
PROPERTY OwnDueReleased
