CONSTANTS
  Template = {t1}
  Campaign = {k1}
  TemplateOf <- MCTemplateOf
  Delivery = {1, 2}
  CampaignOf <- MCCampaignOf
  Editor = {e1}
  Sender = {s1}
  Cron = {c1, c2}
  MaxReminders = 2
  Limit = 1
  ReminderAfter = 1
  Expiry = 3
  MaxTime = 2
  MaxFault = 1
SPECIFICATION Spec
CHECK_DEADLOCK FALSE
INVARIANTS
  TypeOK
  NudgesSpread
  FailedIsExact
PROPERTY PendingDispatched
