CONSTANTS
  Template = {t1}
  Campaign = {k1}
  TemplateOf <- MCTemplateOf
  Delivery = {1, 2}
  CampaignOf <- MCCampaignOf
  Editor = {}
  Sender = {s1}
  Cron = {c1, c2}
  MaxReminders = 2
  Limit = 2
  ReminderAfter = 2
  Expiry = 4
  MaxTime = 4
  MaxFault = 0
SPECIFICATION Spec
CHECK_DEADLOCK FALSE
INVARIANT NudgesSpaced
