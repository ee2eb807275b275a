CONSTANTS
  Club = {o1, o2}
SPECIFICATION OrgPagesSpec
CHECK_DEADLOCK FALSE
INVARIANT RedirectsSettle
