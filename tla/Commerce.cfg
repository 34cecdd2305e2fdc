SPECIFICATION BillingSpec
CONSTANTS
  w1 = w1
  c1 = c1
  c2 = c2
  e1 = e1
  v1 = v1
  v2 = v2
  n1 = n1
  n2 = n2
  n3 = n3
  None = None
  Workspaces = {w1}
  Callers = {c1, c2}
  Trialers = {c1}
  MaxPlan = 1
  MaxRows = 2
  MaxChanges = 1
  MaxCrashes = 2
  Events = {e1}
  EventType <- Renewals
  EventFor <- ForFirst
  MaxDeliveries = 2
  Writers = {v1, v2}
  Occasions = {n1, n2, n3}
  PageSize = 1
  Resting = Resting
  Away = Away
  First = First
  MaxNotices = 3
  MaxTime = 1
  MaxMarks = 1
SYMMETRY Perms
INVARIANTS BillingTypeOK BillingHolds NoticesHold
CHECK_DEADLOCK FALSE
