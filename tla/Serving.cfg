SPECIFICATION ServingSpec
CONSTANTS
  x1 = x1
  k1 = k1
  k2 = k2
  None = None
  Workspaces = {x1}
  Callers = {k1, k2}
  Trialers = {k1}
  MaxPlan = 1
  MaxRows = 2
  MaxChanges = 0
  MaxCrashes = 2
  Events = {}
  EventType <- NoEvents
  EventFor <- NoEvents
  MaxDeliveries = 0
  u1 = u1
  u2 = u2
  ad1 = ad1
  ad2 = ad2
  t1 = t1
  Exports = {e1, e2}
  Exporters = {w1, w2}
  NoWork = NoWork
  MaxTries = 2
  MaxExportRuns = 4
  MaxExportFaults = 2
  Slots = {s1, s2}
  Users = {u1, u2}
  Addresses = {ad1, ad2}
  Tenants = {t1}
  AddressOf <- Homes
  TenantOf <- OneTenant
  Idle = Idle
  MaxRequests = 2
  MaxExecutions = 1
  MaxSent = 3
  Down = Down
  NotScheduled = NotScheduled
  MaxEdits = 3
INVARIANTS ServingTypeOK ExportIsSound ServiceHolds
PROPERTY ServingSettles
CHECK_DEADLOCK FALSE
