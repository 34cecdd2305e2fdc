SPECIFICATION UpkeepSpec
CONSTANTS
  k1 = k1
  k2 = k2
  k3 = k3
  Tables = {k1, k2, k3}
  Ids = {1, 2}
  Schemas <- AllSchemas
  MaxBreaks = 20
  MaxWrites = 4
  Processes = {w1, w2}
  Nobody = Nobody
  MinRetained = 1
  MaxRuns = 3
  MaxAged = 2
  MaxBackupFaults = 1
  Contacts = {person}
  Leads = {l1}
  q1 = q1
  q2 = q2
  Requests = {q1, q2}
  NoContact = NoContact
  NoRequest = NoRequest
  Members = {m1}
  Purgers = {w1, w2}
  PurgeIds = {i1, i2}
  NotPurging = NotPurging
  MaxPurgeFaults = 1
CONSTRAINT PlanOnly
INVARIANTS UpkeepTypeOK BackupsHold
PROPERTIES RowsAreKept UpkeepSettles
CHECK_DEADLOCK FALSE
