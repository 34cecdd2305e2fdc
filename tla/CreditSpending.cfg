SPECIFICATION FairSpec
CONSTANTS
  a1 = a1
  a2 = a2
  g1 = g1
  g2 = g2
  Nobody = Nobody
  Actions = {a1, a2}
  Grantors = {g1, g2}
  Cost <- Prices
  Amounts <- Grants
  MaxStepAttempts = 2
  TrackingFaults = FALSE
CHECK_DEADLOCK FALSE
INVARIANTS TypeOK PaidOnce
PROPERTIES LedgerIsExact ActionsSettle
