SPECIFICATION AccountsSpec
CONSTANTS
  c1 = c1
  c2 = c2
  a1 = a1
  None = None
  Callers = {c1, c2}
  MaxSessions = 3
  MaxPasswords = 2
  MaxResets = 1
  MaxLapses = 1
  MaxCrashes = 1
  NoCall = NoCall
  Clients = {c1, c2}
  Assets = {a1}
  MaxApprovals = 2
  MaxCallFaults = 1
  Asleep = Asleep
  Unread = Unread
  Checkers = {c1, c2}
  FirstPlan = 10
  BiggerPlan = 50
  Costs = {1, 4}
  Adjustments <- GrantOrTake
  MaxAdjustments = 1
  MaxAlertFaults = 1
  u1 = u1
  b1 = b1
  s1 = s1
  s2 = s2
  Nothing = Nothing
  Users = {u1}
  Workspaces = {w1, w2}
  Browsers = {b1}
  UserOf <- ByU1
  Hired = {"OWNER", "VIEWER"}
  Asked = {"member", "billing.manage"}
  Seeders = {s1, s2}
  Lifetime = 1
  MaxCuts = 1
SYMMETRY Perms
INVARIANTS AccountsTypeOK AlertsMatchUsage AccessHolds
PROPERTIES SessionsHold ActivationHolds
CHECK_DEADLOCK FALSE
