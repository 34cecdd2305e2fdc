SPECIFICATION PeopleSpec
CONSTANTS
  u1 = u1
  u2 = u2
  u3 = u3
  c1 = c1
  c2 = c2
  a1 = a1
  a2 = a2
  NoOne = NoOne
  Users = {u1, u2, u3}
  Founder = u1
  TeamCallers = {c1, c2}
  MaxPlan = 1
  Seats <- OneThenTwo
  MaxInvites = 2
  MaxRequests = 2
  Cards = {a1, a2}
  Nothing = Nothing
  MaxPlans = 2
  MaxSaves = 2
  MaxMishaps = 1
SYMMETRY Perms
INVARIANTS PeopleTypeOK SeatsHold OwnerStays ScreenAgrees
CHECK_DEADLOCK FALSE
