SPECIFICATION FairReviewSpec
CONSTANTS
  c1 = c1
  c2 = c2
  c3 = c3
  e1 = e1
  e2 = e2
  Starters = {c1}
  Reviewers = {c2, c3}
  NumSteps = 3
  Gates = {2}
  MaxStepAttempts = 2
  MaxRetries = 2
  MaxAborts = 1
  Slots = {"s1", "s2"}
  PillarKeys = {"p1", "p2"}
  MaxItems = 2
  Cost <- CreditCosts
  Credits = 5
  MaxTries = 2
  Editors = {e1}
  MaxPatches = 1
  MaxPlanRetries = 1
  MaxPlanFaults = 2
  NotYet = NotYet
  NoValue = NoValue
  WriteSlots = {"w"}
  MaxVersion = 2
  MaxFetchFaults = 1
  MaxMoves = 3
CHECK_DEADLOCK FALSE
INVARIANTS TypeOK SoleExecutor StepsInOrder
PROPERTIES OverwritesNothing ReviewSettles ReviewHolds
