SPECIFICATION Spec
CONSTANTS
  r1 = r1
  r2 = r2
  free = free
  User = User
  Req = {r1, r2}
  Plan = {free}
  DefaultPlan = free
  Limit <- MCLimit
  TopLimit = 1
  PlanTTL = 1
  EntitlementsTTL = 2
  Timeout = 1
  MaxEdits = 1
  MaxExtra = 1
  MaxTime = 3
SYMMETRY Slots
INVARIANTS
  UsedValuesAreRecent
  OvershootIsBounded
\* The clock, the edits and the unjudged inserts are bounded.
CHECK_DEADLOCK FALSE
