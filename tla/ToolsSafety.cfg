SPECIFICATION Spec
CONSTANTS
  i1 = i1
  i2 = i2
  r1 = r1
  r2 = r2
  b1 = b1
  b2 = b2
  Req = {r1, r2}
  Ip = {i1, i2}
  Bucket = {b1, b2}
  NoIp = NoIp
  NoBucket = NoBucket
  Burst = 1
  Interval = 2
  IdleTTL = 4
  Permits = 1
  Stall = 2
  MaxDebt = 4
  MaxTime = 6
SYMMETRY Slots
INVARIANTS
  LoneRefusalIsFree
PROPERTIES
  WithinBudget
\* The clock is bounded.
CHECK_DEADLOCK FALSE
