SPECIFICATION FairAuditSpec
CONSTANTS
  Tid = {t1}
  Req = {r1, r2}
  NoTarget = NoTarget
  ChallengeMethod <- MCChallenge
  OutOfBandMethod <- MCOutOfBand
  DefaultMethod = "dns_txt"
  MaxAuths = 2
  MaxFaults = 0
  MaxLost = 1
INVARIANTS
  EventsAreTrue
  GrantIsRecorded
  RevokeIsRecorded
PROPERTIES
  VerifyingResolves
  BoundaryKept
\* Every id is used up, or every target deleted: the bounds end the system.
CHECK_DEADLOCK FALSE
