SPECIFICATION Spec
CONSTANTS
  Tid = {t1}
  Req = {r1, r2}
  NoTarget = NoTarget
  ChallengeMethod <- MCChallenge
  OutOfBandMethod <- MCOutOfBand
  DefaultMethod = "dns_txt"
  MaxAuths = 3
  MaxFaults = 1
SYMMETRY Slots
INVARIANTS
  TypeOK
  ProgramNeverDemoted
  KillSwitchHolds
  OnlyChallengesAreProved
  VerifiedHasRow
  VerifyingIsOwned
\* Every id is used up, or every target deleted: the bounds end the system.
CHECK_DEADLOCK FALSE
