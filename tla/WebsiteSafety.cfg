SPECIFICATION FairSpec
CONSTANTS
  Offers <- MCOffers
  Hours <- MCHours
  MaxFlaws = 4
  MaxRedirects = 1
  Deadline = 2
  OpTimeout = 1
INVARIANTS
  TypeOK
  TLSGradeIsEarned
  HeaderGradeIsEarned
  InDeadline
PROPERTIES
  Answered
\* The answer ends the request.
CHECK_DEADLOCK FALSE
