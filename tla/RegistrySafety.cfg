SPECIFICATION Spec
CONSTANTS
  alice = alice
  bob = bob
  aliceUUID = aliceUUID
  NULL = NULL
  User = {alice, bob}
  Sub = {aliceUUID}
  Derive <- MCDerive
  Name = {"example.com"}
  MaxId = 2
  MaxMoves = 1
  DefaultSize = 1
  MaxSize = 2
  Questions <- MCQuestions
INVARIANTS
  TypeOK
  OneRowPerValue
  UIDBelongsToOwner
  WalkIsAccountedFor
  NumbersAddUp
\* Every id is used up, and the one query answered: the bounds end the system.
CHECK_DEADLOCK FALSE
