SPECIFICATION Spec
CONSTANTS
  h = h
  lookalike = lookalike
  public = public
  edge = edge
  private = private
  d = d
  b = b
  NoHost = NoHost
  NoIP = NoIP
  BadIP = BadIP
  Host = {h, lookalike}
  Addr = {public, edge, private}
  Reserved = {private}
  Shared = {edge}
  Domain = {d}
  Block = {b}
  MaxChanges = 1
  Under <- MCUnder
  Within <- MCWithin
  AuthSets <- MCAuthSets
  Answers <- MCAnswers
  Policies <- MCPolicies
  Requests <- MCRequests
INVARIANTS
  PinsAreSafe
  AllowIsEarned
  RefusalHasReason
