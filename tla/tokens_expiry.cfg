CONSTANTS
  a1 = a1
  a2 = a2
  u1 = u1
  u2 = u2
  NoMandate = NoMandate
  Mandates = {m1}
  IssueCalls = {i1}
  Delegations = {d1}
  VerifyCalls = {v1}
  RevokeCalls = {r1}
  Users <- MCUsers
  Agents <- MCAgents
  Scopes <- MCScopes
  Asks <- MCAsks
  MaxTTLs = {1}
  TTLs = {0}
  DefaultTTL = 2
  MaxLife = 1
  MaxDepth = 1
  MaxClock = 2
SPECIFICATION Spec
CHECK_DEADLOCK FALSE
INVARIANT NeverLonger
