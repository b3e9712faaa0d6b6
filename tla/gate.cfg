\* One request; any three of two humans resolving it and two redeems.
SPECIFICATION Spec
CONSTANTS
  GateCalls    = {g1}
  ResolveCalls = {s1, s2}
  RedeemCalls  = {d1, d2}
  Users         <- MCUsers
  Invocations   <- OnePayment
  Fingerprint   <- MCFingerprint
  ApprovalRules <- MCApprovalRules
  DenyRules     <- MCDenyRules
  SelfApproval = FALSE
  Channels     = {}
  TTL      = 1
  MaxClock = 2
  Nobody   = Nobody
  alice = alice
  bob = bob
  bot = bot
  pay = pay
  ship = ship
  small = small
  big = big
SYMMETRY CallSymmetry
CONSTRAINT ThreeCalls
INVARIANTS TypeOK SingleUse OneResolution ApprovalHasAuthority
PROPERTIES NeverReopened KeepsContract
CHECK_DEADLOCK FALSE
