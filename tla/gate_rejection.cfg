\* ADR 0017: a rejection is never overwritten.
SPECIFICATION Spec
CONSTANTS
  GateCalls    = {g1}
  ResolveCalls = {s1, s2}
  RedeemCalls  = {d1}
  Users         <- MCUsers
  Invocations   <- OnePayment
  Fingerprint   <- MCFingerprint
  ApprovalRules <- MCApprovalRules
  DenyRules     <- MCDenyRules
  SelfApproval = FALSE
  Channels     = {}
  TTL      = 1
  MaxClock = 2
  Nobody   = Nobody
  alice = alice
  bob = bob
  bot = bot
  pay = pay
  ship = ship
  small = small
  big = big
PROPERTIES RejectionNeverOverwritten
CHECK_DEADLOCK FALSE
