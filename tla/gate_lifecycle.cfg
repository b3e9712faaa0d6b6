\* One request through its whole life, self-approval on, every near miss.
SPECIFICATION FairSpec
CONSTANTS
  GateCalls    = {g1}
  ResolveCalls = {s1}
  RedeemCalls  = {d1}
  Users         <- MCUsers
  Invocations   <- AllInvocations
  Fingerprint   <- MCFingerprint
  ApprovalRules <- MCApprovalRules
  DenyRules     <- MCDenyRules
  SelfApproval = TRUE
  Channels     = {mail}
  TTL      = 1
  MaxClock = 2
  Nobody   = Nobody
  alice = alice
  bob = bob
  bot = bot
  pay = pay
  ship = ship
  small = small
  big = big
INVARIANTS AllowIsBound AnswersAreJournaled
PROPERTIES OverdueCloses
CHECK_DEADLOCK FALSE
