\* One part at a time: the proxy, the limiter, the identity provider's
\* tokens, the start of replicas, the reads of the connectors, the read filter.
SPECIFICATION SurfacesSpec
CONSTANTS
  Characters = {"a", "b", "c", "x", "y", "_", " ", "tool:"}
  Calls = {c1}
  Redemptions = {d1, d2}
  Listings = {l1}
  Upstreams <- MCUpstreams
  ToolMap <- MCToolMap
  Requests <- MCRequests
  ToolApprovals <- MCToolApprovals
  ToolDenials = {}
  NoArguments = "none"
  MaxClock = 4
  Addresses = {x}
  Bearers = {p, q}
  NoBearer = NoBearer
  PerMinute = 2
  Unit = 2
  Rate = 1
  MaxBuckets = 3
  VerifyCalls = {v1, v2}
  MaxKey = 2
  KeyTTL = 2
  MinRefresh = 2
  FetchTimeout = 1
  References = {"bot", "ann", "portal", "service-account-bot"}
  AnyValue = AnyValue
  IssuedTokens <- MCIssuedTokens
  oldRelease = oldRelease
  newRelease = newRelease
  strictRelease = strictRelease
  Replicas = {oldRelease, newRelease, strictRelease}
  Latest <- MCLatest
  AutoMigrate = {oldRelease, newRelease}
  Probed = oldRelease
  MaxCrashes = 2
  Worlds <- MCWorlds
  Names = {"x", "y", "z", "ann", "bob", "dora", "g", "r1", "r2", "r3"}
  PageSize = 1
  Docs = {1, 2, 3}
  Invalid = 0
  Policy <- MCPolicy
  BatchLimit = 2
  ListThreshold = 2
  MaxItems = 3
  MaxChanges = 1
INVARIANTS RanWasAuthorized RevokedReachesNothing AnswersMatchJournal WithinBudget WithdrawnKeyExpires RotationIsPickedUp ServedIsHolder SchemaInStep ReadyWasSeen SnapshotFaithful KeptWasAllowed StrategiesAgree AnsweredAreKept
PROPERTIES SparesExhausted
CHECK_DEADLOCK FALSE
