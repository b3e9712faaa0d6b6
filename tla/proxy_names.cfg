\* A tool of an upstream whose name ends in an underscore is listed.
SPECIFICATION ProxySpec
CONSTANTS
  Characters = {"a", "x", "y", "_"}
  Calls = {c1}
  Redemptions = {}
  Listings = {l1}
  Upstreams <- UnderscoreUpstreams
  ToolMap <- NoMap
  Requests <- WholeOfA
  ToolApprovals = {}
  ToolDenials = {}
  NoArguments = "none"
INVARIANT ListedLeadsBack
CHECK_DEADLOCK FALSE
