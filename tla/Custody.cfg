CONSTANTS
  Caller = {c1, c2}
  Request = {r1, r2}
  Lane = {l1, l2}
  Limit = 4
  RouteProcess = {"p1", "p2", "p3"}
  SharedRoot = TRUE
  Frame = {"lock", "hidden"}
  MaxNonce = 2
  MaxEdits = 1
  Location = {0, 1}
  Agent = {"da", "db"}
  HubCall = {"c1", "c2"}
  Deal = {"x"}
  Configured = "da"
  None = None
SPECIFICATION CustodySpec
INVARIANTS
  Inductive
  RoutesSignOnce
  SettledAsApproved
  DealsAreSound
CHECK_DEADLOCK FALSE
