SPECIFICATION PartsSpec
CONSTANTS
  Tickets = {t1, t2}
  NoTicket = NoTicket
  OpIds = {o1}
  NoOp = NoOp
  Fingerprints <- RouteNames
  MaxOperations = 2
  MaxReview = 5
  Calls = {c1, c2}
  Offered <- Everything
  Modes = {"qa"}
  Servers = {"s"}
  Paths = {"branded", "bundled"}
  Managed = {"bundled"}
  MaxVersion = 2
  MaxBuilds = 2
  MaxLaunches = 2
  MaxKills = 1
SYMMETRY Symmetry
PROPERTIES
  CallersMayTrustAnswers
  ProfilesAreSafe
CHECK_DEADLOCK FALSE
