SPECIFICATION PartsSpec
CONSTANTS
  Calls = {c1, c2, c3}
  MaxInFlight = 2
  Tickets = {"ticket"}
  NoTicket = NoTicket
  OpIds = {"operation"}
  NoOp = NoOp
  Fingerprints = {"print"}
  MaxOperations = 1
  MaxReview = 4
  Dispatches = {one, two}
  RunTicket = "ticket"
  RunOp = "operation"
  Namespaces = {1, 2, 3}
  Operations = {"one", "two"}
  AcceptUntil <- FirstExpiresEarly
  RetainUntil <- FirstExpiresEarly
  MaxNamespaces = 1
  MaxRecords = 1
  MaxTime = 3
  MaxOpens = 2
  MaxCommits = 4
  Records = {"new", "old"}
  NamespaceOf <- RecordsOf
  Current = "current"
  History = {"past"}
  Reconcilable = {"new"}
  RecoveryCalls = {"call"}
  MaxStarts = 2
  Sessions = {"s", "t"}
  MaxOutcomes = 2
  MaxFailures = 1
INVARIANTS
  AcknowledgedSurvives
  RecoveryIsTrue
  SealedWhenAnswered
PROPERTIES
  PortKeepsOrder
  RunIsDurable
  RowsHold
CHECK_DEADLOCK FALSE
