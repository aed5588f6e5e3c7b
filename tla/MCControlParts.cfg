SPECIFICATION PartsSpec
CONSTANTS
  Tickets = {t1, t2}
  NoTicket = NoTicket
  OpIds = {o1, o2}
  NoOp = NoOp
  Fingerprints = {f1}
  MaxOperations = 2
  MaxReview = 4
  TokenIds = {"one", "two", "three"}
  Sessions = {"session", "other"}
  Actions = {"act"}
  Versions = {"v", "w"}
  MaxTokens = 1
  Ttl = 1
  MaxTime = 1
  Acts = {t1, t2}
  Session = "session"
  Requests <- Reviewed
  LeaseActions = 1
  MaxLeases = 2
SYMMETRY Symmetry
INVARIANTS
  TicketsAreAccounted
PROPERTIES
  DispatchesOnlyAsOwner
  NothingIsTakenBack
  ApprovalsHold
  ActIsReviewed
CHECK_DEADLOCK FALSE
