SPECIFICATION PartsSpec
CONSTANTS
  Tickets = {"first", "second"}
  NoTicket = "no ticket"
  OpIds = {"operation"}
  NoOp = "no operation"
  Fingerprints = {"print"}
  MaxOperations = 1
  MaxReview = 3
  MaxRegistrations = 2
  MaxPending = 2
  Ids = {"first", "second"}
  MaxContexts = 2
  MaxSessions = 2
  MaxTerminal = 1
  Readers = {"reader"}
  EventTypes = {"console", "dialog", "request"}
  RequestTypes = {"request"}
  Sizes = {1, 2}
  MaxEntries = 2
  MaxBytes = 3
  MaxEntryBytes = 2
  ResponseBytes = 2
  PageLimit = 1
  MaxEvents = 3
  MaxHandbacks = 1
  MadePages = {1, 2}
  PopupPages = {3, 4}
  MaxPopups = 1
  MaxIds = 4
INVARIANTS
  AllocationsHold
  AuthorityHolds
  ReaderIsTold
  RegistryIsBounded
PROPERTIES
  EffectsByCurrentOwner
CHECK_DEADLOCK FALSE
