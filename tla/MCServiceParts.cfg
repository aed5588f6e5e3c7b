SPECIFICATION PartsSpec
CONSTANTS
  Transfers = {t1, t2}
  Generations = {g1, g2}
  Limit = 1
  MaxRedirects = 1
  MaxIncarnation = 2
  MaxBinds = 2
  MaxReads = 2
  Queries = {p, q, r}
  Urls = {"url"}
  Shapes <- Asked
  Rates = {0, 1}
  Window = 2
  MaxPace = 3
  ExpiresAt = 3
  Budget = 2
  HopBound = 1
  MaxNow = 3
  MaxRevision = 2
  Durations = {1}
  Nodes = {"save", "remove", "saved"}
  LabelOf <- ShownLabels
  Documents <- ShownDocuments
  ChurnLimit = 2
  HistoryLimit = 2
  PlanSteps = 2
  Others = 1
  Changes = 2
  FieldCount = 2
  Steps = 2
  MaxReobserve = 1
  MaxChanges = 1
INVARIANTS
  TransfersAreBounded
  PlanKeepsItsWord
  VerifiedTogether
PROPERTIES
  OutcomeIsHonest
  ScopeHolds
SYMMETRY Alike
CHECK_DEADLOCK FALSE
