SPECIFICATION PartsSpec
CONSTANTS
  Sessions = {s1, s2, s3}
  s3 = s3
  Kinds = {"headless", "headed", "attach"}
  MaxCrashes = 2
  Callers = {a, b}
  Nobody = Nobody
  MaxDocs = 3
  Acts = {a, b}
  Navigations = {n}
  MaxRequests = 2
  MaxDialogs = 0
  Reads = {r, s}
  Requests = {q, r}
  RequestKinds <- Judged
  Places = {here, there}
  MaxHops = 1
  MaxSwaps = 2
  Observers = {o1, o2}
  Base = {1, 2}
  Widgets = {}
  Includes = {TRUE}
  Concurrent = FALSE
  MaxActs = 1
  MaxRevision = 2
  Main = "main"
  Subs = {"sub"}
  FormCallers = {"f", "g", "h"}
  Made = {"made"}
  Popups = {"p", "q"}
  MaxFiles = 4
  MaxEntries = 2
  MaxBytes = 3
  DownloadSizes = {1, 2}
  MaxFrameDocs = 1
  MaxMints = 2
  Combos = {"c", "d"}
  Lists = {"l"}
  Plain = {"p"}
  Names = {"m", "n"}
  Contents = {"x", "y"}
  Windows = {"v", "w"}
  NoWindow = "no window"
  Ops = {"a", "b", "c"}
  Limit = 1
INVARIANTS
  OneIsAttached
  PagesAreAccounted
  BytesWithinHold
  ReferencesStayBound
  InputMeetsItsDocument
  EvidenceStandsAlone
  LateValueDisposedOnce
  ContactsOnlyWhatWasJudged
  WindowsAreOwn
PROPERTIES
  SessionsHaveTheirBrowser
  IdentityHolds
CHECK_DEADLOCK FALSE
