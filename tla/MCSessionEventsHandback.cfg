SPECIFICATION EventsSpec
CONSTANTS
  Readers = {r1}
  EventTypes = {"console", "dialog", "request"}
  RequestTypes = {"request"}
  Sizes = {1, 2, 3}
  MaxEntries = 2
  MaxBytes = 3
  MaxEntryBytes = 2
  ResponseBytes = 2
  PageLimit = 1
  MaxEvents = 4
  MaxHandbacks = 1
INVARIANTS
  NothingPassedSilently
CHECK_DEADLOCK FALSE
