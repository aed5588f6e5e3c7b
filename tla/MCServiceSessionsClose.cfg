SPECIFICATION ServiceSpec
CONSTANTS
  Sessions = {s1}
  MaxOutcomes = 2
  MaxFailures = 0
INVARIANT CloseTimeRecordsKept
CHECK_DEADLOCK FALSE
