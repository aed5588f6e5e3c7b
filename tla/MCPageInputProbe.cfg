SPECIFICATION InputSpec
CONSTANTS
  Callers = {a, b}
  Nobody = Nobody
  MaxDocs = 3
INVARIANT
  ProbeHoldsPage
CHECK_DEADLOCK FALSE
