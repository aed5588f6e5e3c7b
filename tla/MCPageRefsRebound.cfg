SPECIFICATION RefSpec
CONSTANTS
  Observers = {o1, o2, o3}
  Base = {}
  Widgets = {1, 2}
  Includes = {TRUE, FALSE}
  Concurrent = FALSE
  MaxActs = 1
  MaxRevision = 1
INVARIANT ActsOnTheElementAnswered
CHECK_DEADLOCK FALSE
