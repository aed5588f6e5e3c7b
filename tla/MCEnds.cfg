SPECIFICATION PartsSpec
CONSTANTS
  ProcessCalls = {"a", "b", "c"}
  Spaces = {"m", "n"}
  NoFence = NoFence
INVARIANTS
  RepliesAreTrue
PROPERTIES
  TakeoverDrains
  SessionsEnd
  CloseGetsThrough
  JournalCallsAreAnswered
  PageEventsAreServed
CHECK_DEADLOCK FALSE
